SPECIFICATION PluginsSpec
CONSTANTS
    contexts = contexts
    block = block
    recorder = recorder
    screen = screen
    webgl = webgl
    page = page
    hello = hello
    own = own
    history = history
    m1 = m1
    m2 = m2
    m3 = m3
    m4 = m4
    probe = probe
    None = None
    List <- MCList
    Kind <- MCKind
    Pinned <- MCPinned
    Priority <- MCPriority
    Optional = {recorder, contexts, probe}
    Hooks <- MCHooks
    Matches <- MCMatches
    Rewrites <- MCRewrites
    Declares <- MCDeclares
    Claims <- MCClaims
    Recorder = recorder
    Limit = 2
    Messages = {m1, m3, m4}
    Way <- MCWay
    Method <- MCMethod
    Runtime4 = {hello}
    History = history
    ProxyMethods = {hello, own, history}
INVARIANTS
    SessionIsWhole
PROPERTIES
    StartedIsEnded
CHECK_DEADLOCK FALSE
