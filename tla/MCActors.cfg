SPECIFICATION FairSpec
CONSTANTS
    login = login
    banner = banner
    first = first
    second = second
    None = None
    Pages = {p1, p2}
    Actors = {login, banner}
    Order <- MCOrder
    Scoped = {login}
    Urls = {first, second}
    Matches <- MCMatches
    Slow = {}
    MaxTasks = 4
INVARIANT ClaimIsLive
PROPERTY KeepsPromise
CHECK_DEADLOCK FALSE
