-------------------------------- MODULE Plugins --------------------------------
(***************************************************************************)
(* The plugins of one connection: surfaces compiled and protocol plugins   *)
(* installed at its start (#init of src/src/proxy-connection.ts, compile   *)
(* of src/src/surface.ts, install of src/src/plugin.ts), the hooks a       *)
(* message passes, the declared Proxy.* methods, the lifecycle hooks, the  *)
(* recorder plugin and the summary of src/src/debug.ts.                    *)
(*                                                                         *)
(* Abstracted.  A message is one of Messages, with a direction and a       *)
(* method; the ones of one session follow each other as Ordering says, the *)
(* ones of different sessions, which Messages stand for, run side by side. *)
(* Surfaces claim one header and one part of the display.  Names are       *)
(* unique within a kind, as partition makes sure before the session is     *)
(* registered.  A hook ends: each ctx.send it awaits has a timeout; and one *)
(* that rewrites a command returns another message than the one it got.    *)
(***************************************************************************)
EXTENDS Integers, Sequences, FiniteSets, Functions

CONSTANTS
    List,       \* the configured plugins, in the order of the caller's list
    Kind,       \* plugin -> "surface" or "protocol"
    Pinned,     \* plugin -> "first", "last" or "no"
    Priority,   \* plugin -> priority
    Optional,   \* the plugins the session may go on without
    Hooks,      \* plugin -> the message hooks it has
    Matches,    \* plugin -> the methods its globs match
    Rewrites,   \* plugin -> the methods its onRequest may turn a command into
    Declares,   \* plugin -> the Proxy.* methods it declares
    Claims,     \* surface -> the header value and display part it returns
    Recorder,   \* the recorder plugin
    Limit,      \* its limit
    Messages,   \* messages of the connection
    Way,        \* message -> "onRequest", "onResponse" or "onEvent"
    Method,     \* message -> method
    Runtime4,   \* the methods the runtime answers itself
    History,    \* Proxy.history, which the recorder answers
    ProxyMethods,
    None

Plugins == Range(List)

ASSUME PluginsAssumption ==
    /\ List \in Seq(Plugins) /\ \A i, j \in DOMAIN List : List[i] = List[j] => i = j
    /\ Priority \in [Plugins -> Int] /\ Kind \in [Plugins -> {"surface", "protocol"}]
    /\ Recorder \in Plugins /\ Rewrites[Recorder] = {} /\ Limit \in Nat \ {0}
    /\ None \notin Plugins \cup {"decided", "answered"} /\ Runtime4 \cup {History} \subseteq ProxyMethods

VARIABLES
    stage,      \* of #init: "surfaces", "protocol", "starting", "running", "failed"
    todo,       \* the plugins the stage has still to come to
    resolved,   \* the surfaces that set up
    merged,     \* the header and the display part the surfaces ended up with
    conflicts,  \* the surfaces the conflict report names
    installed,  \* #plugins of the pipeline: the protocol plugins that set up
    failed,     \* those whose setup threw and that the session needs
    reaped,     \* "no", or the stage in which the connection was reaped
    ending,     \* what onSessionEnd has still to come to
    started,    \* the plugins onSessionStart was called for
    ended,      \* those onSessionEnd was called for
    msg,        \* each message: where it is, in whose hook, its method now, its outcome
    ran,        \* the plugins with a message hook on the books of count
    warned,     \* those the summary says never ran
    entries     \* of the recorder

startup     == <<stage, todo, resolved, merged, conflicts, installed, failed, started>>
ends        == <<reaped, ending, ended, warned>>
pluginsVars == <<startup, ends, msg, ran, entries>>
-----------------------------------------------------------------------------
(* order: what is pinned keeps its end, then higher priorities run earlier, *)
(* then the caller's order.                                                *)
Rank(p) == CASE Pinned[p] = "first" -> 2 [] Pinned[p] = "last" -> 0 [] OTHER -> 1
At(p)   == CHOOSE i \in DOMAIN List : List[i] = p

Before(p, q) ==
    \/ Rank(p) > Rank(q)
    \/ Rank(p) = Rank(q) /\ Priority[p] > Priority[q]
    \/ Rank(p) = Rank(q) /\ Priority[p] = Priority[q] /\ At(p) < At(q)

Order(kind) ==
    LET S == {p \in Plugins : Kind[p] = kind}
    IN  CHOOSE s \in [1 .. Cardinality(S) -> S] :
            \A i, j \in DOMAIN s : i < j => Before(s[i], s[j])

PluginsInit ==
    /\ stage = "surfaces" /\ todo = Order("surface")
    /\ resolved = <<>> /\ merged = [header |-> None, part |-> None] /\ conflicts = {}
    /\ installed = <<>> /\ failed = {} /\ started = {}
    /\ reaped = "no" /\ ending = <<>> /\ ended = {} /\ warned = {}
    /\ msg = [m \in Messages |-> [at |-> "new", pos |-> 0, hook |-> None, method |-> Method[m],
                                  out |-> None, by |-> None]]
    /\ ran = {} /\ entries = <<>>
-----------------------------------------------------------------------------
(* compile, its first loop: a surface that throws stands down. *)
SetUpSurface ==
    /\ stage = "surfaces" /\ todo # <<>>
    /\ todo' = Tail(todo)
    /\ \/ resolved' = Append(resolved, Head(todo)) /\ UNCHANGED conflicts
       \/ conflicts' = conflicts \cup {Head(todo)} /\ UNCHANGED resolved
    /\ UNCHANGED <<stage, merged, installed, failed, started, ends, msg, ran, entries>>

(* Its second loop: the earlier claim stays, the later one is reported; a   *)
(* header wanted twice with one value is no conflict.                       *)
FirstClaim(what) ==
    LET claim == {i \in DOMAIN resolved : Claims[resolved[i]][what] # None}
    IN  IF claim = {} THEN None
        ELSE resolved[CHOOSE i \in claim : \A j \in claim : i <= j]

Overruled(what) ==
    {s \in Range(resolved) \ {FirstClaim(what)} :
        /\ Claims[s][what] # None
        /\ what = "header" => Claims[s][what] # Claims[FirstClaim(what)][what]}

CompileSurfaces ==
    /\ stage = "surfaces" /\ todo = <<>>
    /\ merged' = [header |-> FirstClaim("header"), part |-> FirstClaim("part")]
    /\ conflicts' = conflicts \cup Overruled("header") \cup Overruled("part")
    /\ stage' = "protocol" /\ todo' = Order("protocol")
    /\ UNCHANGED <<resolved, installed, failed, started, ends, msg, ran, entries>>

(* A patch that is no function, or no text: compile throws, and #init reaps *)
(* the connection, which has no pipeline to tell.                          *)
CompileThrows ==
    /\ stage = "surfaces" /\ todo = <<>>
    /\ stage' = "failed"
    /\ reaped' = IF reaped = "no" THEN "surfaces" ELSE reaped
    /\ UNCHANGED <<todo, resolved, merged, conflicts, installed, failed, started,
                   ending, ended, warned, msg, ran, entries>>

(* install: every setup is tried, in order, whoever failed before. *)
SetUpPlugin ==
    /\ stage = "protocol" /\ todo # <<>>
    /\ todo' = Tail(todo)
    /\ LET p == Head(todo) IN
        \/ installed' = Append(installed, p) /\ UNCHANGED failed
        \/ /\ failed' = IF p \in Optional /\ Pinned[p] = "no" THEN failed ELSE failed \cup {p}
           /\ UNCHANGED installed
    /\ UNCHANGED <<stage, resolved, merged, conflicts, started, ends, msg, ran, entries>>

Clash == \E p, q \in Range(installed) : p # q /\ Declares[p] \cap Declares[q] # {}

(* The end of install; a failure reaps the connection, which has then no    *)
(* pipeline to tell.  Mutant: the session goes on without what failed.     *)
InstallEndsLeniently ==
    /\ stage = "protocol" /\ todo = <<>>
    /\ stage' = "starting" /\ todo' = installed
    /\ UNCHANGED <<resolved, merged, conflicts, installed, failed, started, ends, msg, ran, entries>>

InstallEnds ==
    /\ stage = "protocol" /\ todo = <<>>
    /\ IF failed # {} \/ Clash
       THEN /\ stage' = "failed" /\ UNCHANGED <<todo, ending, ended, warned>>
            /\ reaped' = IF reaped = "no" THEN "protocol" ELSE reaped
       ELSE /\ stage' = "starting" /\ todo' = installed
            /\ UNCHANGED ends
    /\ UNCHANGED <<resolved, merged, conflicts, installed, failed, started, msg, ran, entries>>

(* onSessionStart, one plugin after the other; reaped or not. *)
SessionStart ==
    /\ stage = "starting"
    /\ IF todo = <<>>
       THEN stage' = "running" /\ UNCHANGED <<todo, started>>
       ELSE started' = started \cup {Head(todo)} /\ todo' = Tail(todo) /\ UNCHANGED stage
    /\ UNCHANGED <<resolved, merged, conflicts, installed, failed, ends, msg, ran, entries>>
-----------------------------------------------------------------------------
(* A message goes through the pipeline: a command once #init is done, the  *)
(* rest as soon as there is a pipeline, and what waited for it even if the *)
(* connection has been reaped meanwhile.                                   *)
Admitted(m) ==
    \/ msg[m].at = "in"
    \/ /\ msg[m].at = "new"
       /\ IF Way[m] = "onRequest" THEN stage = "running" /\ reaped = "no"
          ELSE stage \in {"starting", "running"} /\ reaped \in {"no", "surfaces", "protocol"}

(* Which plugin's hook comes next: match is asked about the method the      *)
(* client sent.                                                            *)
Listens(p, m) == Way[m] \in Hooks[p] /\ Method[m] \in Matches[p]
NextAt(m)     == {i \in DOMAIN installed : i > msg[m].pos /\ Listens(installed[i], m)}

(* The recorder: Proxy.history is answered and not recorded. *)
Record(p, m) ==
    IF p # Recorder \/ msg[m].method = History THEN UNCHANGED entries
    ELSE LET all == Append(entries, m)
         IN  entries' = IF Len(all) > Limit THEN Tail(all) ELSE all

Enter(m) ==
    /\ Admitted(m) /\ msg[m].hook = None
    /\ \E i \in NextAt(m) :
        /\ \A j \in NextAt(m) : i <= j
        /\ msg' = [msg EXCEPT ![m].at = "in", ![m].pos = i, ![m].hook = installed[i]]
        /\ Record(installed[i], m)
    /\ UNCHANGED <<startup, ends, ran>>

(* The hook returns: its plugin is counted, whatever came of it.  It passes *)
(* the message on, changed or not (a throw counts as neither), rewrites a   *)
(* command into another one, or decides.                                   *)
Decide(m, out, by) ==
    msg' = [msg EXCEPT ![m].hook = None, ![m].at = "done", ![m].out = out, ![m].by = by]

Leave(m) ==
    /\ msg[m].hook # None
    /\ LET p == msg[m].hook IN
        /\ ran' = ran \cup {p}
        /\ \/ /\ p # Recorder \/ msg[m].method # History
              /\ msg' = [msg EXCEPT ![m].hook = None]
           \/ /\ Way[m] = "onRequest"
              /\ \E method \in Rewrites[p] :
                    msg' = [msg EXCEPT ![m].hook = None, ![m].method = method]
           \/ /\ p # Recorder \/ msg[m].method = History
              /\ Decide(m, "decided", p)
    /\ UNCHANGED <<startup, ends, entries>>

(* answer: the plugin that declared the method the hooks left the command   *)
(* with, whatever its match says.                                          *)
Declarers(m) == {p \in Range(installed) : msg[m].method \in Declares[p]}

Answerer(m) ==
    IF msg[m].method \in Runtime4 THEN "runtime"
    ELSE IF Declarers(m) # {} THEN CHOOSE p \in Declarers(m) : TRUE ELSE "unknown"

(* No hook is left: #answerProxyMethod, or on to the other socket. *)
Through(m) ==
    /\ Admitted(m) /\ msg[m].hook = None /\ NextAt(m) = {}
    /\ IF Way[m] = "onRequest" /\ msg[m].method \in ProxyMethods
       THEN Decide(m, "answered", Answerer(m))
       ELSE Decide(m, "forwarded", None)
    /\ UNCHANGED <<startup, ends, ran, entries>>
-----------------------------------------------------------------------------
(* #reap: the pipeline is told if there is one by now. *)
ReapPipeline ==
    /\ reaped = "no" /\ stage # "failed"
    /\ reaped' = stage
    /\ ending' = IF stage \in {"starting", "running"} THEN installed ELSE <<>>
    /\ UNCHANGED <<startup, ended, warned, msg, ran, entries>>

(* onSessionEnd, plugin by plugin; the recorder drops what it has.  Mutant: *)
(* a plugin whose onSessionStart has not come yet is passed over.          *)
SessionEndStarted ==
    /\ ending # <<>>
    /\ ending' = Tail(ending)
    /\ ended' = ended \cup ({Head(ending)} \cap started)
    /\ entries' = IF Head(ending) = Recorder THEN <<>> ELSE entries
    /\ UNCHANGED <<startup, reaped, warned, msg, ran>>

SessionEnd ==
    /\ ending # <<>>
    /\ ending' = Tail(ending)
    /\ ended' = ended \cup {Head(ending)}
    /\ entries' = IF Head(ending) = Recorder THEN <<>> ELSE entries
    /\ UNCHANGED <<startup, reaped, warned, msg, ran>>

(* summary: a plugin with globs and message hooks, none on the books. *)
Summary ==
    /\ reaped \in {"starting", "running"} /\ ending = <<>> /\ warned = {}
    /\ warned' = {p \in Range(installed) : Hooks[p] # {} /\ p \notin ran}
    /\ warned' # {}
    /\ UNCHANGED <<startup, reaped, ending, ended, msg, ran, entries>>

Start == SetUpSurface \/ CompileSurfaces \/ CompileThrows \/ SetUpPlugin \/ InstallEnds \/ SessionStart

PluginsNext ==
    \/ Start \/ ReapPipeline \/ SessionEnd \/ Summary
    \/ \E m \in Messages : Enter(m) \/ Leave(m) \/ Through(m)

(* The event loop goes on with whatever can; a hook ends. *)
PluginsSpec ==
    /\ PluginsInit /\ [][PluginsNext]_pluginsVars
    /\ WF_pluginsVars(Start) /\ WF_pluginsVars(SessionEnd) /\ WF_pluginsVars(Summary)
    /\ \A m \in Messages : WF_pluginsVars(Enter(m) \/ Leave(m) \/ Through(m))
-----------------------------------------------------------------------------
(* No message passes a session that is not what its caller configured: by  *)
(* then every protocol plugin is installed but for optional ones, no two   *)
(* of them declare one method, and every surface is in the bundle or in    *)
(* the conflict report, with the header and the display of the first one.  *)
SessionIsWhole ==
    \A m \in Messages : msg[m].at # "new" =>
        /\ ~Clash
        /\ \A p \in Plugins :
            IF Kind[p] = "protocol" THEN p \in Range(installed) \cup {q \in Optional : Pinned[q] = "no"}
            ELSE p \in Range(resolved) \cup conflicts
        /\ \A s \in Range(resolved) \ conflicts :
            /\ Claims[s].part # None => s = merged.part
            /\ Claims[s].header # None => Claims[s].header = Claims[merged.header].header
        /\ \A s \in Range(resolved), what \in {"part", "header"} :
            Claims[s][what] # None => s = merged[what] \/ Before(merged[what], s)

(* Core is first: nothing that is not pinned first runs ahead of it, on    *)
(* any message, whatever its priority.                                     *)
CoreRunsFirst ==
    \A m \in Messages, c \in Range(installed) :
        /\ Pinned[c] = "first" /\ Listens(c, m) /\ msg[m].pos > 0
        => \E i \in 1 .. msg[m].pos : Pinned[installed[i]] = "first"

(* The four methods of the runtime cannot be taken over by a plugin: a     *)
(* client's command for one of them is answered by the runtime, if at all. *)
RuntimeMethodsKept ==
    \A m \in Messages :
        Way[m] = "onRequest" /\ Method[m] \in Runtime4 /\ msg[m].out # None => msg[m].by = "runtime"

(* When the summary says that no message hook of a plugin ever ran, none   *)
(* has returned; one still at work on a message counts as never run.       *)
Returned(p, m) ==
    \E i \in DOMAIN installed :
        /\ installed[i] = p /\ Listens(p, m)
        /\ i < msg[m].pos + (IF msg[m].hook = None THEN 1 ELSE 0)

IdleIsTrue ==
    [][\A p \in warned' \ warned, m \in Messages : ~Returned(p, m)]_pluginsVars

(* Every plugin whose session has started and is over is told, even one    *)
(* whose onSessionStart is still to come; but if the connection is reaped  *)
(* before there is a pipeline, nobody is, and the session starts after it. *)
StartedIsEnded ==
    \A p \in Plugins :
        (reaped # "no" /\ p \in started) ~> (p \in ended \/ reaped \in {"surfaces", "protocol"})
=============================================================================
