------------------------------ MODULE Transport ------------------------------
(***************************************************************************)
(* One ProxyConnection (src/src/proxy-connection.ts): a client socket      *)
(* paired with an upstream browser socket.  Client commands, the ctx.send  *)
(* commands of plugins and the runtime's own commands share one upstream   *)
(* id space (#nextId); three tables say who is waiting for which id, and   *)
(* the connection is reaped when either socket dies.                       *)
(*                                                                         *)
(* Abstracted.  A message is its id and the command it is about (its       *)
(* origin); methods, params and session ids are left out.  The tasks that  *)
(* #order puts in promise chains may run here in ANY order, so what holds  *)
(* here holds for every order the chains can produce (module Ordering      *)
(* models the chains).  A hook is an activity that may issue ctx.sends and *)
(* ends only when the ones it issued have settled.  The 30 s timer of a    *)
(* ctx.send may fire at any moment, which includes after the browser has   *)
(* written its reply and before the proxy has read it.                     *)
(***************************************************************************)
EXTENDS Naturals

CONSTANTS
    ClientIds,   \* ids the client gives its commands; it never reuses one
    Sends,       \* the ctx.send calls plugins, surfaces, broker and actors make
    Swallows     \* the commands the runtime sends without waiting for the reply

ASSUME ClientIdsAreNumbers == ClientIds \subseteq Nat

VARIABLES
    down,            \* the client socket: "open" or "closed"
    up,              \* the browser socket: "connecting", "open" or "closed"
    init,            \* how far #init has come; the pipeline exists from "starting"
    reap,            \* #reap: "no", "ending" while onSessionEnd runs, "done"
    nextId,          \* #nextId
    clientRequests,  \* #clientRequests: proxy id -> client id
    pluginRequests,  \* #pluginRequests: proxy id -> the ctx.send waiting for it
    swallow,         \* #swallow: the proxy ids whose reply nobody reads
    cmd,             \* where each client command has got to
    send,            \* where each ctx.send has got to
    issuer,          \* the activity that awaits each pending ctx.send
    spent,           \* the commands of Swallows already sent
    wire,            \* proxy id -> origin of the commands the browser holds
    queued,          \* proxy id -> origin of the replies waiting in a chain
    parked,          \* the same, past the #reaped test, awaiting #initDone
    hooks,           \* the reply frames that are inside pipeline.onResponse
    toClient         \* the reply frames written to the client so far

sockets == <<down, up>>
tables  == <<nextId, clientRequests, pluginRequests, swallow>>
replies == <<wire, queued, parked, hooks>>
work    == <<cmd, send, issuer, spent>>
vars    == <<sockets, init, reap, tables, work, replies, toClient>>
-----------------------------------------------------------------------------
(* Who a command is from, and what the client is shown of a reply.         *)
FromClient(c)  == [by |-> "client",  what |-> c]
FromPlugin(s)  == [by |-> "plugin",  what |-> s]
FromRuntime(k) == [by |-> "runtime", what |-> k]

Origin == [by : {"client"}, what : ClientIds]
              \cup [by : {"plugin"}, what : Sends]
              \cup [by : {"runtime"}, what : Swallows]

Frame == [id : Nat, of : Origin]

(* The code that may await a ctx.send: setup, onSessionStart, onSessionEnd,*)
(* the request and response hooks of one command, or code of a plugin that *)
(* nothing awaits (a timer, an actor's task).                              *)
Activity == [at : {"setup", "start", "end", "free"}, what : {0}]
                \cup [at : {"request", "response"}, what : ClientIds]

Once(at)        == [at |-> at, what |-> 0]
Handling(at, c) == [at |-> at, what |-> c]

Put(f, i, v) == [j \in DOMAIN f \cup {i} |-> IF j = i THEN v ELSE f[j]]
Drop(f, i)   == [j \in DOMAIN f \ {i} |-> f[j]]
Nothing      == [i \in {} |-> 0]

Blocked(a)   == \E s \in Sends : send[s] = "pending" /\ issuer[s] = a
HasPipeline  == init \in {"starting", "done"}
InitDone     == init \in {"unreachable", "refused", "done"}

(* A plugin's code can run from the moment its setup is called.            *)
Running(a) ==
    CASE a.at = "setup"    -> init = "installing"
      [] a.at = "start"    -> init = "starting"
      [] a.at = "end"      -> HasPipeline /\ reap = "ending"
      [] a.at = "request"  -> cmd[a.what] = "request"
      [] a.at = "response" -> \E f \in hooks : f.id = a.what
      [] a.at = "free"     -> init \notin {"connecting", "unreachable"}
-----------------------------------------------------------------------------
Init ==
    /\ down = "open" /\ up = "connecting"
    /\ init = "connecting" /\ reap = "no"
    /\ nextId = 1
    /\ clientRequests = Nothing /\ pluginRequests = Nothing /\ swallow = {}
    /\ cmd = [c \in ClientIds |-> "unsent"]
    /\ send = [s \in Sends |-> "idle"]
    /\ issuer = [s \in Sends |-> Once("free")]
    /\ spent = {}
    /\ wire = Nothing /\ queued = Nothing /\ parked = Nothing
    /\ hooks = {} /\ toClient = {}

(* #sendToBrowser: written only while the socket is open, else lost.       *)
ToBrowser(i, of) == wire' = IF up = "open" THEN Put(wire, i, of) ELSE wire

(* #sendToClient: the same on the other side.                              *)
ToClient(f) == toClient' = IF down = "open" THEN toClient \cup {f} ELSE toClient
-----------------------------------------------------------------------------
(* #reap.  Its synchronous part settles every waiting ctx.send with an     *)
(* error.  With no pipeline there is nothing to await, so it closes both   *)
(* sockets and reports onClose in the same turn; otherwise that follows    *)
(* onSessionEnd (ReapFinish).  A second call returns at once.              *)
(* `d' and `u' are the sockets as the cause of the reap leaves them.       *)
Waiting(s) == /\ send[s] = "pending"
              /\ \E i \in DOMAIN pluginRequests : pluginRequests[i] = s

CloseOpen(socket) == IF socket = "open" THEN "closed" ELSE socket

Reap(d, u) ==
    IF reap # "no"
    THEN /\ down' = d /\ up' = u
         /\ UNCHANGED <<reap, send, issuer, pluginRequests>>
    ELSE /\ send' = [s \in Sends |-> IF Waiting(s) THEN "settled" ELSE send[s]]
         /\ issuer' = [s \in Sends |-> IF Waiting(s) THEN Once("free") ELSE issuer[s]]
         /\ pluginRequests' = Nothing
         /\ IF HasPipeline
            THEN reap' = "ending" /\ down' = d /\ up' = u
            ELSE reap' = "done" /\ down' = CloseOpen(d) /\ up' = CloseOpen(u)

ReapFinish ==
    /\ reap = "ending" /\ ~Blocked(Once("end"))
    /\ reap' = "done"
    /\ down' = CloseOpen(down) /\ up' = CloseOpen(up)
    /\ UNCHANGED <<init, tables, work, replies, toClient>>

ReapLeaves == <<nextId, clientRequests, swallow, cmd, spent, replies, toClient>>

(* The client socket's onclose. *)
ClientClose ==
    /\ down = "open"
    /\ Reap("closed", up)
    /\ UNCHANGED <<init, ReapLeaves>>

(* The browser socket's onclose, once it had opened. *)
UpstreamClose ==
    /\ up = "open"
    /\ Reap(down, "closed")
    /\ UNCHANGED <<init, ReapLeaves>>

(* close(), which the shutdown manager calls. *)
Shutdown ==
    /\ reap = "no"
    /\ Reap(down, up)
    /\ UNCHANGED <<init, ReapLeaves>>
-----------------------------------------------------------------------------
(* #init: await #browserOpen, install the pipeline, run onSessionStart.    *)
(* Nothing tests #reaped between these steps.                              *)
UpstreamOpen ==
    /\ up = "connecting"
    /\ up' = "open" /\ init' = "installing"
    /\ UNCHANGED <<down, reap, tables, work, replies, toClient>>

UpstreamFail ==
    /\ up = "connecting"
    /\ init' = "unreachable"
    /\ Reap(down, "closed")
    /\ UNCHANGED ReapLeaves

(* Pipeline.install threw: a required plugin's setup failed, or two        *)
(* plugins declared one rpc method.                                        *)
InstallFail ==
    /\ init = "installing" /\ ~Blocked(Once("setup"))
    /\ init' = "refused"
    /\ Reap(down, up)
    /\ UNCHANGED ReapLeaves

InstallDone ==
    /\ init = "installing" /\ ~Blocked(Once("setup"))
    /\ init' = "starting"
    /\ UNCHANGED <<sockets, reap, tables, work, replies, toClient>>

StartDone ==
    /\ init = "starting" /\ ~Blocked(Once("start"))
    /\ init' = "done"
    /\ UNCHANGED <<sockets, reap, tables, work, replies, toClient>>
-----------------------------------------------------------------------------
(* The client writes a command with a numeric id (clientSocket.onmessage). *)
ClientSend(c) ==
    /\ down = "open" /\ cmd[c] = "unsent"
    /\ cmd' = [cmd EXCEPT ![c] = "queued"]
    /\ UNCHANGED <<sockets, init, reap, tables, send, issuer, spent, replies, toClient>>

(* #forwardClientMessage, up to the pipeline.                              *)
Admit(c) ==
    /\ cmd[c] = "queued" /\ InitDone
    /\ cmd' = [cmd EXCEPT ![c] = IF reap = "no" THEN "request" ELSE "lost"]
    /\ UNCHANGED <<sockets, init, reap, tables, send, issuer, spent, replies, toClient>>

(* The pipeline refused or answered the command, it is a Proxy.* method,   *)
(* or the broker answered it: the browser never sees it.                   *)
AnswerLocally(c) ==
    /\ cmd[c] = "request" /\ ~Blocked(Handling("request", c))
    /\ cmd' = [cmd EXCEPT ![c] = "answered"]
    /\ ToClient([id |-> c, of |-> FromClient(c)])
    /\ UNCHANGED <<sockets, init, reap, tables, send, issuer, spent, replies>>

(* Mutant: the id is rewritten but nobody records whose it was.            *)
ForwardUnrecorded(c) ==
    /\ cmd[c] = "request" /\ ~Blocked(Handling("request", c))
    /\ cmd' = [cmd EXCEPT ![c] = "forwarded"]
    /\ nextId' = nextId + 1
    /\ ToBrowser(nextId, FromClient(c))
    /\ UNCHANGED <<sockets, init, reap, clientRequests, pluginRequests, swallow,
                   send, issuer, spent, queued, parked, hooks, toClient>>

Forward(c) ==
    /\ cmd[c] = "request" /\ ~Blocked(Handling("request", c))
    /\ cmd' = [cmd EXCEPT ![c] = "forwarded"]
    /\ nextId' = nextId + 1
    /\ clientRequests' = Put(clientRequests, nextId, c)
    /\ ToBrowser(nextId, FromClient(c))
    /\ UNCHANGED <<sockets, init, reap, pluginRequests, swallow, send, issuer,
                   spent, queued, parked, hooks, toClient>>

(* An entry leaves #pluginRequests.  Its promise takes the outcome, unless  *)
(* it was rejected already.                                                *)
Take(i, outcome) ==
    LET s == pluginRequests[i]
    IN  /\ pluginRequests' = Drop(pluginRequests, i)
        /\ send' = [send EXCEPT ![s] = IF @ = "pending" THEN outcome ELSE @]
        /\ issuer' = [issuer EXCEPT ![s] = Once("free")]

(* #sender.  The id and the table entry exist before the socket is written *)
(* to; writing to a socket that is not open throws, which rejects the      *)
(* promise and leaves the entry and its timer behind.                      *)
PluginSend(s, a) ==
    /\ send[s] = "idle" /\ Running(a)
    /\ nextId' = nextId + 1
    /\ pluginRequests' = Put(pluginRequests, nextId, s)
    /\ send' = [send EXCEPT ![s] = IF up = "open" THEN "pending" ELSE "settled"]
    /\ issuer' = [issuer EXCEPT ![s] = IF up = "open" THEN a ELSE Once("free")]
    /\ ToBrowser(nextId, FromPlugin(s))
    /\ UNCHANGED <<sockets, init, reap, clientRequests, swallow, cmd,
                   spent, queued, parked, hooks, toClient>>

(* Mutant: the entry goes, the promise is never rejected.                  *)
TimeoutSilently(i) ==
    /\ i \in DOMAIN pluginRequests
    /\ pluginRequests' = Drop(pluginRequests, i)
    /\ UNCHANGED <<sockets, init, reap, nextId, clientRequests, swallow, work,
                   replies, toClient>>

(* The timer of a ctx.send.                                                *)
Timeout(i) ==
    /\ i \in DOMAIN pluginRequests
    /\ Take(i, "timedout")
    /\ UNCHANGED <<sockets, init, reap, nextId, clientRequests, swallow, cmd,
                   spent, replies, toClient>>

(* #isForeign giving up another connection's target, and the evaluate of   *)
(* #deliverSurfaces: sent from a browser task, so only with a pipeline.    *)
RuntimeSend(k) ==
    /\ HasPipeline /\ k \notin spent
    /\ spent' = spent \cup {k}
    /\ nextId' = nextId + 1
    /\ swallow' = swallow \cup {nextId}
    /\ ToBrowser(nextId, FromRuntime(k))
    /\ UNCHANGED <<sockets, init, reap, clientRequests, pluginRequests, cmd, send,
                   issuer, queued, parked, hooks, toClient>>
-----------------------------------------------------------------------------
(* browserSocket.onmessage with a numeric id: the ctx.send waiting for it  *)
(* is settled at once, a swallowed reply is read on its way to the bin,    *)
(* and anything else is queued.                                            *)
Settle(i) ==
    /\ Take(i, "settled")
    /\ UNCHANGED <<swallow, queued>>

Swallow(i) ==
    /\ swallow' = swallow \ {i}
    /\ UNCHANGED <<pluginRequests, send, issuer, queued>>

Enqueue(i) ==
    /\ queued' = Put(queued, i, wire[i])
    /\ UNCHANGED <<pluginRequests, send, issuer, swallow>>

(* Mutant: the reply to a ctx.send waits its turn in the chain.            *)
BrowserReplyInOrder(i) ==
    /\ up = "open" /\ i \in DOMAIN wire
    /\ wire' = Drop(wire, i)
    /\ IF i \in swallow THEN Swallow(i) ELSE Enqueue(i)
    /\ UNCHANGED <<sockets, init, reap, nextId, clientRequests, cmd, spent,
                   parked, hooks, toClient>>

BrowserReply(i) ==
    /\ up = "open" /\ i \in DOMAIN wire
    /\ wire' = Drop(wire, i)
    /\ CASE i \in DOMAIN pluginRequests -> Settle(i)
         [] i \notin DOMAIN pluginRequests /\ i \in swallow -> Swallow(i)
         [] OTHER -> Enqueue(i)
    /\ UNCHANGED <<sockets, init, reap, nextId, clientRequests, cmd, spent,
                   parked, hooks, toClient>>

(* #forwardBrowserMessage of a reply.  An id the connection is not waiting *)
(* for goes to the client as it is; otherwise the client's own id is put   *)
(* back and the reply enters pipeline.onResponse.                          *)
(* Mutant: the client's id is not put back.                                *)
RouteKeepsId(i, of) ==
    IF i \in DOMAIN clientRequests
    THEN /\ hooks' = hooks \cup {[id |-> i, of |-> of]}
         /\ clientRequests' = Drop(clientRequests, i)
         /\ UNCHANGED toClient
    ELSE ToClient([id |-> i, of |-> of]) /\ UNCHANGED <<hooks, clientRequests>>

Route(i, of) ==
    IF i \in DOMAIN clientRequests
    THEN /\ hooks' = hooks \cup {[id |-> clientRequests[i], of |-> of]}
         /\ clientRequests' = Drop(clientRequests, i)
         /\ UNCHANGED toClient
    ELSE /\ ToClient([id |-> i, of |-> of])
         /\ UNCHANGED <<hooks, clientRequests>>

TaskLeaves == <<sockets, init, reap, nextId, pluginRequests, swallow, work, wire>>

(* Mutant: a queued task does not look at #reaped.                         *)
RunTaskAfterReap(i) ==
    /\ i \in DOMAIN queued /\ HasPipeline
    /\ queued' = Drop(queued, i)
    /\ Route(i, queued[i])
    /\ UNCHANGED <<TaskLeaves, parked>>

RunTask(i) ==
    /\ i \in DOMAIN queued
    /\ queued' = Drop(queued, i)
    /\ \/ /\ reap # "no"
          /\ UNCHANGED <<clientRequests, parked, hooks, toClient>>
       \/ /\ reap = "no" /\ ~HasPipeline
          /\ parked' = Put(parked, i, queued[i])
          /\ UNCHANGED <<clientRequests, hooks, toClient>>
       \/ /\ reap = "no" /\ HasPipeline
          /\ Route(i, queued[i])
          /\ UNCHANGED parked
    /\ UNCHANGED TaskLeaves

(* The same task once #initDone has resolved.  No command was forwarded     *)
(* before then, so a reply that had to wait is no client's: it goes out    *)
(* untouched whether or not there is a pipeline by now.                    *)
Resume(i) ==
    /\ i \in DOMAIN parked /\ InitDone
    /\ parked' = Drop(parked, i)
    /\ Route(i, parked[i])
    /\ UNCHANGED <<TaskLeaves, queued>>

(* pipeline.onResponse is over: the reply goes out, or a plugin dropped it.*)
Respond(f) ==
    /\ f \in hooks /\ ~Blocked(Handling("response", f.id))
    /\ hooks' = hooks \ {f}
    /\ \/ /\ cmd' = [cmd EXCEPT ![f.id] = "answered"]
          /\ ToClient(f)
       \/ /\ cmd' = [cmd EXCEPT ![f.id] = "dropped"]
          /\ UNCHANGED toClient
    /\ UNCHANGED <<sockets, init, reap, tables, send, issuer, spent, wire,
                   queued, parked>>
-----------------------------------------------------------------------------
Connection == \/ UpstreamOpen \/ UpstreamFail \/ InstallFail \/ InstallDone
              \/ StartDone \/ ReapFinish
Disconnect == ClientClose \/ UpstreamClose \/ Shutdown
Command    == \E c \in ClientIds :
                 ClientSend(c) \/ Admit(c) \/ AnswerLocally(c) \/ Forward(c)
Plugin     == \E s \in Sends, a \in Activity : PluginSend(s, a)
Timer      == \E i \in DOMAIN pluginRequests : Timeout(i)
Runtime    == \E k \in Swallows : RuntimeSend(k)
Browser    == \E i \in DOMAIN wire : BrowserReply(i)
Task       == \/ \E i \in DOMAIN queued : RunTask(i)
              \/ \E i \in DOMAIN parked : Resume(i)
              \/ \E f \in hooks : Respond(f)

Next == \/ Connection \/ Disconnect \/ Command \/ Plugin \/ Timer \/ Runtime
        \/ Browser \/ Task

(* The proxy's own work is fair: promises that can run do run, and a hook  *)
(* whose ctx.sends have settled returns.  The two clocks outside it are    *)
(* kept apart, so that each property names the one it relies on.           *)
ProxyRuns ==
    /\ WF_vars(UpstreamOpen \/ UpstreamFail)
    /\ WF_vars(InstallDone \/ InstallFail)
    /\ WF_vars(StartDone)
    /\ WF_vars(ReapFinish)
    /\ WF_vars(Task)
    /\ \A c \in ClientIds : WF_vars(Admit(c)) /\ WF_vars(AnswerLocally(c) \/ Forward(c))
BrowserAnswers == WF_vars(Browser)
TimersFire     == WF_vars(Timer)

Spec     == Init /\ [][Next]_vars
FairSpec == Spec /\ ProxyRuns
-----------------------------------------------------------------------------
(* A partial map from proxy ids to S. *)
IdMap(m, S) == DOMAIN m \subseteq 1..nextId /\ \A i \in DOMAIN m : m[i] \in S

(* The variables have the types of the fields they stand for.              *)
TypeOK ==
    /\ down \in {"open", "closed"}
    /\ up \in {"connecting", "open", "closed"}
    /\ init \in {"connecting", "unreachable", "installing", "refused",
                 "starting", "done"}
    /\ reap \in {"no", "ending", "done"}
    /\ nextId \in Nat \ {0}
    /\ IdMap(clientRequests, ClientIds) /\ IdMap(pluginRequests, Sends)
    /\ swallow \subseteq 1..nextId
    /\ cmd \in [ClientIds -> {"unsent", "queued", "request", "forwarded",
                              "answered", "dropped", "lost"}]
    /\ send \in [Sends -> {"idle", "pending", "settled", "timedout"}]
    /\ issuer \in [Sends -> Activity]
    /\ spent \subseteq Swallows
    /\ IdMap(wire, Origin) /\ IdMap(queued, Origin) /\ IdMap(parked, Origin)
    /\ hooks \subseteq Frame
    /\ toClient \subseteq Frame

(* A reply to a client's command reaches the client under the id the client *)
(* gave that command, whatever else is in flight (README, "Id remapping").  *)
RepliesGoHome ==
    \A f \in toClient : f.of.by = "client" => f.id = f.of.what

(* The only proxy traffic the client is ever shown is the reply to a       *)
(* ctx.send whose timer fired first; never a swallowed reply, and never a  *)
(* reply that the reap overtook.                                           *)
OnlyLateRepliesLeak ==
    \A f \in toClient : /\ f.of.by # "runtime"
                        /\ f.of.by = "plugin" => send[f.of.what] = "timedout"

(* A ctx.send that has not settled is still in the table, so a reply, its  *)
(* timer or the reap will settle it: no plugin waits on an orphaned promise.*)
PendingIsTracked ==
    \A s \in Sends : send[s] = "pending" =>
        \E i \in DOMAIN pluginRequests : pluginRequests[i] = s

(* A forwarded command is waiting under exactly one id or is in onResponse, *)
(* never both and never neither: no reply is lost inside the proxy and none *)
(* is given twice.                                                         *)
ForwardedOnce ==
    \A c \in ClientIds : cmd[c] = "forwarded" <=>
        \/ /\ \E i \in DOMAIN clientRequests : clientRequests[i] = c
           /\ \A i, j \in DOMAIN clientRequests :
                  clientRequests[i] = c /\ clientRequests[j] = c => i = j
           /\ \A f \in hooks : f.id # c
        \/ /\ \A i \in DOMAIN clientRequests : clientRequests[i] # c
           /\ \E f \in hooks : f.id = c

(* A reply in flight is waited for by the party that sent the command, or  *)
(* by nobody.                                                              *)
ExpectedBySender(m) ==
    \A i \in DOMAIN m :
        /\ i \in DOMAIN clientRequests => m[i] = FromClient(clientRequests[i])
        /\ i \in DOMAIN pluginRequests => m[i] = FromPlugin(pluginRequests[i])
        /\ i \in swallow => m[i].by = "runtime"

(* No id is waited for by two parties, the next id is free, and no reply   *)
(* can settle somebody else's command.                                     *)
OneWaiter ==
    /\ DOMAIN clientRequests \cap DOMAIN pluginRequests = {}
    /\ DOMAIN clientRequests \cap swallow = {}
    /\ DOMAIN pluginRequests \cap swallow = {}
    /\ nextId \notin DOMAIN clientRequests \cup DOMAIN pluginRequests \cup swallow
    /\ ExpectedBySender(wire) /\ ExpectedBySender(queued)
    /\ ExpectedBySender(parked)

(* #reap leaves neither socket open when it finishes.                      *)
ReapClosesBoth ==
    [][reap # "done" /\ reap' = "done" => down' = "closed" /\ up' # "open"]_vars

(* Startup never waits on itself: setup and onSessionStart may await their  *)
(* own ctx.sends and the session still comes up or fails, by the browser's  *)
(* replies alone, without a timer ("that could deadlock startup").  Only a  *)
(* connection reaped on the way may have to wait for the timers.           *)
StartupEnds == BrowserAnswers => <>(InitDone \/ reap # "no")

(* Every command the client writes is answered, or refused a reply by a    *)
(* plugin, unless the connection goes down: by the browser's replies alone.*)
CommandsAnswered ==
    BrowserAnswers =>
        \A c \in ClientIds :
            cmd[c] = "queued" ~> cmd[c] \in {"answered", "dropped"} \/ reap # "no"

(* With a browser that never answers, the timer still settles every        *)
(* ctx.send, and so a reap that waits for onSessionEnd ends.               *)
SendsSettle ==
    TimersFire =>
        /\ \A s \in Sends : send[s] = "pending" ~> send[s] # "pending"
        /\ reap = "ending" ~> reap = "done"

(* README, "Id remapping": plugin traffic is never visible to the client.  *)
PluginTrafficInvisible == \A f \in toClient : f.of.by = "client"

(* proxy-connection.ts:7: the session is reaped when either socket dies.   *)
(* A connection that has been reaped holds no open upstream socket.        *)
ReapedHoldsNoSocket == reap = "done" => up # "open"
=============================================================================
