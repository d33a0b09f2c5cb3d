---------------------------- MODULE ConnectionProofs ----------------------------
(***************************************************************************)
(* Theorems about one connection: its Transport for every set of client    *)
(* ids, sends and swallowed commands, and its Plugins for every list of    *)
(* plugins, with whatever pins, priorities, hooks, claims and declarations *)
(* they have.  The two parts share nothing but this module.                *)
(***************************************************************************)
EXTENDS Transport, Plugins, SequenceTheorems, FiniteSetTheorems, FunctionTheorems,
        WellFoundedInduction, TLAPS

(* The inductive invariant.  Every id in use was taken from #nextId.       *)
Fresh ==
    \A i \in DOMAIN clientRequests \cup DOMAIN pluginRequests \cup swallow
             \cup DOMAIN wire \cup DOMAIN queued \cup DOMAIN parked : i < nextId

Disjoint ==
    /\ DOMAIN clientRequests \cap DOMAIN pluginRequests = {}
    /\ DOMAIN clientRequests \cap swallow = {}
    /\ DOMAIN pluginRequests \cap swallow = {}
    /\ DOMAIN wire \cap DOMAIN queued = {}
    /\ DOMAIN wire \cap DOMAIN parked = {}
    /\ DOMAIN queued \cap DOMAIN parked = {}

(* A client command waits under one id, or its reply is in onResponse.     *)
ClientWaits ==
    /\ \A i \in DOMAIN clientRequests : cmd[clientRequests[i]] = "forwarded"
    /\ \A i, j \in DOMAIN clientRequests :
           clientRequests[i] = clientRequests[j] => i = j
    /\ \A f \in hooks : /\ f.id \in ClientIds /\ f.of = FromClient(f.id)
                        /\ cmd[f.id] = "forwarded"
                        /\ \A i \in DOMAIN clientRequests : clientRequests[i] # f.id
    /\ \A c \in ClientIds : cmd[c] = "forwarded" =>
           \/ \E i \in DOMAIN clientRequests : clientRequests[i] = c
           \/ \E f \in hooks : f.id = c

PluginWaits ==
    /\ \A i \in DOMAIN pluginRequests : send[pluginRequests[i]] # "idle"
    /\ \A i, j \in DOMAIN pluginRequests :
           pluginRequests[i] = pluginRequests[j] => i = j
    /\ PendingIsTracked

(* What a reply on its way to the proxy is the reply to.                   *)
Awaited(i, of) ==
    \/ /\ of.by = "client"
       /\ i \in DOMAIN clientRequests /\ clientRequests[i] = of.what
    \/ /\ of.by = "plugin"
       /\ i \notin DOMAIN clientRequests /\ i \notin swallow
       /\ \/ /\ i \in DOMAIN pluginRequests /\ pluginRequests[i] = of.what
             /\ send[of.what] = "pending"
          \/ i \notin DOMAIN pluginRequests /\ send[of.what] = "timedout"
          \/ i \notin DOMAIN pluginRequests /\ reap # "no"
    \/ of.by = "runtime" /\ i \in swallow

(* What a reply that reached a chain is the reply to.                      *)
Chained(i, of) ==
    \/ /\ of.by = "client"
       /\ i \in DOMAIN clientRequests /\ clientRequests[i] = of.what
    \/ /\ of.by = "plugin"
       /\ i \notin DOMAIN clientRequests \cup DOMAIN pluginRequests \cup swallow
       /\ send[of.what] = "timedout" \/ reap # "no"

Late(i, of) ==
    /\ i \notin DOMAIN clientRequests \cup DOMAIN pluginRequests \cup swallow
    /\ of.by = "plugin" /\ send[of.what] = "timedout"

InFlight ==
    /\ \A i \in DOMAIN wire : Awaited(i, wire[i])
    /\ \A i \in DOMAIN queued : Chained(i, queued[i])
    /\ \A i \in DOMAIN parked : Late(i, parked[i]) \/
           (parked[i].by = "client" /\ i \in DOMAIN clientRequests
                /\ clientRequests[i] = parked[i].what)

Shown == RepliesGoHome /\ OnlyLateRepliesLeak

IInv == TypeOK /\ Fresh /\ Disjoint /\ ClientWaits /\ PluginWaits /\ InFlight /\ Shown
-----------------------------------------------------------------------------
(* Taking the next id and registering it keeps a map typed.                *)
LEMMA PutTyped ==
    ASSUME NEW S, NEW m, NEW n \in Nat \ {0}, NEW v \in S,
           DOMAIN m \subseteq 1..n, \A i \in DOMAIN m : m[i] \in S
    PROVE  /\ DOMAIN Put(m, n, v) \subseteq 1..(n + 1)
           /\ \A i \in DOMAIN Put(m, n, v) : Put(m, n, v)[i] \in S
BY DEF Put

LEMMA Origins ==
    /\ \A c \in ClientIds : FromClient(c) \in Origin
    /\ \A s \in Sends : FromPlugin(s) \in Origin
    /\ \A k \in Swallows : FromRuntime(k) \in Origin
BY DEF FromClient, FromPlugin, FromRuntime, Origin

LEMMA InitIInv == Init => IInv
BY ClientIdsAreNumbers DEF Init, IInv, TypeOK, IdMap, Nothing, Origin, Frame, Activity, Once,
   Fresh, Disjoint, ClientWaits, PluginWaits, PendingIsTracked, InFlight, Shown, RepliesGoHome,
   OnlyLateRepliesLeak
-----------------------------------------------------------------------------
(* The steps of the connection and of its sockets.  Only #reap touches     *)
(* more than its own stage: it rejects what #pluginRequests holds.         *)
LEMMA ReapKeeps ==
    ASSUME IInv, NEW d \in {"open", "closed"}, NEW u \in {"open", "closed", "connecting"},
           u # "connecting" \/ up = "connecting", Reap(d, u),
           init' \in {"connecting", "unreachable", "installing", "refused", "starting",
                     "done"},
           UNCHANGED ReapLeaves
    PROVE  IInv'
<1> USE DEF Reap, Waiting, CloseOpen, ReapLeaves, work, replies, Nothing, Once,
   Activity, IInv, TypeOK, IdMap, Origin, Frame, Activity, FromClient, FromPlugin, FromRuntime, Fresh, Disjoint, ClientWaits, PluginWaits, PendingIsTracked,
   InFlight, Awaited, Chained, Late, Shown, RepliesGoHome, OnlyLateRepliesLeak
<1>1. CASE reap # "no"
  BY <1>1, SMTT(60)
<1>2. CASE reap = "no"
  <2>1. /\ pluginRequests' = Nothing /\ reap' # "no"
        /\ \A s \in Sends : send'[s] = "timedout" <=> send[s] = "timedout"
        /\ \A s \in Sends : send'[s] # "pending"
    BY <1>2, SMTT(60)
  <2>2. TypeOK'
    BY <1>2, SMTT(60)
  <2>3. Fresh' /\ Disjoint' /\ ClientWaits' /\ PluginWaits'
    BY <1>2, <2>1, SMTT(60)
  <2>4. InFlight'
    BY <1>2, <2>1, SMTT(60)
  <2>5. Shown'
    BY <1>2, <2>1, SMTT(60)
  <2>6. QED
    BY <2>2, <2>3, <2>4, <2>5 DEF IInv
<1>3. QED
  BY <1>1, <1>2

LEMMA ClientCloseKeeps == ASSUME IInv, ClientClose PROVE IInv'
BY ReapKeeps DEF ClientClose, IInv, TypeOK, ReapLeaves

LEMMA UpstreamCloseKeeps == ASSUME IInv, UpstreamClose PROVE IInv'
BY ReapKeeps DEF UpstreamClose, IInv, TypeOK, ReapLeaves

LEMMA ShutdownKeeps == ASSUME IInv, Shutdown PROVE IInv'
BY ReapKeeps DEF Shutdown, IInv, TypeOK, ReapLeaves

LEMMA UpstreamFailKeeps == ASSUME IInv, UpstreamFail PROVE IInv'
BY ReapKeeps DEF UpstreamFail, IInv, TypeOK, ReapLeaves

LEMMA InstallFailKeeps == ASSUME IInv, InstallFail PROVE IInv'
BY ReapKeeps DEF InstallFail, IInv, TypeOK, ReapLeaves

LEMMA ReapFinishKeeps == ASSUME IInv, ReapFinish PROVE IInv'
BY SMTT(60) DEF ReapFinish, CloseOpen, sockets, tables, work, replies,
   IInv, TypeOK, IdMap, Origin, Frame, Activity, FromClient, FromPlugin, FromRuntime, Fresh, Disjoint, ClientWaits, PluginWaits, PendingIsTracked,
   InFlight, Awaited, Chained, Late, Shown, RepliesGoHome, OnlyLateRepliesLeak

LEMMA UpstreamOpenKeeps == ASSUME IInv, UpstreamOpen PROVE IInv'
BY SMTT(60) DEF UpstreamOpen, sockets, tables, work, replies,
   IInv, TypeOK, IdMap, Origin, Frame, Activity, FromClient, FromPlugin, FromRuntime, Fresh, Disjoint, ClientWaits, PluginWaits, PendingIsTracked,
   InFlight, Awaited, Chained, Late, Shown, RepliesGoHome, OnlyLateRepliesLeak

LEMMA InstallDoneKeeps == ASSUME IInv, InstallDone PROVE IInv'
BY SMTT(60) DEF InstallDone, sockets, tables, work, replies,
   IInv, TypeOK, IdMap, Origin, Frame, Activity, FromClient, FromPlugin, FromRuntime, Fresh, Disjoint, ClientWaits, PluginWaits, PendingIsTracked,
   InFlight, Awaited, Chained, Late, Shown, RepliesGoHome, OnlyLateRepliesLeak

LEMMA StartDoneKeeps == ASSUME IInv, StartDone PROVE IInv'
BY SMTT(60) DEF StartDone, sockets, tables, work, replies,
   IInv, TypeOK, IdMap, Origin, Frame, Activity, FromClient, FromPlugin, FromRuntime, Fresh, Disjoint, ClientWaits, PluginWaits, PendingIsTracked,
   InFlight, Awaited, Chained, Late, Shown, RepliesGoHome, OnlyLateRepliesLeak
-----------------------------------------------------------------------------
(* The steps of a client command.                                          *)

LEMMA ClientSendKeeps ==
    ASSUME IInv, NEW c \in ClientIds, ClientSend(c)
    PROVE  IInv'
BY SMTT(60) DEF ClientSend, sockets, tables, replies,
   IInv, TypeOK, IdMap, Origin, Frame, Activity, FromClient, FromPlugin, FromRuntime, Fresh, Disjoint, ClientWaits, PluginWaits, PendingIsTracked,
   InFlight, Awaited, Chained, Late, Shown, RepliesGoHome, OnlyLateRepliesLeak

LEMMA AdmitKeeps ==
    ASSUME IInv, NEW c \in ClientIds, Admit(c)
    PROVE  IInv'
BY SMTT(60) DEF Admit, sockets, tables, replies,
   IInv, TypeOK, IdMap, Origin, Frame, Activity, FromClient, FromPlugin, FromRuntime, Fresh, Disjoint, ClientWaits, PluginWaits, PendingIsTracked,
   InFlight, Awaited, Chained, Late, Shown, RepliesGoHome, OnlyLateRepliesLeak

LEMMA AnswerLocallyKeeps ==
    ASSUME IInv, NEW c \in ClientIds, AnswerLocally(c)
    PROVE  IInv'
BY ClientIdsAreNumbers, Origins, SMTT(60) DEF AnswerLocally, ToClient, FromClient, Frame, sockets, tables,
   replies,
   IInv, TypeOK, IdMap, Origin, Frame, Activity, FromClient, FromPlugin, FromRuntime, Fresh, Disjoint, ClientWaits, PluginWaits, PendingIsTracked,
   InFlight, Awaited, Chained, Late, Shown, RepliesGoHome, OnlyLateRepliesLeak

LEMMA ForwardKeeps ==
    ASSUME IInv, NEW c \in ClientIds, Forward(c)
    PROVE  IInv'
<1> USE DEF Forward, ToBrowser, sockets
<1>1. TypeOK'
  <2> USE DEF IInv, TypeOK, IdMap
  <2>1. nextId' \in Nat \ {0} /\ 1..nextId \subseteq 1..nextId'
    OBVIOUS
  <2>2. up = "open" => IdMap(wire, Origin)'
    <3> HAVE up = "open"
    <3>1. wire' = Put(wire, nextId, FromClient(c)) /\ nextId' = nextId + 1
      OBVIOUS
    <3>2. FromClient(c) \in Origin
      BY Origins
    <3>3. DOMAIN wire' \subseteq 1..nextId' /\ \A i \in DOMAIN wire' : wire'[i] \in Origin
      BY <3>1, <3>2, PutTyped
    <3>4. QED
      BY <3>3
  <2>3. IdMap(wire, Origin)'
    BY <2>1, <2>2, SMTT(60)
  <2>4. IdMap(clientRequests, ClientIds)'
    <3>1. clientRequests' = Put(clientRequests, nextId, c) /\ nextId' = nextId + 1
      OBVIOUS
    <3>2. QED
      BY <3>1, PutTyped, SMTT(60)
  <2>5. IdMap(pluginRequests, Sends)'
    BY <2>1, SMTT(60)
  <2>6. QED
    BY <2>1, <2>2, <2>3, <2>4, <2>5, SMTT(60)
<1>2. Fresh'
  BY SMTT(60) DEF Put, Drop, IInv, TypeOK, IdMap, Fresh
<1>3. Disjoint'
  BY SMTT(60) DEF Put, Drop, IInv, TypeOK, IdMap, Fresh, Disjoint
<1>4. ClientWaits'
  BY SMTT(60) DEF Put, Drop, IInv, TypeOK, IdMap, Fresh, ClientWaits
<1>5. PluginWaits'
  BY SMTT(60) DEF Put, Drop, IInv, TypeOK, IdMap, Fresh, PluginWaits, PendingIsTracked
<1>6. InFlight'
  <2> USE DEF Put, Drop, Origin, IInv, TypeOK, IdMap, Fresh, Disjoint, PluginWaits, InFlight,
          Awaited, Chained, Late, FromClient, FromPlugin, FromRuntime
  <2>1. \A j \in DOMAIN wire' : Awaited(j, wire[j])'
    BY SMTT(60)
  <2>2. \A j \in DOMAIN queued' : Chained(j, queued[j])'
    BY SMTT(60)
  <2>3. QED
    BY <2>1, <2>2, SMTT(60)
<1>7. Shown'
  BY SMTT(60) DEF IInv, TypeOK, Shown, RepliesGoHome, OnlyLateRepliesLeak
<1>8. QED
  BY <1>1, <1>2, <1>3, <1>4, <1>5, <1>6, <1>7 DEF IInv
-----------------------------------------------------------------------------
(* The steps of a ctx.send and of the runtime's own commands.              *)
LEMMA PluginSendKeeps ==
    ASSUME IInv, NEW s \in Sends, NEW a \in Activity, PluginSend(s, a)
    PROVE  IInv'
<1> USE DEF PluginSend, ToBrowser, Once, Activity, sockets
<1>1. TypeOK'
  <2> USE DEF IInv, TypeOK, IdMap
  <2>1. nextId' \in Nat \ {0} /\ 1..nextId \subseteq 1..nextId'
    OBVIOUS
  <2>2. up = "open" => IdMap(wire, Origin)'
    <3> HAVE up = "open"
    <3>1. wire' = Put(wire, nextId, FromPlugin(s)) /\ nextId' = nextId + 1
      OBVIOUS
    <3>2. FromPlugin(s) \in Origin
      BY Origins
    <3>3. DOMAIN wire' \subseteq 1..nextId' /\ \A i \in DOMAIN wire' : wire'[i] \in Origin
      BY <3>1, <3>2, PutTyped
    <3>4. QED
      BY <3>3
  <2>3. IdMap(wire, Origin)'
    BY <2>1, <2>2, SMTT(60)
  <2>4. IdMap(pluginRequests, Sends)'
    <3>1. pluginRequests' = Put(pluginRequests, nextId, s) /\ nextId' = nextId + 1
      OBVIOUS
    <3>2. QED
      BY <3>1, PutTyped, SMTT(60)
  <2>5. IdMap(clientRequests, ClientIds)'
    BY <2>1, SMTT(60)
  <2>6. QED
    BY <2>1, <2>2, <2>3, <2>4, <2>5, SMTT(60)
<1>2. Fresh'
  BY SMTT(60) DEF Put, Drop, IInv, TypeOK, IdMap, Fresh
<1>3. Disjoint'
  BY SMTT(60) DEF Put, Drop, IInv, TypeOK, IdMap, Fresh, Disjoint
<1>4. ClientWaits'
  BY SMTT(60) DEF Put, Drop, IInv, TypeOK, IdMap, Fresh, ClientWaits
<1>5. PluginWaits'
  BY SMTT(60) DEF Put, Drop, IInv, TypeOK, IdMap, Fresh, PluginWaits, PendingIsTracked
<1>6. InFlight'
  <2> USE DEF Put, Drop, Origin, IInv, TypeOK, IdMap, Fresh, Disjoint, PluginWaits, InFlight,
          Awaited, Chained, Late, FromClient, FromPlugin, FromRuntime
  <2>1. \A j \in DOMAIN wire' : Awaited(j, wire[j])'
    BY SMTT(60)
  <2>2. \A j \in DOMAIN queued' : Chained(j, queued[j])'
    BY SMTT(60)
  <2>3. QED
    BY <2>1, <2>2, SMTT(60)
<1>7. Shown'
  BY SMTT(60) DEF IInv, TypeOK, Shown, RepliesGoHome, OnlyLateRepliesLeak
<1>8. QED
  BY <1>1, <1>2, <1>3, <1>4, <1>5, <1>6, <1>7 DEF IInv

LEMMA RuntimeSendKeeps ==
    ASSUME IInv, NEW k \in Swallows, RuntimeSend(k)
    PROVE  IInv'
<1> USE DEF RuntimeSend, ToBrowser, sockets
<1>1. TypeOK'
  <2> USE DEF IInv, TypeOK, IdMap
  <2>1. nextId' \in Nat \ {0} /\ 1..nextId \subseteq 1..nextId'
    OBVIOUS
  <2>2. up = "open" => IdMap(wire, Origin)'
    <3> HAVE up = "open"
    <3>1. wire' = Put(wire, nextId, FromRuntime(k)) /\ nextId' = nextId + 1
      OBVIOUS
    <3>2. FromRuntime(k) \in Origin
      BY Origins
    <3>3. DOMAIN wire' \subseteq 1..nextId' /\ \A i \in DOMAIN wire' : wire'[i] \in Origin
      BY <3>1, <3>2, PutTyped
    <3>4. QED
      BY <3>3
  <2>3. IdMap(wire, Origin)'
    BY <2>1, <2>2, SMTT(60)
  <2>4. IdMap(clientRequests, ClientIds)' /\ IdMap(pluginRequests, Sends)'
    BY <2>1, SMTT(60)
  <2>5. IdMap(queued, Origin)' /\ IdMap(parked, Origin)'
    BY <2>1, SMTT(60)
  <2>6. swallow' \subseteq 1..nextId' /\ spent' \subseteq Swallows
    BY <2>1, SMTT(60)
  <2>7. QED
    BY <2>1, <2>3, <2>4, <2>5, <2>6, SMTT(60)
<1>2. Fresh'
  BY SMTT(60) DEF Put, Drop, IInv, TypeOK, IdMap, Fresh
<1>3. Disjoint'
  BY SMTT(60) DEF Put, Drop, IInv, TypeOK, IdMap, Fresh, Disjoint
<1>4. ClientWaits'
  BY SMTT(60) DEF Put, Drop, IInv, TypeOK, IdMap, Fresh, ClientWaits
<1>5. PluginWaits'
  BY SMTT(60) DEF Put, Drop, IInv, TypeOK, IdMap, Fresh, PluginWaits, PendingIsTracked
<1>6. InFlight'
  <2> USE DEF Put, Drop, Origin, IInv, TypeOK, IdMap, Fresh, Disjoint, PluginWaits, InFlight,
          Awaited, Chained, Late, FromClient, FromPlugin, FromRuntime
  <2>1. \A j \in DOMAIN wire' : Awaited(j, wire[j])'
    BY SMTT(60)
  <2>2. \A j \in DOMAIN queued' : Chained(j, queued[j])'
    BY SMTT(60)
  <2>3. QED
    BY <2>1, <2>2, SMTT(60)
<1>7. Shown'
  BY SMTT(60) DEF IInv, TypeOK, Shown, RepliesGoHome, OnlyLateRepliesLeak
<1>8. QED
  BY <1>1, <1>2, <1>3, <1>4, <1>5, <1>6, <1>7 DEF IInv

LEMMA TimeoutKeeps ==
    ASSUME IInv, NEW i \in DOMAIN pluginRequests, Timeout(i)
    PROVE  IInv'
BY SMTT(60) DEF Timeout, Take, Drop, Once, Activity, sockets, replies,
   IInv, TypeOK, IdMap, Origin, Frame, Activity, FromClient, FromPlugin, FromRuntime, Fresh, Disjoint, ClientWaits, PluginWaits, PendingIsTracked,
   InFlight, Awaited, Chained, Late, Shown, RepliesGoHome, OnlyLateRepliesLeak
-----------------------------------------------------------------------------
(* The steps of a message from the browser.                                *)
LEMMA BrowserReplyKeeps ==
    ASSUME IInv, NEW i \in DOMAIN wire, BrowserReply(i)
    PROVE  IInv'
BY SMTT(60) DEF BrowserReply, Settle, Swallow, Enqueue, Take, Put, Drop, Once,
   Activity, sockets,
   IInv, TypeOK, IdMap, Origin, Frame, Activity, FromClient, FromPlugin, FromRuntime, Fresh, Disjoint, ClientWaits, PluginWaits, PendingIsTracked,
   InFlight, Awaited, Chained, Late, Shown, RepliesGoHome, OnlyLateRepliesLeak

LEMMA RunTaskKeeps ==
    ASSUME IInv, NEW i \in DOMAIN queued, RunTask(i)
    PROVE  IInv'
<1> USE DEF RunTask, Route, ToClient, TaskLeaves, work, sockets
<1> DEFINE of == queued[i]
<1>a. of \in Origin /\ (i \in DOMAIN clientRequests => of = FromClient(clientRequests[i]))
  BY SMTT(60) DEF IInv, TypeOK, IdMap, InFlight, Chained, Late, Origin, FromClient
<1>1. TypeOK'
  BY <1>a, ClientIdsAreNumbers, SMTT(60) DEF Put, Drop, IInv, TypeOK, IdMap, Frame
<1>2. Fresh'
  BY SMTT(60) DEF Put, Drop, IInv, TypeOK, IdMap, Fresh
<1>3. Disjoint'
  BY SMTT(60) DEF Put, Drop, IInv, TypeOK, IdMap, Fresh, Disjoint
<1>4. ClientWaits'
  <2>1. CASE UNCHANGED <<clientRequests, hooks>>
    BY <2>1, SMTT(60) DEF work, IInv, ClientWaits
  <2>2. CASE /\ i \in DOMAIN clientRequests
             /\ clientRequests' = Drop(clientRequests, i)
             /\ hooks' = hooks \cup {[id |-> clientRequests[i], of |-> of]}
    <3> DEFINE c == clientRequests[i]
    <3>1. /\ c \in ClientIds /\ cmd[c] = "forwarded" /\ of = FromClient(c)
          /\ \A j \in DOMAIN clientRequests \ {i} : clientRequests[j] # c
          /\ \A f \in hooks : f.id # c
      BY <1>a, <2>2, SMTT(60) DEF IInv, TypeOK, IdMap, ClientWaits
    <3>2. /\ DOMAIN clientRequests' = DOMAIN clientRequests \ {i}
          /\ \A j \in DOMAIN clientRequests' : clientRequests'[j] = clientRequests[j]
      BY <2>2 DEF Drop
    <3>3. hooks' = hooks \cup {[id |-> c, of |-> FromClient(c)]} /\ cmd' = cmd
      BY <2>2, <3>1 DEF work
    <3>4. /\ \A j \in DOMAIN clientRequests' : cmd'[clientRequests'[j]] = "forwarded"
          /\ \A j, l \in DOMAIN clientRequests' :
                 clientRequests'[j] = clientRequests'[l] => j = l
      BY <3>2, <3>3 DEF IInv, ClientWaits
    <3>5. \A f \in hooks' : /\ f.id \in ClientIds /\ f.of = FromClient(f.id)
                            /\ cmd'[f.id] = "forwarded"
                            /\ \A j \in DOMAIN clientRequests' :
                                   clientRequests'[j] # f.id
      BY <3>1, <3>2, <3>3 DEF IInv, ClientWaits
    <3>6. \A d \in ClientIds : cmd'[d] = "forwarded" =>
              \/ \E j \in DOMAIN clientRequests' : clientRequests'[j] = d
              \/ \E f \in hooks' : f.id = d
      <4> SUFFICES ASSUME NEW d \in ClientIds, cmd[d] = "forwarded"
                   PROVE  \/ \E j \in DOMAIN clientRequests' : clientRequests'[j] = d
                          \/ \E f \in hooks' : f.id = d
        BY <3>3
      <4>1. CASE d = c
        <5>1. [id |-> c, of |-> FromClient(c)] \in hooks'
          BY <3>3
        <5>2. QED
          BY <4>1, <5>1
      <4>2. CASE d # c
        <5>1. \/ \E j \in DOMAIN clientRequests : clientRequests[j] = d
              \/ \E f \in hooks : f.id = d
          BY DEF IInv, ClientWaits
        <5>2. QED
          BY <4>2, <5>1, <3>2, <3>3
      <4>3. QED
        BY <4>1, <4>2
    <3>7. QED
      BY <3>4, <3>5, <3>6 DEF ClientWaits, FromClient
  <2>3. QED
    BY <2>1, <2>2
<1>5. PluginWaits'
  BY SMTT(60) DEF Put, Drop, IInv, TypeOK, IdMap, Fresh, PluginWaits, PendingIsTracked
<1>6. InFlight'
  <2> USE DEF Put, Drop, Origin, IInv, TypeOK, IdMap, Fresh, Disjoint, PluginWaits, InFlight,
          Awaited, Chained, Late, FromClient, FromPlugin, FromRuntime
  <2>1. \A j \in DOMAIN wire' : Awaited(j, wire[j])'
    BY SMTT(60)
  <2>2. \A j \in DOMAIN queued' : Chained(j, queued[j])'
    BY SMTT(60)
  <2>3. QED
    BY <2>1, <2>2, SMTT(60)
<1>7. Shown'
  BY <1>a, SMTT(60) DEF IInv, InFlight, Chained, Late, Shown, RepliesGoHome,
     OnlyLateRepliesLeak, Origin, FromClient, FromPlugin, work
<1>8. QED
  BY <1>1, <1>2, <1>3, <1>4, <1>5, <1>6, <1>7 DEF IInv

LEMMA ResumeKeeps ==
    ASSUME IInv, NEW i \in DOMAIN parked, Resume(i)
    PROVE  IInv'
<1> USE DEF Resume, Route, ToClient, TaskLeaves, work, sockets
<1> DEFINE of == parked[i]
<1>a. of \in Origin /\ (i \in DOMAIN clientRequests => of = FromClient(clientRequests[i]))
  BY SMTT(60) DEF IInv, TypeOK, IdMap, InFlight, Chained, Late, Origin, FromClient
<1>1. TypeOK'
  BY <1>a, ClientIdsAreNumbers, SMTT(60) DEF Put, Drop, IInv, TypeOK, IdMap, Frame
<1>2. Fresh'
  BY SMTT(60) DEF Put, Drop, IInv, TypeOK, IdMap, Fresh
<1>3. Disjoint'
  BY SMTT(60) DEF Put, Drop, IInv, TypeOK, IdMap, Fresh, Disjoint
<1>4. ClientWaits'
  <2>1. CASE UNCHANGED <<clientRequests, hooks>>
    BY <2>1, SMTT(60) DEF work, IInv, ClientWaits
  <2>2. CASE /\ i \in DOMAIN clientRequests
             /\ clientRequests' = Drop(clientRequests, i)
             /\ hooks' = hooks \cup {[id |-> clientRequests[i], of |-> of]}
    <3> DEFINE c == clientRequests[i]
    <3>1. /\ c \in ClientIds /\ cmd[c] = "forwarded" /\ of = FromClient(c)
          /\ \A j \in DOMAIN clientRequests \ {i} : clientRequests[j] # c
          /\ \A f \in hooks : f.id # c
      BY <1>a, <2>2, SMTT(60) DEF IInv, TypeOK, IdMap, ClientWaits
    <3>2. /\ DOMAIN clientRequests' = DOMAIN clientRequests \ {i}
          /\ \A j \in DOMAIN clientRequests' : clientRequests'[j] = clientRequests[j]
      BY <2>2 DEF Drop
    <3>3. hooks' = hooks \cup {[id |-> c, of |-> FromClient(c)]} /\ cmd' = cmd
      BY <2>2, <3>1 DEF work
    <3>4. /\ \A j \in DOMAIN clientRequests' : cmd'[clientRequests'[j]] = "forwarded"
          /\ \A j, l \in DOMAIN clientRequests' :
                 clientRequests'[j] = clientRequests'[l] => j = l
      BY <3>2, <3>3 DEF IInv, ClientWaits
    <3>5. \A f \in hooks' : /\ f.id \in ClientIds /\ f.of = FromClient(f.id)
                            /\ cmd'[f.id] = "forwarded"
                            /\ \A j \in DOMAIN clientRequests' :
                                   clientRequests'[j] # f.id
      BY <3>1, <3>2, <3>3 DEF IInv, ClientWaits
    <3>6. \A d \in ClientIds : cmd'[d] = "forwarded" =>
              \/ \E j \in DOMAIN clientRequests' : clientRequests'[j] = d
              \/ \E f \in hooks' : f.id = d
      <4> SUFFICES ASSUME NEW d \in ClientIds, cmd[d] = "forwarded"
                   PROVE  \/ \E j \in DOMAIN clientRequests' : clientRequests'[j] = d
                          \/ \E f \in hooks' : f.id = d
        BY <3>3
      <4>1. CASE d = c
        <5>1. [id |-> c, of |-> FromClient(c)] \in hooks'
          BY <3>3
        <5>2. QED
          BY <4>1, <5>1
      <4>2. CASE d # c
        <5>1. \/ \E j \in DOMAIN clientRequests : clientRequests[j] = d
              \/ \E f \in hooks : f.id = d
          BY DEF IInv, ClientWaits
        <5>2. QED
          BY <4>2, <5>1, <3>2, <3>3
      <4>3. QED
        BY <4>1, <4>2
    <3>7. QED
      BY <3>4, <3>5, <3>6 DEF ClientWaits, FromClient
  <2>3. QED
    BY <2>1, <2>2
<1>5. PluginWaits'
  BY SMTT(60) DEF Put, Drop, IInv, TypeOK, IdMap, Fresh, PluginWaits, PendingIsTracked
<1>6. InFlight'
  <2> USE DEF Put, Drop, Origin, IInv, TypeOK, IdMap, Fresh, Disjoint, PluginWaits, InFlight,
          Awaited, Chained, Late, FromClient, FromPlugin, FromRuntime
  <2>1. \A j \in DOMAIN wire' : Awaited(j, wire[j])'
    BY SMTT(60)
  <2>2. \A j \in DOMAIN queued' : Chained(j, queued[j])'
    BY SMTT(60)
  <2>3. QED
    BY <2>1, <2>2, SMTT(60)
<1>7. Shown'
  BY <1>a, SMTT(60) DEF IInv, InFlight, Chained, Late, Shown, RepliesGoHome,
     OnlyLateRepliesLeak, Origin, FromClient, FromPlugin, work
<1>8. QED
  BY <1>1, <1>2, <1>3, <1>4, <1>5, <1>6, <1>7 DEF IInv

LEMMA RespondKeeps ==
    ASSUME IInv, NEW f \in hooks, Respond(f)
    PROVE  IInv'
<1> USE DEF Respond, ToClient, sockets, tables
<1>1. TypeOK'
  BY SMTT(60) DEF IInv, TypeOK, IdMap, ClientWaits
<1>2. Fresh'
  BY SMTT(60) DEF Put, Drop, IInv, TypeOK, IdMap, Fresh
<1>3. Disjoint'
  BY SMTT(60) DEF Put, Drop, IInv, TypeOK, IdMap, Fresh, Disjoint
<1>4. ClientWaits'
  <2>1. \A g \in hooks : g.id = f.id => g = f
    <3>1. \A g \in hooks : g = [id |-> g.id, of |-> FromClient(g.id)]
      BY SMTT(60) DEF IInv, TypeOK, ClientWaits, Frame
    <3>2. QED
      BY <3>1, SMTT(60)
  <2>2. /\ hooks' = hooks \ {f} /\ clientRequests' = clientRequests
        /\ f.id \in ClientIds /\ cmd'[f.id] # "forwarded"
        /\ \A c \in ClientIds \ {f.id} : cmd'[c] = cmd[c]
        /\ \A j \in DOMAIN clientRequests : clientRequests[j] # f.id
    BY SMTT(60) DEF IInv, TypeOK, ClientWaits
  <2>3. \A j \in DOMAIN clientRequests : clientRequests[j] \in ClientIds
    BY DEF IInv, TypeOK, IdMap
  <2>4. QED
    BY <2>1, <2>2, <2>3, SMTT(60) DEF IInv, ClientWaits
<1>5. PluginWaits'
  BY SMTT(60) DEF Put, Drop, IInv, TypeOK, IdMap, Fresh, PluginWaits, PendingIsTracked
<1>6. InFlight'
  <2> USE DEF Put, Drop, Origin, IInv, TypeOK, IdMap, Fresh, Disjoint, PluginWaits, InFlight,
          Awaited, Chained, Late, FromClient, FromPlugin, FromRuntime
  <2>1. \A j \in DOMAIN wire' : Awaited(j, wire[j])'
    BY SMTT(60)
  <2>2. \A j \in DOMAIN queued' : Chained(j, queued[j])'
    BY SMTT(60)
  <2>3. QED
    BY <2>1, <2>2, SMTT(60)
<1>7. Shown'
  <2>1. toClient' \subseteq toClient \cup {f} /\ send' = send
    BY SMTT(60)
  <2>2. f.of.by = "client" /\ f.of.what = f.id
    <3>1. f.of = FromClient(f.id)
      BY DEF IInv, ClientWaits
    <3>2. QED
      BY <3>1 DEF FromClient
  <2>3. QED
    BY <2>1, <2>2, SMTT(60) DEF IInv, Shown, RepliesGoHome, OnlyLateRepliesLeak
<1>8. QED
  BY <1>1, <1>2, <1>3, <1>4, <1>5, <1>6, <1>7 DEF IInv
-----------------------------------------------------------------------------
LEMMA NextKeeps == IInv /\ [Next]_vars => IInv'
<1> SUFFICES ASSUME IInv, [Next]_vars PROVE IInv'
  OBVIOUS
<1>1. CASE Connection
  BY <1>1, UpstreamOpenKeeps, UpstreamFailKeeps, InstallFailKeeps, InstallDoneKeeps,
     StartDoneKeeps, ReapFinishKeeps DEF Connection
<1>2. CASE Disconnect
  BY <1>2, ClientCloseKeeps, UpstreamCloseKeeps, ShutdownKeeps DEF Disconnect
<1>3. CASE Command
  BY <1>3, ClientSendKeeps, AdmitKeeps, AnswerLocallyKeeps, ForwardKeeps DEF Command
<1>4. CASE Plugin
  BY <1>4, PluginSendKeeps DEF Plugin
<1>5. CASE Timer
  BY <1>5, TimeoutKeeps DEF Timer
<1>6. CASE Runtime
  BY <1>6, RuntimeSendKeeps DEF Runtime
<1>7. CASE Browser
  BY <1>7, BrowserReplyKeeps DEF Browser
<1>8. CASE Task
  BY <1>8, RunTaskKeeps, ResumeKeeps, RespondKeeps DEF Task
<1>9. CASE UNCHANGED vars
  BY <1>9, SMTT(60) DEF vars, sockets, tables, work, replies,
     IInv, TypeOK, IdMap, Origin, Frame, Activity, FromClient, FromPlugin, FromRuntime, Fresh, Disjoint, ClientWaits, PluginWaits, PendingIsTracked,
     InFlight, Awaited, Chained, Late, Shown, RepliesGoHome, OnlyLateRepliesLeak
<1>10. QED
  BY <1>1, <1>2, <1>3, <1>4, <1>5, <1>6, <1>7, <1>8, <1>9 DEF Next

LEMMA Invariance == Spec => []IInv
BY InitIInv, NextKeeps, PTL DEF Spec

(* The types of the connection's fields.                                   *)
THEOREM TypeCorrect == Spec => []TypeOK
<1>1. IInv => TypeOK
  BY DEF IInv
<1>2. QED
  BY <1>1, Invariance, PTL

(* A reply to a client's command carries the id the client gave it.        *)
THEOREM RepliesReachTheirCommand == Spec => []RepliesGoHome
<1>1. IInv => RepliesGoHome
  BY DEF IInv, Shown
<1>2. QED
  BY <1>1, Invariance, PTL

(* Nothing of the proxy's own traffic reaches the client except a reply to *)
(* a ctx.send whose timer had fired.                                       *)
THEOREM OnlyLateRepliesReachTheClient == Spec => []OnlyLateRepliesLeak
<1>1. IInv => OnlyLateRepliesLeak
  BY DEF IInv, Shown
<1>2. QED
  BY <1>1, Invariance, PTL

(* Every ctx.send that is waiting can still be settled.                    *)
THEOREM NoSendIsOrphaned == Spec => []PendingIsTracked
<1>1. IInv => PendingIsTracked
  BY DEF IInv, PluginWaits
<1>2. QED
  BY <1>1, Invariance, PTL

(* A forwarded command is accounted for in exactly one place.              *)
THEOREM ForwardedExactlyOnce == Spec => []ForwardedOnce
<1>1. IInv => ForwardedOnce
  <2> SUFFICES ASSUME IInv, NEW c \in ClientIds
               PROVE  cmd[c] = "forwarded" <=>
                        \/ /\ \E i \in DOMAIN clientRequests : clientRequests[i] = c
                           /\ \A i, j \in DOMAIN clientRequests :
                                  clientRequests[i] = c /\ clientRequests[j] = c => i = j
                           /\ \A f \in hooks : f.id # c
                        \/ /\ \A i \in DOMAIN clientRequests : clientRequests[i] # c
                           /\ \E f \in hooks : f.id = c
    BY DEF ForwardedOnce
  <2>1. CASE \E i \in DOMAIN clientRequests : clientRequests[i] = c
    BY <2>1 DEF IInv, ClientWaits
  <2>2. CASE \E f \in hooks : f.id = c
    BY <2>2 DEF IInv, ClientWaits
  <2>3. CASE /\ \A i \in DOMAIN clientRequests : clientRequests[i] # c
             /\ \A f \in hooks : f.id # c
    BY <2>3 DEF IInv, ClientWaits
  <2>4. QED
    BY <2>1, <2>2, <2>3
<1>2. QED
  BY <1>1, Invariance, PTL

(* The three tables never compete for a reply.                             *)
THEOREM EveryIdHasOneWaiter == Spec => []OneWaiter
<1>1. ASSUME IInv PROVE OneWaiter
  <2> USE <1>1 DEF IInv, TypeOK, IdMap, InFlight, Awaited, Chained, Late, Disjoint,
          ExpectedBySender, Origin, FromClient, FromPlugin
  <2>1. ExpectedBySender(wire)
    BY SMTT(60)
  <2>2. ExpectedBySender(queued)
    BY SMTT(60)
  <2>3. ExpectedBySender(parked)
    BY SMTT(60)
  <2>4. nextId \notin DOMAIN clientRequests \cup DOMAIN pluginRequests \cup swallow
    BY DEF Fresh
  <2>5. QED
    BY <2>1, <2>2, <2>3, <2>4 DEF OneWaiter
<1>2. QED
  BY <1>1, Invariance, PTL

(* Whoever causes the reap and however far the connection has come, both    *)
(* sockets are closed, or still connecting, when it ends.                  *)
LEMMA ReapLeavesNoneOpen ==
    ASSUME TypeOK, NEW d, NEW u, d \in {"open", "closed"}, Reap(d, u),
           reap # "done", reap' = "done"
    PROVE  down' = "closed" /\ up' # "open"
BY DEF Reap, CloseOpen

LEMMA StepClosesBoth ==
    ASSUME TypeOK, Next, reap # "done", reap' = "done"
    PROVE  down' = "closed" /\ up' # "open"
<1>1. down \in {"open", "closed"}
  BY DEF TypeOK
<1>2. CASE Connection
  <2>1. CASE UpstreamFail
    BY <1>1, <2>1, ReapLeavesNoneOpen DEF UpstreamFail
  <2>2. CASE InstallFail
    BY <1>1, <2>2, ReapLeavesNoneOpen DEF InstallFail
  <2>3. CASE ReapFinish
    BY <1>1, <2>3 DEF ReapFinish, CloseOpen
  <2>4. CASE UpstreamOpen \/ InstallDone \/ StartDone
    BY <2>4 DEF UpstreamOpen, InstallDone, StartDone
  <2>5. QED
    BY <1>2, <2>1, <2>2, <2>3, <2>4 DEF Connection
<1>3. CASE Disconnect
  BY <1>1, <1>3, ReapLeavesNoneOpen DEF Disconnect, ClientClose, UpstreamClose, Shutdown
<1>4. CASE Command
  BY <1>4 DEF Command, ClientSend, Admit, AnswerLocally, Forward
<1>5. CASE Plugin \/ Timer \/ Runtime \/ Browser
  BY <1>5 DEF Plugin, PluginSend, Timer, Timeout, Runtime, RuntimeSend, Browser, BrowserReply
<1>6. CASE Task
  BY <1>6 DEF Task, RunTask, Resume, Respond, TaskLeaves
<1>7. QED
  BY <1>2, <1>3, <1>4, <1>5, <1>6 DEF Next

THEOREM ReapLeavesNoSocketOpen == Spec => ReapClosesBoth
<1>1. TypeOK /\ [Next]_vars =>
        [reap # "done" /\ reap' = "done" => down' = "closed" /\ up' # "open"]_vars
  BY StepClosesBoth DEF vars
<1>2. QED
  BY <1>1, TypeCorrect, PTL DEF Spec, ReapClosesBoth
-----------------------------------------------------------------------------
(* Plugins: its types and its inductive invariant.                         *)
Stages   == {"surfaces", "protocol", "starting", "running", "failed"}
Somebody == Plugins \cup {None}
Methods  == {Method[m] : m \in Messages} \cup UNION {Rewrites[p] : p \in Plugins}
MsgType  ==
    [at : {"new", "in", "done"}, pos : Nat, hook : Somebody, method : Methods,
     out : {None, "decided", "answered", "forwarded"}, by : Somebody \cup {"runtime", "unknown"}]

PluginsTypeOK ==
    /\ stage \in Stages /\ reaped \in Stages \cup {"no"}
    /\ todo \in Seq(Plugins) /\ resolved \in Seq(Plugins) /\ installed \in Seq(Plugins)
    /\ ending \in Seq(Plugins) /\ entries \in Seq(Messages)
    /\ conflicts \subseteq Plugins /\ failed \subseteq Plugins /\ started \subseteq Plugins
    /\ ended \subseteq Plugins /\ warned \subseteq Plugins /\ ran \subseteq Plugins
    /\ merged \in [header : Somebody, part : Somebody] /\ msg \in [Messages -> MsgType]

(* What has set up so far is in order, and ahead of what is still to come; *)
(* and nothing the caller listed got lost.                                 *)
Of(kind)    == {p \in Plugins : Kind[p] = kind}
Spare       == {q \in Optional : Pinned[q] = "no"}
Sorted(s)   == \A i, j \in DOMAIN s : i < j => Before(s[i], s[j])
Ahead(s, t) == \A i \in DOMAIN s, j \in DOMAIN t : Before(s[i], t[j])

Compiling ==
    /\ Sorted(todo) /\ Ahead(resolved, todo) /\ installed = <<>>
    /\ Of("surface") \subseteq Range(resolved) \cup conflicts \cup Range(todo)

Compiled ==
    /\ Of("surface") \subseteq Range(resolved) \cup conflicts
    /\ merged = [header |-> FirstClaim("header"), part |-> FirstClaim("part")]
    /\ Overruled("header") \cup Overruled("part") \subseteq conflicts

Installing ==
    /\ Sorted(todo) /\ Ahead(installed, todo)
    /\ Of("protocol") \subseteq Range(installed) \cup failed \cup Spare \cup Range(todo)

Installed == ~Clash /\ Of("protocol") \subseteq Range(installed) \cup Spare

SetUp ==
    /\ Sorted(resolved) /\ Sorted(installed)
    /\ stage = "surfaces" => Compiling
    /\ stage \notin {"surfaces", "failed"} => Compiled
    /\ stage = "protocol" => Installing
    /\ stage \in {"starting", "running"} => Installed

(* How far each message has come, and in which hooks it has been.          *)
Hears(m) == {i \in DOMAIN installed : Listens(installed[i], m)}

Passes(m) ==
    /\ msg[m].at # "new" => stage \in {"starting", "running"}
    /\ msg[m].at = "new" => msg[m].pos = 0 /\ msg[m].hook = None /\ msg[m].out = None
    /\ msg[m].hook # None =>
        msg[m].at = "in" /\ msg[m].pos \in Hears(m) /\ msg[m].hook = installed[msg[m].pos]
    /\ msg[m].pos > 0 => \E i \in Hears(m) : i <= msg[m].pos /\ \A j \in Hears(m) : i <= j
    /\ \A i \in Hears(m) :
        i < msg[m].pos \/ (i = msg[m].pos /\ msg[m].hook = None) => installed[i] \in ran

Passing == \A m \in Messages : Passes(m)

PInv == PluginsTypeOK /\ SetUp /\ Passing
-----------------------------------------------------------------------------
LEMMA ListedPlugins ==
    /\ Len(List) \in Nat /\ DOMAIN List = 1..Len(List) /\ IsFiniteSet(Plugins)
    /\ \A p \in Plugins : At(p) \in 1..Len(List) /\ List[At(p)] = p
  <1>1. List \in Seq(Plugins)
    BY PluginsAssumption
  <1>2. Len(List) \in Nat /\ DOMAIN List = 1..Len(List) /\ List \in [1..Len(List) -> Plugins]
    BY <1>1, LenProperties
  <1>3. \A p \in Plugins : \E i \in DOMAIN List : List[i] = p
    BY DEF Plugins, Range
  <1>4. List \in Surjection(1..Len(List), Plugins)
    BY <1>2, <1>3, Fun_IsSurj
  <1>5. IsFiniteSet(1..Len(List))
    BY <1>2, FS_Interval
  <1>6. IsFiniteSet(Plugins)
    BY <1>4, <1>5, FS_Surjection
  <1>7. \A p \in Plugins : At(p) \in DOMAIN List /\ List[At(p)] = p
    BY <1>3 DEF At
  <1> QED BY <1>2, <1>6, <1>7

(* The order of the pipeline is a strict order of all plugins: no two are  *)
(* equal in it, since the caller's list decides last.                      *)
LEMMA BeforeIsStrict ==
    /\ \A p \in Plugins : ~Before(p, p)
    /\ \A p, q, r \in Plugins : Before(p, q) /\ Before(q, r) => Before(p, r)
    /\ \A p, q \in Plugins : p # q => Before(p, q) \/ Before(q, p)
  <1>1. \A p : Rank(p) \in {0, 1, 2}
    BY DEF Rank
  <1>2. \A p \in Plugins : Priority[p] \in Int /\ At(p) \in Nat /\ List[At(p)] = p
    BY ListedPlugins, PluginsAssumption
  <1>3. \A p \in Plugins : ~Before(p, p)
    BY <1>1, <1>2 DEF Before
  <1>4. ASSUME NEW p \in Plugins, NEW q \in Plugins, NEW r \in Plugins, Before(p, q), Before(q, r)
        PROVE  Before(p, r)
    <2> HIDE DEF Plugins
    <2>1. Rank(p) \in Int /\ Rank(q) \in Int /\ Rank(r) \in Int
      BY <1>1
    <2>2. /\ Priority[p] \in Int /\ Priority[q] \in Int /\ Priority[r] \in Int
          /\ At(p) \in Int /\ At(q) \in Int /\ At(r) \in Int
      BY <1>2
    <2> QED BY <1>4, <2>1, <2>2 DEF Before
  <1>5. ASSUME NEW p \in Plugins, NEW q \in Plugins, p # q
        PROVE  Before(p, q) \/ Before(q, p)
    <2>1. Rank(p) \in Int /\ Rank(q) \in Int
      BY <1>1
    <2>2. /\ Priority[p] \in Int /\ Priority[q] \in Int /\ At(p) \in Int /\ At(q) \in Int
          /\ At(p) # At(q)
      BY <1>2, <1>5
    <2> QED BY <2>1, <2>2 DEF Before
  <1> QED BY <1>3, <1>4, <1>5

(* A finite set of plugins can be put in that order: each goes where the   *)
(* number of those before it says.                                         *)
LEMMA SortedExists ==
    ASSUME NEW S \in SUBSET Plugins
    PROVE  \E s \in [1..Cardinality(S) -> S] : \A i, j \in DOMAIN s : i < j => Before(s[i], s[j])
  <1> DEFINE n == Cardinality(S)
             Below(p) == {q \in S : Before(q, p)}
             pos == [p \in S |-> Cardinality(Below(p)) + 1]
  <1>1. IsFiniteSet(S) /\ n \in Nat
    BY ListedPlugins, FS_Subset, FS_CardinalityType
  <1>2. ASSUME NEW p \in S
        PROVE  IsFiniteSet(Below(p)) /\ Cardinality(Below(p)) \in Nat /\ Cardinality(Below(p)) + 1 \in 1..n
    <2>1. Below(p) \in SUBSET (S \ {p})
      BY BeforeIsStrict
    <2>2. IsFiniteSet(S \ {p}) /\ Cardinality(S \ {p}) = n - 1
      BY <1>1, FS_RemoveElement
    <2>3. IsFiniteSet(Below(p)) /\ Cardinality(Below(p)) <= n - 1
      BY <2>1, <2>2, FS_Subset
    <2>4. Cardinality(Below(p)) \in Nat
      BY <2>3, FS_CardinalityType
    <2> HIDE DEF Below, n
    <2> QED BY <1>1, <2>3, <2>4
  <1>3. ASSUME NEW p \in S, NEW q \in S, Before(p, q)
        PROVE  pos[p] < pos[q]
    <2>1. Below(p) \in SUBSET (Below(q) \ {p}) /\ p \in Below(q)
      BY <1>3, BeforeIsStrict
    <2>2. IsFiniteSet(Below(q)) /\ Cardinality(Below(q)) \in Nat /\ Cardinality(Below(p)) \in Nat
      BY <1>2
    <2>3. IsFiniteSet(Below(q) \ {p}) /\ Cardinality(Below(q) \ {p}) = Cardinality(Below(q)) - 1
      BY <2>1, <2>2, FS_RemoveElement
    <2>4. Cardinality(Below(p)) <= Cardinality(Below(q)) - 1
      BY <2>1, <2>3, FS_Subset
    <2> HIDE DEF Below
    <2> QED BY <2>2, <2>4
  <1>4. pos \in [S -> 1..n]
    BY <1>2
  <1> HIDE DEF pos, n
  <1>5. \A p, q \in S : pos[p] = pos[q] => p = q
    <2> SUFFICES ASSUME NEW p \in S, NEW q \in S, p # q
                 PROVE  pos[p] # pos[q]
      OBVIOUS
    <2>1. pos[p] \in Int /\ pos[q] \in Int
      BY <1>1, <1>4
    <2>2. Before(p, q) \/ Before(q, p)
      BY BeforeIsStrict
    <2> QED BY <1>3, <2>1, <2>2
  <1>6. \A k \in 1..n : \E p \in S : pos[p] = k
    <2>1. pos \in Injection(S, 1..n)
      BY <1>4, <1>5, Fun_IsInj
    <2>2. IsFiniteSet(1..n) /\ Cardinality(1..n) = n
      <3>1. 1 \in Int /\ n \in Int
        BY <1>1
      <3>2. IsFiniteSet(1..n) /\ Cardinality(1..n) = IF 1 > n THEN 0 ELSE n - 1 + 1
        BY <3>1, FS_Interval
      <3> QED BY <1>1, <3>2
    <2>3. pos \in Surjection(S, 1..n)
      BY <2>1, <2>2, FS_Injection DEF n
    <2> QED BY <2>3, Fun_SurjectionProperties
  <1> DEFINE s == [k \in 1..n |-> CHOOSE p \in S : pos[p] = k]
  <1>7. \A k \in 1..n : s[k] \in S /\ pos[s[k]] = k
    BY <1>6
  <1>8. s \in [1..n -> S] /\ DOMAIN s = 1..n
    BY <1>7
  <1> HIDE DEF s
  <1>9. ASSUME NEW i \in 1..n, NEW j \in 1..n, i < j
        PROVE  Before(s[i], s[j])
    <2>1. s[i] \in S /\ s[j] \in S /\ pos[s[i]] = i /\ pos[s[j]] = j /\ i \in Int /\ j \in Int
      BY <1>7
    <2>2. s[i] # s[j]
      BY <1>9, <2>1
    <2>3. Before(s[i], s[j]) \/ Before(s[j], s[i])
      BY <2>1, <2>2, BeforeIsStrict
    <2>4. Before(s[j], s[i]) => j < i
      BY <1>3, <2>1
    <2> QED BY <1>9, <2>1, <2>3, <2>4
  <1> QED BY <1>8, <1>9 DEF n

(* Order lists every plugin of its kind, in that order.                    *)
LEMMA OrderSorted ==
    ASSUME NEW kind
    PROVE  Order(kind) \in Seq(Plugins) /\ Range(Order(kind)) = Of(kind) /\ Sorted(Order(kind))
  <1> DEFINE S == Of(kind)
             n == Cardinality(S)
             Good(s) == \A i, j \in DOMAIN s : i < j => Before(s[i], s[j])
  <1>1. S \in SUBSET Plugins
    BY DEF Of
  <1>2. \E s \in [1..n -> S] : Good(s)
    BY <1>1, SortedExists
  <1>3. PICK s : s = Order(kind)
    OBVIOUS
  <1>4. s \in [1..n -> S] /\ Good(s)
    BY <1>2, <1>3 DEF Order, Of
  <1>5. IsFiniteSet(S) /\ n \in Nat
    BY <1>1, ListedPlugins, FS_Subset, FS_CardinalityType
  <1> HIDE DEF n
  <1>6. \A i, j \in 1..n : s[i] = s[j] => i = j
    <2> SUFFICES ASSUME NEW i \in 1..n, NEW j \in 1..n, i # j
                 PROVE  s[i] # s[j]
      OBVIOUS
    <2>1. i < j \/ j < i
      BY <1>5
    <2>2. Before(s[i], s[j]) \/ Before(s[j], s[i])
      BY <1>4, <2>1
    <2>3. s[i] \in Plugins /\ s[j] \in Plugins
      BY <1>1, <1>4
    <2> QED BY <2>2, <2>3, BeforeIsStrict
  <1>7. s \in Surjection(1..n, S)
    <2>1. s \in Injection(1..n, S)
      BY <1>4, <1>6, Fun_IsInj
    <2>2. IsFiniteSet(1..n) /\ Cardinality(1..n) = n
      <3>1. 1 \in Int /\ n \in Int
        BY <1>5
      <3>2. IsFiniteSet(1..n) /\ Cardinality(1..n) = IF 1 > n THEN 0 ELSE n - 1 + 1
        BY <3>1, FS_Interval
      <3> QED BY <1>5, <3>2
    <2> QED BY <1>5, <2>1, <2>2, FS_Injection DEF n
  <1>8. Range(s) = S
    BY <1>7, Fun_SurjectionProperties
  <1>9. s \in Seq(Plugins)
    <2>1. s \in [1..n -> Plugins]
      BY <1>1, <1>4
    <2> QED BY <1>5, <2>1, SeqDef
  <1> QED BY <1>3, <1>4, <1>8, <1>9 DEF Sorted

(* What a plugin that is taken off the list and put behind the others      *)
(* leaves of their order.                                                  *)
LEMMA TakenInOrder ==
    ASSUME NEW r \in Seq(Plugins), NEW s \in Seq(Plugins), s # <<>>, Sorted(r), Sorted(s), Ahead(r, s)
    PROVE  /\ Head(s) \in Plugins /\ Tail(s) \in Seq(Plugins) /\ Append(r, Head(s)) \in Seq(Plugins)
           /\ Range(s) = {Head(s)} \cup Range(Tail(s)) /\ Range(Append(r, Head(s))) = Range(r) \cup {Head(s)}
           /\ Sorted(Tail(s)) /\ Sorted(Append(r, Head(s)))
           /\ Ahead(r, Tail(s)) /\ Ahead(Append(r, Head(s)), Tail(s))
  <1> DEFINE h == Head(s)  t == Tail(s)  a == Append(r, h)
  <1>1. /\ h \in Plugins /\ t \in Seq(Plugins) /\ Len(t) = Len(s) - 1 /\ h = s[1]
        /\ \A i \in 1..Len(t) : t[i] = s[i + 1]
    BY HeadTailProperties
  <1>2. /\ Len(s) \in Nat /\ Len(r) \in Nat /\ Len(s) > 0 /\ DOMAIN s = 1..Len(s) /\ DOMAIN r = 1..Len(r)
        /\ DOMAIN t = 1..Len(t)
    BY <1>1, EmptySeq
  <1>3. /\ a \in Seq(Plugins) /\ DOMAIN a = 1..(Len(r) + 1) /\ a[Len(r) + 1] = h
        /\ \A i \in 1..Len(r) : a[i] = r[i]
    BY <1>1
  <1> HIDE DEF h, t, a
  <1>4. \A i \in DOMAIN t : i + 1 \in DOMAIN s /\ t[i] = s[i + 1] /\ 1 \in DOMAIN s /\ 1 < i + 1
    BY <1>1, <1>2
  <1>5. Range(s) = {h} \cup Range(t)
    <2>1. \A i \in DOMAIN s : s[i] = h \/ s[i] \in Range(t)
      <3> SUFFICES ASSUME NEW i \in DOMAIN s, i # 1
                   PROVE  s[i] \in Range(t)
        BY <1>1
      <3>1. i - 1 \in DOMAIN t /\ t[i - 1] = s[i]
        BY <1>1, <1>2
      <3> QED BY <3>1 DEF Range
    <2>2. h \in Range(s) /\ Range(t) \subseteq Range(s)
      BY <1>1, <1>2, <1>4 DEF Range
    <2> QED BY <2>1, <2>2 DEF Range
  <1>6. Range(a) = Range(r) \cup {h}
    <2>1. \A i \in DOMAIN a : a[i] \in Range(r) \cup {h}
      <3> SUFFICES ASSUME NEW i \in DOMAIN a, i # Len(r) + 1
                   PROVE  a[i] \in Range(r)
        BY <1>3
      <3>1. i \in DOMAIN r /\ a[i] = r[i]
        BY <1>2, <1>3
      <3> QED BY <3>1 DEF Range
    <2>2. \A i \in DOMAIN r : i \in DOMAIN a /\ a[i] = r[i]
      BY <1>2, <1>3
    <2>3. Len(r) + 1 \in DOMAIN a
      BY <1>2, <1>3
    <2> QED BY <1>3, <2>1, <2>2, <2>3 DEF Range
  <1>7. Sorted(t)
    <2> SUFFICES ASSUME NEW i \in DOMAIN t, NEW j \in DOMAIN t, i < j
                 PROVE  Before(t[i], t[j])
      BY DEF Sorted
    <2>1. i + 1 < j + 1
      BY <1>2
    <2> QED BY <1>4, <2>1 DEF Sorted
  <1>8. Ahead(r, t)
    BY <1>4 DEF Ahead
  <1>9. \A j \in DOMAIN t : Before(h, t[j])
    BY <1>1, <1>4 DEF Sorted
  <1>10. \A i \in DOMAIN r : Before(r[i], h)
    BY <1>1, <1>2 DEF Ahead
  <1>11. Sorted(a)
    <2> SUFFICES ASSUME NEW i \in DOMAIN a, NEW j \in DOMAIN a, i < j
                 PROVE  Before(a[i], a[j])
      BY DEF Sorted
    <2>1. i \in DOMAIN r /\ a[i] = r[i]
      BY <1>2, <1>3
    <2>2. CASE j \in DOMAIN r
      BY <1>2, <1>3, <2>1, <2>2 DEF Sorted
    <2>3. CASE j \notin DOMAIN r
      <3>1. j = Len(r) + 1
        BY <1>2, <1>3, <2>3
      <3> QED BY <1>3, <1>10, <2>1, <3>1
    <2> QED BY <2>2, <2>3
  <1>12. Ahead(a, t)
    <2> SUFFICES ASSUME NEW i \in DOMAIN a, NEW j \in DOMAIN t
                 PROVE  Before(a[i], t[j])
      BY DEF Ahead
    <2>1. CASE i \in DOMAIN r
      BY <1>2, <1>3, <1>8, <2>1 DEF Ahead
    <2>2. CASE i \notin DOMAIN r
      <3>1. i = Len(r) + 1
        BY <1>2, <1>3, <2>2
      <3> QED BY <1>3, <1>9, <3>1
    <2> QED BY <2>1, <2>2
  <1> QED BY <1>1, <1>3, <1>5, <1>6, <1>7, <1>8, <1>11, <1>12 DEF h, t, a

LEMMA PluginsBegin == PluginsInit => PInv
  <1> SUFFICES ASSUME PluginsInit
               PROVE  PInv
    OBVIOUS
  <1>1. PluginsTypeOK
    <2>1. msg \in [Messages -> MsgType]
      BY DEF PluginsInit, MsgType, Methods, Somebody
    <2>2. todo \in Seq(Plugins)
      BY OrderSorted DEF PluginsInit
    <2>3. resolved \in Seq(Plugins) /\ installed \in Seq(Plugins) /\ ending \in Seq(Plugins)
          /\ entries \in Seq(Messages)
      BY DEF PluginsInit
    <2>4. merged \in [header : Somebody, part : Somebody]
      BY DEF PluginsInit, Somebody
    <2> QED BY <2>1, <2>2, <2>3, <2>4 DEF PluginsInit, PluginsTypeOK, Stages
  <1>2. SetUp
    <2>1. Sorted(todo) /\ Range(todo) = Of("surface")
      BY OrderSorted DEF PluginsInit
    <2>2. Sorted(resolved) /\ Sorted(installed) /\ Ahead(resolved, todo)
      BY DEF PluginsInit, Sorted, Ahead
    <2> QED BY <2>1, <2>2 DEF PluginsInit, SetUp, Compiling
  <1>3. Passing
    <2> SUFFICES ASSUME NEW m \in Messages
                 PROVE  Passes(m)
      BY DEF Passing
    <2>1. msg[m].at = "new" /\ msg[m].pos = 0 /\ msg[m].hook = None /\ msg[m].out = None /\ Hears(m) = {}
      BY DEF PluginsInit, Hears
    <2> QED BY <2>1, PluginsAssumption DEF Passes
  <1> QED BY <1>1, <1>2, <1>3 DEF PInv

(* The claim the bundle goes with is the first one made, by a surface that *)
(* set up ahead of every other that makes one.                             *)
LEMMA FirstClaimIs ==
    ASSUME PluginsTypeOK, NEW what
    PROVE  /\ FirstClaim(what) \in Somebody
           /\ \A i \in DOMAIN resolved : Claims[resolved[i]][what] # None =>
                \E k \in DOMAIN resolved :
                    k <= i /\ FirstClaim(what) = resolved[k] /\ Claims[resolved[k]][what] # None
  <1> DEFINE claim == {i \in DOMAIN resolved : Claims[resolved[i]][what] # None}
  <1>1. resolved \in Seq(Plugins) /\ DOMAIN resolved \subseteq Nat
    BY DEF PluginsTypeOK
  <1>2. \A i \in DOMAIN resolved : resolved[i] \in Plugins
    BY <1>1
  <1>3. CASE claim = {}
    BY <1>3 DEF FirstClaim, Somebody
  <1>4. CASE claim # {}
    <2>1. claim \in SUBSET Nat
      BY <1>1
    <2>2. PICK k \in claim : \A j \in claim : ~ (<<j, k>> \in OpToRel(<, Nat))
      <3> HIDE DEF claim
      <3> QED BY <2>1, <1>4, NatLessThanWellFounded, WFMin
    <2>3. \A j \in claim : k <= j
      <3> HIDE DEF claim
      <3>1. \A j \in claim : ~ (j < k)
        BY <2>1, <2>2 DEF OpToRel
      <3> QED BY <2>1, <3>1
    <2>4. PICK f : f = CHOOSE i \in claim : \A j \in claim : i <= j
      OBVIOUS
    <2>5. f \in claim /\ \A j \in claim : f <= j
      BY <2>3, <2>4
    <2>6. FirstClaim(what) = resolved[f]
      BY <1>4, <2>4 DEF FirstClaim
    <2>7. f \in DOMAIN resolved /\ Claims[resolved[f]][what] # None
      BY <2>5
    <2>8. \A i \in DOMAIN resolved : Claims[resolved[i]][what] # None => f <= i
      BY <2>5
    <2> HIDE DEF claim
    <2> QED BY <1>2, <2>6, <2>7, <2>8 DEF Somebody
  <1> QED BY <1>3, <1>4

-----------------------------------------------------------------------------
(* The step of a message, written as its new record.                       *)
LEMMA Rewritten ==
    ASSUME NEW r \in MsgType, NEW x
    PROVE  /\ [r EXCEPT !.at = x] = [at |-> x, pos |-> r.pos, hook |-> r.hook, method |-> r.method,
                                  out |-> r.out, by |-> r.by]
           /\ [r EXCEPT !.hook = x] = [at |-> r.at, pos |-> r.pos, hook |-> x, method |-> r.method, out |-> r.out, by |-> r.by]
  BY DEF MsgType

LEMMA EnterMoves ==
    ASSUME PluginsTypeOK, NEW m \in Messages, Enter(m)
    PROVE  \E i \in NextAt(m) :
            /\ \A j \in NextAt(m) : i <= j
            /\ installed[i] \in Plugins /\ i \in Nat
            /\ msg' = [msg EXCEPT ![m] = [at |-> "in", pos |-> i, hook |-> installed[i], method |-> msg[m].method, out |-> msg[m].out, by |-> msg[m].by]]
  <1>1. PICK i \in NextAt(m) :
            /\ \A j \in NextAt(m) : i <= j
            /\ msg' = [msg EXCEPT ![m].at = "in", ![m].pos = i, ![m].hook = installed[i]]
    BY DEF Enter
  <1>2. installed[i] \in Plugins /\ i \in Nat
    BY <1>1 DEF NextAt, PluginsTypeOK
  <1>3. msg[m] \in MsgType /\ msg \in [Messages -> MsgType]
    BY DEF PluginsTypeOK
  <1>4. PICK r : r = [at |-> "in", pos |-> msg[m].pos, hook |-> msg[m].hook, method |-> msg[m].method, out |-> msg[m].out, by |-> msg[m].by]
    OBVIOUS
  <1>5. PICK q : q = [r EXCEPT !.pos = i]
    OBVIOUS
  <1>6. q = [at |-> "in", pos |-> i, hook |-> msg[m].hook, method |-> msg[m].method, out |-> msg[m].out, by |-> msg[m].by]
    BY <1>4, <1>5
  <1>7. [q EXCEPT !.hook = installed[i]] =
            [at |-> "in", pos |-> i, hook |-> installed[i], method |-> msg[m].method, out |-> msg[m].out, by |-> msg[m].by]
    BY <1>6
  <1>8. msg' = [msg EXCEPT ![m] = [q EXCEPT !.hook = installed[i]]]
    <2>1. [msg[m] EXCEPT !.at = "in"] = r
      BY <1>3, <1>4, Rewritten
    <2> QED BY <1>1, <1>3, <1>5, <2>1
  <1> QED BY <1>1, <1>2, <1>7, <1>8

LEMMA DecideMoves ==
    ASSUME PluginsTypeOK, NEW m \in Messages, NEW out, NEW by, Decide(m, out, by)
    PROVE  msg' = [msg EXCEPT ![m] = [at |-> "done", pos |-> msg[m].pos, hook |-> None, method |-> msg[m].method, out |-> out, by |-> by]]
  <1>1. msg[m] \in MsgType /\ msg \in [Messages -> MsgType]
    BY DEF PluginsTypeOK
  <1>2. PICK r : r = [at |-> msg[m].at, pos |-> msg[m].pos, hook |-> None, method |-> msg[m].method, out |-> msg[m].out, by |-> msg[m].by]
    OBVIOUS
  <1>3. PICK q : q = [r EXCEPT !.at = "done"]
    OBVIOUS
  <1>4. q = [at |-> "done", pos |-> msg[m].pos, hook |-> None, method |-> msg[m].method, out |-> msg[m].out, by |-> msg[m].by]
    BY <1>2, <1>3
  <1>5. PICK t : t = [q EXCEPT !.out = out]
    OBVIOUS
  <1>6. t = [at |-> "done", pos |-> msg[m].pos, hook |-> None, method |-> msg[m].method, out |-> out, by |-> msg[m].by]
    BY <1>4, <1>5
  <1>7. [t EXCEPT !.by = by] = [at |-> "done", pos |-> msg[m].pos, hook |-> None, method |-> msg[m].method, out |-> out, by |-> by]
    BY <1>6
  <1>8. msg' = [msg EXCEPT ![m] = [t EXCEPT !.by = by]]
    <2>1. [msg[m] EXCEPT !.hook = None] = r
      BY <1>1, <1>2, Rewritten
    <2> QED BY <1>1, <1>3, <1>5, <2>1 DEF Decide
  <1> QED BY <1>7, <1>8

LEMMA LeaveMoves ==
    ASSUME PluginsTypeOK, NEW m \in Messages, Leave(m)
    PROVE  \/ \E method \in {msg[m].method} \cup Rewrites[msg[m].hook] :
                msg' = [msg EXCEPT ![m] = [at |-> msg[m].at, pos |-> msg[m].pos, hook |-> None,
                                           method |-> method, out |-> msg[m].out, by |-> msg[m].by]]
           \/ msg' = [msg EXCEPT ![m] = [at |-> "done", pos |-> msg[m].pos, hook |-> None,
                                         method |-> msg[m].method,
                                         out |-> "decided", by |-> msg[m].hook]]
  <1>1. msg[m] \in MsgType
    BY DEF PluginsTypeOK
  <1>2. CASE msg' = [msg EXCEPT ![m].hook = None]
    <2>1. msg' = [msg EXCEPT ![m] = [msg[m] EXCEPT !.hook = None]]
      BY <1>1, <1>2 DEF PluginsTypeOK
    <2>2. [msg[m] EXCEPT !.hook = None] =
            [at |-> msg[m].at, pos |-> msg[m].pos, hook |-> None, method |-> msg[m].method,
             out |-> msg[m].out, by |-> msg[m].by]
      BY <1>1 DEF MsgType
    <2> QED BY <2>1, <2>2
  <1>3. ASSUME NEW method \in Rewrites[msg[m].hook],
               msg' = [msg EXCEPT ![m].hook = None, ![m].method = method]
        PROVE  msg' = [msg EXCEPT ![m] = [at |-> msg[m].at, pos |-> msg[m].pos, hook |-> None,
                                           method |-> method, out |-> msg[m].out, by |-> msg[m].by]]
    <2>1. PICK r : r = [at |-> msg[m].at, pos |-> msg[m].pos, hook |-> None, method |-> msg[m].method,
                        out |-> msg[m].out, by |-> msg[m].by]
      OBVIOUS
    <2>2. [msg[m] EXCEPT !.hook = None] = r
      BY <1>1, <2>1, Rewritten
    <2>3. [r EXCEPT !.method = method] =
            [at |-> msg[m].at, pos |-> msg[m].pos, hook |-> None, method |-> method,
             out |-> msg[m].out, by |-> msg[m].by]
      BY <2>1
    <2>4. msg' = [msg EXCEPT ![m] = [r EXCEPT !.method = method]]
      BY <1>3, <2>2 DEF PluginsTypeOK
    <2> QED BY <2>3, <2>4
  <1>4. CASE Decide(m, "decided", msg[m].hook)
    BY <1>4, DecideMoves
  <1> QED BY <1>2, <1>3, <1>4 DEF Leave

LEMMA ThroughMoves ==
    ASSUME PluginsTypeOK, NEW m \in Messages, Through(m)
    PROVE  \/ msg' = [msg EXCEPT ![m] = [at |-> "done", pos |-> msg[m].pos, hook |-> None, method |-> msg[m].method, out |-> "answered", by |-> Answerer(m)]]
           \/ msg' = [msg EXCEPT ![m] = [at |-> "done", pos |-> msg[m].pos, hook |-> None, method |-> msg[m].method, out |-> "forwarded", by |-> None]]
  <1>1. CASE Decide(m, "answered", Answerer(m))
    BY <1>1, DecideMoves
  <1>2. CASE Decide(m, "forwarded", None)
    BY <1>2, DecideMoves
  <1> QED BY <1>1, <1>2 DEF Through

LEMMA AnswererIs ==
    ASSUME PluginsTypeOK, NEW m \in Messages
    PROVE  Answerer(m) \in Plugins \cup {"runtime", "unknown"}
  <1>1. Declarers(m) \subseteq Plugins
    BY DEF Declarers, PluginsTypeOK, Range
  <1> QED BY <1>1 DEF Answerer

LEMMA PluginsTypeStep ==
    ASSUME PluginsTypeOK, [PluginsNext]_pluginsVars
    PROVE  PluginsTypeOK'
  <1> USE DEF startup, ends
  <1>1. CASE SetUpSurface
    <2>1. Head(todo) \in Plugins /\ Tail(todo) \in Seq(Plugins)
      BY <1>1, EmptySeq DEF SetUpSurface, PluginsTypeOK
    <2>2. Append(resolved, Head(todo)) \in Seq(Plugins)
      BY <2>1 DEF PluginsTypeOK
    <2>3. todo' \in Seq(Plugins) /\ resolved' \in Seq(Plugins) /\ conflicts' \subseteq Plugins
      BY <1>1, <2>1, <2>2 DEF SetUpSurface, PluginsTypeOK
    <2> QED BY <1>1, <2>3 DEF SetUpSurface, PluginsTypeOK
  <1>2. CASE CompileSurfaces
    <2>1. todo' \in Seq(Plugins)
      BY <1>2, OrderSorted DEF CompileSurfaces
    <2>2. conflicts' \subseteq Plugins
      BY <1>2 DEF CompileSurfaces, PluginsTypeOK, Overruled, Range
    <2>3. stage' \in Stages /\ merged' \in [header : Somebody, part : Somebody]
      BY <1>2, FirstClaimIs DEF CompileSurfaces, Stages
    <2> QED BY <1>2, <2>1, <2>2, <2>3 DEF CompileSurfaces, PluginsTypeOK
  <1>c. CASE CompileThrows
    <2>1. stage' \in Stages /\ reaped' \in Stages \cup {"no"}
      BY <1>c DEF CompileThrows, PluginsTypeOK, Stages
    <2> QED BY <1>c, <2>1 DEF CompileThrows, PluginsTypeOK
  <1>3. CASE SetUpPlugin
    <2>1. Head(todo) \in Plugins /\ Tail(todo) \in Seq(Plugins)
      BY <1>3, EmptySeq DEF SetUpPlugin, PluginsTypeOK
    <2>2. Append(installed, Head(todo)) \in Seq(Plugins)
      BY <2>1 DEF PluginsTypeOK
    <2>3. todo' \in Seq(Plugins) /\ installed' \in Seq(Plugins) /\ failed' \subseteq Plugins
      BY <1>3, <2>1, <2>2 DEF SetUpPlugin, PluginsTypeOK
    <2> QED BY <1>3, <2>3 DEF SetUpPlugin, PluginsTypeOK
  <1>4. CASE InstallEnds
    <2>1. stage' \in Stages /\ todo' \in Seq(Plugins) /\ reaped' \in Stages \cup {"no"}
      BY <1>4 DEF InstallEnds, PluginsTypeOK, Stages
    <2>2. UNCHANGED <<ending, ended, warned>>
      BY <1>4 DEF InstallEnds
    <2> QED BY <1>4, <2>1, <2>2 DEF InstallEnds, PluginsTypeOK
  <1>5. CASE SessionStart
    <2>1. todo # <<>> => Head(todo) \in Plugins /\ Tail(todo) \in Seq(Plugins)
      BY EmptySeq DEF PluginsTypeOK
    <2>2. stage' \in Stages /\ todo' \in Seq(Plugins) /\ started' \subseteq Plugins
      BY <1>5, <2>1 DEF SessionStart, PluginsTypeOK, Stages
    <2> QED BY <1>5, <2>2 DEF SessionStart, PluginsTypeOK
  <1>6. CASE ReapPipeline
    <2>1. ending' \in Seq(Plugins) /\ reaped' \in Stages \cup {"no"}
      BY <1>6 DEF ReapPipeline, PluginsTypeOK
    <2> QED BY <1>6, <2>1 DEF ReapPipeline, PluginsTypeOK
  <1>7. CASE SessionEnd
    <2>1. Head(ending) \in Plugins /\ Tail(ending) \in Seq(Plugins)
      BY <1>7, EmptySeq DEF SessionEnd, PluginsTypeOK
    <2>2. ending' \in Seq(Plugins) /\ ended' \subseteq Plugins /\ entries' \in Seq(Messages)
      BY <1>7, <2>1 DEF SessionEnd, PluginsTypeOK
    <2> QED BY <1>7, <2>2 DEF SessionEnd, PluginsTypeOK
  <1>8. CASE Summary
    <2>1. warned' \subseteq Plugins
      BY <1>8 DEF Summary, PluginsTypeOK, Range
    <2> QED BY <1>8, <2>1 DEF Summary, PluginsTypeOK
  <1>9. ASSUME NEW m \in Messages, Enter(m) \/ Leave(m) \/ Through(m)
        PROVE  PluginsTypeOK'
    <2> DEFINE to(r) == msg' = [msg EXCEPT ![m] = r]
    <2>0. msg[m] \in MsgType /\ msg \in [Messages -> MsgType]
      BY DEF PluginsTypeOK
    <2>1. \A r \in MsgType : to(r) => msg' \in [Messages -> MsgType]
      BY <2>0
    <2> HIDE DEF to
    <2>2. CASE Enter(m)
      <3>1. PICK i \in NextAt(m) : /\ installed[i] \in Plugins /\ i \in Nat
              /\ to([at |-> "in", pos |-> i, hook |-> installed[i], method |-> msg[m].method,
              out |-> msg[m].out, by |-> msg[m].by])
        BY <2>2, EnterMoves DEF to
      <3>2. [at |-> "in", pos |-> i, hook |-> installed[i], method |-> msg[m].method,
              out |-> msg[m].out, by |-> msg[m].by] \in MsgType
        BY <2>0, <3>1 DEF MsgType, Somebody
      <3>3. msg' \in [Messages -> MsgType]
        BY <2>1, <3>1, <3>2
      <3>4. entries' \in Seq(Messages)
        <4>1. PICK p : Record(p, m)
          BY <2>2 DEF Enter
        <4>2. PICK all : all = Append(entries, m)
          OBVIOUS
        <4>3. all \in Seq(Messages) /\ all # <<>>
          <5>1. entries \in Seq(Messages)
            BY DEF PluginsTypeOK
          <5> QED BY <4>2, <5>1, AppendProperties
        <4>4. Tail(all) \in Seq(Messages)
          BY <4>3
        <4> QED BY <4>1, <4>2, <4>3, <4>4 DEF Record, PluginsTypeOK
      <3> QED BY <2>2, <3>3, <3>4 DEF Enter, PluginsTypeOK
    <2>3. CASE Leave(m)
      <3>1. msg[m].hook \in Plugins
        BY <2>0, <2>3 DEF Leave, MsgType, Somebody
      <3>2. \E r \in MsgType : to(r)
        <4>1. ASSUME NEW method \in {msg[m].method} \cup Rewrites[msg[m].hook]
              PROVE  [at |-> msg[m].at, pos |-> msg[m].pos, hook |-> None, method |-> method,
                      out |-> msg[m].out, by |-> msg[m].by] \in MsgType
          <5>1. method \in Methods
            BY <2>0, <3>1, <4>1 DEF MsgType, Methods
          <5> QED BY <2>0, <5>1 DEF MsgType, Somebody
        <4>2. [at |-> "done", pos |-> msg[m].pos, hook |-> None, method |-> msg[m].method,
              out |-> "decided", by |-> msg[m].hook] \in MsgType
          BY <2>0, <3>1 DEF MsgType, Somebody
        <4> QED BY <2>3, <4>1, <4>2, LeaveMoves DEF to
      <3>3. msg' \in [Messages -> MsgType]
        BY <2>1, <3>2
      <3>4. ran' \subseteq Plugins
        BY <2>3, <3>1 DEF Leave, PluginsTypeOK
      <3> QED BY <2>3, <3>3, <3>4 DEF Leave, PluginsTypeOK
    <2>4. CASE Through(m)
      <3>1. \E r \in MsgType : to(r)
        <4>1. [at |-> "done", pos |-> msg[m].pos, hook |-> None, method |-> msg[m].method,
              out |-> "answered", by |-> Answerer(m)] \in MsgType
          BY <2>0, AnswererIs DEF MsgType, Somebody
        <4>2. [at |-> "done", pos |-> msg[m].pos, hook |-> None, method |-> msg[m].method,
              out |-> "forwarded", by |-> None] \in MsgType
          BY <2>0 DEF MsgType, Somebody
        <4> QED BY <2>4, <4>1, <4>2, ThroughMoves DEF to
      <3>2. msg' \in [Messages -> MsgType]
        BY <2>1, <3>1
      <3> QED BY <2>4, <3>2 DEF Through, PluginsTypeOK
    <2> QED BY <1>9, <2>2, <2>3, <2>4
  <1>10. CASE UNCHANGED pluginsVars
    BY <1>10 DEF pluginsVars, PluginsTypeOK
  <1> QED BY <1>1, <1>2, <1>c, <1>3, <1>4, <1>5, <1>6, <1>7, <1>8, <1>9, <1>10 DEF PluginsNext, Start

LEMMA SetUpStep ==
    ASSUME PluginsTypeOK, PluginsTypeOK', SetUp, [PluginsNext]_pluginsVars
    PROVE  SetUp'
  <1> USE DEF startup, ends
  <1>0. stage \in Stages /\ stage' \in Stages
    BY DEF PluginsTypeOK
  <1>1. CASE SetUpSurface
    <2>1. /\ Sorted(resolved) /\ Sorted(installed) /\ Sorted(todo) /\ Ahead(resolved, todo) /\ installed = <<>>
          /\ Of("surface") \subseteq Range(resolved) \cup conflicts \cup Range(todo)
          /\ stage = "surfaces" /\ stage' = "surfaces" /\ todo # <<>> /\ installed' = installed /\ todo' = Tail(todo)
      BY <1>1 DEF SetUpSurface, SetUp, Compiling
    <2>2. resolved \in Seq(Plugins) /\ todo \in Seq(Plugins)
      BY DEF PluginsTypeOK
    <2>3. /\ Range(todo) = {Head(todo)} \cup Range(Tail(todo))
          /\ Range(Append(resolved, Head(todo))) = Range(resolved) \cup {Head(todo)}
          /\ Sorted(Tail(todo)) /\ Sorted(Append(resolved, Head(todo)))
          /\ Ahead(resolved, Tail(todo)) /\ Ahead(Append(resolved, Head(todo)), Tail(todo))
      BY <2>1, <2>2, TakenInOrder
    <2>4. Sorted(resolved') /\ Ahead(resolved', todo') /\ Sorted(todo') /\ Sorted(installed') /\ installed' = <<>>
      BY <1>1, <2>1, <2>3 DEF SetUpSurface
    <2>5. Of("surface") \subseteq Range(resolved') \cup conflicts' \cup Range(todo')
      BY <1>1, <2>1, <2>3 DEF SetUpSurface
    <2> QED BY <2>1, <2>4, <2>5 DEF SetUp, Compiling
  <1>2. CASE CompileSurfaces
    <2>1. /\ Sorted(resolved) /\ installed = <<>> /\ Range(todo) = {} /\ stage' = "protocol"
          /\ Of("surface") \subseteq Range(resolved) \cup conflicts \cup Range(todo)
          /\ resolved' = resolved /\ installed' = installed
      BY <1>2 DEF CompileSurfaces, SetUp, Compiling, Range
    <2>2. Sorted(todo') /\ Range(todo') = Of("protocol")
      BY <1>2, OrderSorted DEF CompileSurfaces
    <2>3. Sorted(resolved') /\ Sorted(installed') /\ Ahead(installed', todo')
      BY <2>1 DEF Sorted, Ahead
    <2>4. Compiled'
      <3>1. FirstClaim("header")' = FirstClaim("header") /\ FirstClaim("part")' = FirstClaim("part")
        BY <2>1 DEF FirstClaim
      <3>2. Overruled("header")' = Overruled("header") /\ Overruled("part")' = Overruled("part")
        BY <2>1, <3>1 DEF Overruled
      <3>3. /\ merged' = [header |-> FirstClaim("header"), part |-> FirstClaim("part")]
            /\ conflicts' = conflicts \cup Overruled("header") \cup Overruled("part")
        BY <1>2 DEF CompileSurfaces
      <3>4. Of("surface") \subseteq Range(resolved') \cup conflicts'
        BY <2>1, <3>3
      <3> QED BY <3>1, <3>2, <3>3, <3>4 DEF Compiled
    <2> QED BY <2>1, <2>2, <2>3, <2>4 DEF SetUp, Installing
  <1>c. CASE CompileThrows
    <2>1. Sorted(resolved) /\ Sorted(installed) /\ resolved' = resolved /\ installed' = installed /\ stage' = "failed"
      BY <1>c DEF CompileThrows, SetUp
    <2>2. Sorted(resolved') /\ Sorted(installed')
      BY <2>1
    <2> QED BY <2>1, <2>2 DEF SetUp
  <1>3. ASSUME stage \notin {"surfaces", "failed"}, UNCHANGED <<resolved, merged, conflicts>>
        PROVE  Compiled' /\ Sorted(resolved')
    <2>1. Compiled /\ Sorted(resolved) /\ resolved' = resolved /\ merged' = merged /\ conflicts' = conflicts
      BY <1>3 DEF SetUp
    <2>2. FirstClaim("header")' = FirstClaim("header") /\ FirstClaim("part")' = FirstClaim("part")
      BY <2>1 DEF FirstClaim
    <2>3. Overruled("header")' = Overruled("header") /\ Overruled("part")' = Overruled("part")
      BY <2>1, <2>2 DEF Overruled
    <2>4. Sorted(resolved')
      BY <2>1
    <2>5. Compiled'
      BY <2>1, <2>2, <2>3 DEF Compiled
    <2> QED BY <2>4, <2>5
  <1>4. CASE SetUpPlugin
    <2>1. /\ Sorted(installed) /\ Sorted(todo) /\ Ahead(installed, todo)
          /\ Of("protocol") \subseteq Range(installed) \cup failed \cup Spare \cup Range(todo)
          /\ stage = "protocol" /\ stage' = "protocol" /\ todo # <<>> /\ todo' = Tail(todo)
      BY <1>4 DEF SetUpPlugin, SetUp, Installing
    <2>2. installed \in Seq(Plugins) /\ todo \in Seq(Plugins)
      BY DEF PluginsTypeOK
    <2>3. /\ Range(todo) = {Head(todo)} \cup Range(Tail(todo))
          /\ Range(Append(installed, Head(todo))) = Range(installed) \cup {Head(todo)}
          /\ Sorted(Tail(todo)) /\ Sorted(Append(installed, Head(todo)))
          /\ Ahead(installed, Tail(todo)) /\ Ahead(Append(installed, Head(todo)), Tail(todo))
      BY <2>1, <2>2, TakenInOrder
    <2>4. Sorted(installed') /\ Ahead(installed', todo') /\ Sorted(todo')
      BY <1>4, <2>1, <2>3 DEF SetUpPlugin
    <2>5. Of("protocol") \subseteq Range(installed') \cup failed' \cup Spare \cup Range(todo')
      <3>1. CASE installed' = Append(installed, Head(todo)) /\ failed' = failed
        BY <2>1, <2>3, <3>1
      <3>2. CASE /\ failed' = IF Head(todo) \in Optional /\ Pinned[Head(todo)] = "no" THEN failed ELSE failed \cup {Head(todo)}
                 /\ installed' = installed
        BY <2>1, <2>3, <3>2 DEF Spare
      <3> QED BY <1>4, <3>1, <3>2 DEF SetUpPlugin
    <2>6. Compiled' /\ Sorted(resolved')
      BY <1>3, <1>4, <2>1 DEF SetUpPlugin
    <2> QED BY <2>1, <2>4, <2>5, <2>6 DEF SetUp, Installing
  <1>5. CASE InstallEnds
    <2>1. /\ Sorted(installed) /\ installed' = installed /\ failed' = failed /\ Range(todo) = {}
          /\ Of("protocol") \subseteq Range(installed) \cup failed \cup Spare \cup Range(todo)
          /\ stage = "protocol" /\ UNCHANGED <<resolved, merged, conflicts>>
      BY <1>5 DEF InstallEnds, SetUp, Installing, Range
    <2>2. stage' \in {"failed", "starting"} /\ (stage' = "starting" => failed = {} /\ ~Clash)
      BY <1>5 DEF InstallEnds
    <2>3. Clash' = Clash
      BY <2>1 DEF Clash
    <2>4. stage' = "starting" => Installed'
      BY <2>1, <2>2, <2>3 DEF Installed
    <2>5. Compiled' /\ Sorted(resolved')
      BY <1>3, <2>1, <2>2
    <2>6. Sorted(installed')
      BY <2>1
    <2> QED BY <2>2, <2>4, <2>5, <2>6 DEF SetUp
  <1>6. CASE SessionStart
    <2>1. /\ Sorted(installed) /\ installed' = installed /\ Installed
          /\ stage = "starting" /\ UNCHANGED <<resolved, merged, conflicts>> /\ stage' \in {"starting", "running"}
      BY <1>6 DEF SessionStart, SetUp
    <2>2. Installed'
      BY <2>1 DEF Installed, Clash
    <2>3. Compiled' /\ Sorted(resolved')
      BY <1>3, <2>1
    <2>4. Sorted(installed')
      BY <2>1
    <2> QED BY <2>1, <2>2, <2>3, <2>4 DEF SetUp
  <1>7. CASE UNCHANGED startup
    <2>1. Compiling' = Compiling /\ Installing' = Installing
      BY <1>7 DEF Compiling, Installing, Sorted, Ahead
    <2>2. Installed' = Installed /\ Sorted(resolved') = Sorted(resolved) /\ Sorted(installed') = Sorted(installed)
      BY <1>7 DEF Installed, Clash
    <2>3. FirstClaim("header")' = FirstClaim("header") /\ FirstClaim("part")' = FirstClaim("part")
      BY <1>7 DEF FirstClaim
    <2>4. Compiled' = Compiled
      BY <1>7, <2>3 DEF Compiled, Overruled
    <2> QED BY <1>7, <2>1, <2>2, <2>4 DEF SetUp
  <1>8. ReapPipeline \/ SessionEnd \/ Summary => UNCHANGED startup
    BY DEF ReapPipeline, SessionEnd, Summary
  <1>9. \A m \in Messages : Enter(m) \/ Leave(m) \/ Through(m) => UNCHANGED startup
    BY DEF Enter, Leave, Through
  <1>10. UNCHANGED pluginsVars => UNCHANGED startup
    BY DEF pluginsVars
  <1> QED BY <1>1, <1>2, <1>c, <1>4, <1>5, <1>6, <1>7, <1>8, <1>9, <1>10 DEF PluginsNext, Start

(* A message that does not move passes as before: either it has not come   *)
(* yet, or the pipeline is what it was.                                    *)
LEMMA StaysPassing ==
    ASSUME PluginsTypeOK, NEW m \in Messages, Passes(m), msg'[m] = msg[m], ran \subseteq ran',
           \/ stage \notin {"starting", "running"} /\ installed' \in Seq(Plugins)
           \/ installed' = installed /\ stage' \in {"starting", "running"}
           \/ installed' = installed /\ stage' = stage
    PROVE  Passes(m)'
  <1>1. CASE stage \notin {"starting", "running"} /\ installed' \in Seq(Plugins)
    <2>1. msg[m] \in MsgType
      BY DEF PluginsTypeOK
    <2>2. msg'[m].at = "new" /\ msg'[m].pos = 0 /\ msg'[m].hook = None /\ msg'[m].out = None
      BY <1>1 DEF Passes
    <2>3. \A i \in Hears(m)' : i \in Nat /\ i > 0
      BY <1>1 DEF Hears
    <2>4. \A i \in Hears(m)' : ~(i < 0) /\ i # 0
      BY <2>3
    <2> QED BY <2>2, <2>4, PluginsAssumption DEF Passes
  <1>2. CASE installed' = installed /\ (stage' \in {"starting", "running"} \/ stage' = stage)
    <2>1. Hears(m)' = Hears(m)
      BY <1>2 DEF Hears
    <2>2. /\ msg'[m].at # "new" => stage' \in {"starting", "running"}
          /\ msg'[m].at = "new" => msg'[m].pos = 0 /\ msg'[m].hook = None /\ msg'[m].out = None
          /\ msg'[m].hook # None =>
              msg'[m].at = "in" /\ msg'[m].pos \in Hears(m) /\ msg'[m].hook = installed[msg'[m].pos]
          /\ msg'[m].pos > 0 => \E i \in Hears(m) : i <= msg'[m].pos /\ \A j \in Hears(m) : i <= j
      BY <1>2 DEF Passes
    <2>3. \A i \in Hears(m) :
            i < msg'[m].pos \/ (i = msg'[m].pos /\ msg'[m].hook = None) => installed[i] \in ran'
      BY DEF Passes
    <2> QED BY <1>2, <2>1, <2>2, <2>3 DEF Passes
  <1> QED BY <1>1, <1>2

LEMMA EnterPasses ==
    ASSUME PluginsTypeOK, NEW m \in Messages, Passes(m), Enter(m)
    PROVE  Passes(m)'
  <1>1. PICK i \in NextAt(m) :
            /\ \A j \in NextAt(m) : i <= j
            /\ installed[i] \in Plugins /\ i \in Nat
            /\ msg' = [msg EXCEPT ![m] = [at |-> "in", pos |-> i, hook |-> installed[i],
                                          method |-> msg[m].method,
                                          out |-> msg[m].out, by |-> msg[m].by]]
    BY EnterMoves
  <1>2. msg[m] \in MsgType /\ msg \in [Messages -> MsgType]
    BY DEF PluginsTypeOK
  <1>3. PICK r : r = msg[m]
    OBVIOUS
  <1>4. r.pos \in Nat /\ r.hook = None /\ r.out \in {None, "decided", "answered", "forwarded"}
    BY <1>2, <1>3 DEF Enter, MsgType
  <1>5. msg'[m] = [at |-> "in", pos |-> i, hook |-> installed[i], method |-> r.method,
                out |-> r.out, by |-> r.by]
    BY <1>1, <1>2, <1>3
  <1>6. installed' = installed /\ ran' = ran /\ stage' = stage
    BY DEF Enter, startup
  <1>7. Hears(m)' = Hears(m)
    BY <1>6 DEF Hears
  <1>8. i \in Hears(m) /\ i > r.pos /\ \A j \in Hears(m) : j > r.pos => i <= j
    BY <1>1, <1>3 DEF NextAt, Hears
  <1>9. Hears(m) \subseteq Nat
    BY DEF Hears, PluginsTypeOK
  <1>10. stage \in {"starting", "running"}
    BY DEF Enter, Admitted, Passes
  <1>11. \E k \in Hears(m) : k <= i /\ \A j \in Hears(m) : k <= j
    <2>1. CASE r.pos > 0
      <3>1. PICK k \in Hears(m) : k <= r.pos /\ \A j \in Hears(m) : k <= j
        BY <1>3, <2>1 DEF Passes
      <3> QED BY <1>4, <1>8, <1>9, <3>1
    <2>2. CASE r.pos = 0
      <3>1. \A j \in Hears(m) : j > 0
        BY DEF Hears, PluginsTypeOK
      <3>2. \A j \in Hears(m) : i <= j
        BY <1>8, <2>2, <3>1
      <3> QED BY <1>1, <1>8, <3>2
    <2> QED BY <1>4, <2>1, <2>2
  <1>12. \A j \in Hears(m) : j < i => installed[j] \in ran
    <2> SUFFICES ASSUME NEW j \in Hears(m), j < i
                 PROVE  installed[j] \in ran
      OBVIOUS
    <2>1. j < r.pos \/ j = r.pos
      BY <1>1, <1>4, <1>8, <1>9
    <2>2. j < msg[m].pos \/ (j = msg[m].pos /\ msg[m].hook = None)
      BY <1>3, <1>4, <2>1
    <2> QED BY <2>2 DEF Passes
  <1>13. installed[i] # None
    BY <1>1, PluginsAssumption
  <1>14. PICK q : q = msg'[m]
    OBVIOUS
  <1>15. q.at = "in" /\ q.pos = i /\ q.hook = installed[i]
    BY <1>5, <1>14
  <1>16. /\ q.at # "new" => stage \in {"starting", "running"}
         /\ q.at = "new" => q.pos = 0 /\ q.hook = None /\ q.out = None
         /\ q.hook # None => q.at = "in" /\ q.pos \in Hears(m) /\ q.hook = installed[q.pos]
         /\ q.pos > 0 => \E k \in Hears(m) : k <= q.pos /\ \A j \in Hears(m) : k <= j
    BY <1>8, <1>10, <1>11, <1>15
  <1>17. \A j \in Hears(m) : j < q.pos \/ (j = q.pos /\ q.hook = None) => installed[j] \in ran
    BY <1>12, <1>13, <1>15
  <1> QED BY <1>6, <1>7, <1>14, <1>16, <1>17 DEF Passes

LEMMA LeavePasses ==
    ASSUME PluginsTypeOK, NEW m \in Messages, Passes(m), Leave(m)
    PROVE  Passes(m)'
  <1>1. msg[m] \in MsgType /\ msg \in [Messages -> MsgType]
    BY DEF PluginsTypeOK
  <1>2. PICK r : r = msg[m]
    OBVIOUS
  <1>3. PICK q : q = msg'[m]
    OBVIOUS
  <1>4. /\ q.pos = r.pos /\ q.hook = None /\ q.at # "new"
    <2>1. r.at = "in"
      BY <1>2 DEF Leave, Passes
    <2>2. \/ \E method : q = [at |-> r.at, pos |-> r.pos, hook |-> None, method |-> method,
                               out |-> r.out, by |-> r.by]
          \/ q = [at |-> "done", pos |-> r.pos, hook |-> None, method |-> r.method,
                  out |-> "decided", by |-> r.hook]
      BY <1>1, <1>2, <1>3, LeaveMoves
    <2> QED BY <2>1, <2>2
  <1>5. installed' = installed /\ stage' = stage /\ ran' = ran \cup {r.hook} /\ r.hook # None
    BY <1>2 DEF Leave, startup
  <1>6. Hears(m)' = Hears(m)
    BY <1>5 DEF Hears
  <1>7. r.at = "in" /\ r.pos \in Hears(m) /\ r.hook = installed[r.pos] /\ stage \in {"starting", "running"}
    BY <1>2, <1>5 DEF Passes
  <1>8. /\ r.pos > 0 => \E i \in Hears(m) : i <= r.pos /\ \A j \in Hears(m) : i <= j
        /\ \A i \in Hears(m) : i < r.pos => installed[i] \in ran
    BY <1>2 DEF Passes
  <1>9. \A i \in Hears(m) : i < q.pos \/ (i = q.pos /\ q.hook = None) => installed[i] \in ran'
    BY <1>4, <1>5, <1>7, <1>8
  <1>10. q.pos > 0 => \E i \in Hears(m) : i <= q.pos /\ \A j \in Hears(m) : i <= j
    BY <1>4, <1>8
  <1> QED BY <1>3, <1>4, <1>5, <1>6, <1>7, <1>9, <1>10 DEF Passes

LEMMA ThroughPasses ==
    ASSUME PluginsTypeOK, NEW m \in Messages, Passes(m), Through(m)
    PROVE  Passes(m)'
  <1>1. msg[m] \in MsgType /\ msg \in [Messages -> MsgType]
    BY DEF PluginsTypeOK
  <1>2. PICK r : r = msg[m]
    OBVIOUS
  <1>3. PICK q : q = msg'[m]
    OBVIOUS
  <1>4. /\ q.pos = r.pos /\ q.hook = None /\ q.at = "done"
    <2>1. \/ q = [at |-> "done", pos |-> r.pos, hook |-> None, method |-> r.method,
                  out |-> "answered", by |-> Answerer(m)]
          \/ q = [at |-> "done", pos |-> r.pos, hook |-> None, method |-> r.method,
                  out |-> "forwarded", by |-> None]
      BY <1>1, <1>2, <1>3, ThroughMoves
    <2> QED BY <2>1
  <1>5. installed' = installed /\ stage' = stage /\ ran' = ran /\ r.hook = None
    BY <1>2 DEF Through, startup
  <1>6. Hears(m)' = Hears(m)
    BY <1>5 DEF Hears
  <1>7. stage \in {"starting", "running"}
    BY DEF Through, Admitted, Passes
  <1>8. /\ r.pos > 0 => \E i \in Hears(m) : i <= r.pos /\ \A j \in Hears(m) : i <= j
        /\ \A i \in Hears(m) : i < r.pos \/ i = r.pos => installed[i] \in ran
    BY <1>2, <1>5 DEF Passes
  <1>9. \A i \in Hears(m) : i < q.pos \/ (i = q.pos /\ q.hook = None) => installed[i] \in ran'
    BY <1>4, <1>5, <1>8
  <1>10. q.pos > 0 => \E i \in Hears(m) : i <= q.pos /\ \A j \in Hears(m) : i <= j
    BY <1>4, <1>8
  <1> QED BY <1>3, <1>4, <1>5, <1>6, <1>7, <1>9, <1>10 DEF Passes

LEMMA PassingStep ==
    ASSUME PluginsTypeOK, PluginsTypeOK', Passing, [PluginsNext]_pluginsVars
    PROVE  Passing'
  <1> USE DEF startup, ends
  <1> SUFFICES ASSUME NEW n \in Messages
               PROVE  Passes(n)'
    BY DEF Passing
  <1>1. Passes(n)
    BY DEF Passing
  <1>2. installed' \in Seq(Plugins)
    BY DEF PluginsTypeOK
  <1>3. CASE Start
    <2>1. msg' = msg /\ ran' = ran
      BY <1>3 DEF Start, SetUpSurface, CompileSurfaces, CompileThrows, SetUpPlugin, InstallEnds, SessionStart
    <2>2. \/ stage \notin {"starting", "running"}
          \/ installed' = installed /\ stage' \in {"starting", "running"}
      BY <1>3 DEF Start, SetUpSurface, CompileSurfaces, CompileThrows, SetUpPlugin, InstallEnds, SessionStart
    <2> QED BY <1>1, <1>2, <2>1, <2>2, StaysPassing
  <1>4. CASE ReapPipeline \/ SessionEnd \/ Summary \/ UNCHANGED pluginsVars
    <2>1. msg' = msg /\ ran' = ran /\ installed' = installed /\ stage' = stage
      BY <1>4 DEF ReapPipeline, SessionEnd, Summary, pluginsVars
    <2> QED BY <1>1, <2>1, StaysPassing
  <1>5. ASSUME NEW m \in Messages, Enter(m) \/ Leave(m) \/ Through(m)
        PROVE  Passes(n)'
    <2>1. CASE n = m
      BY <1>1, <1>5, <2>1, EnterPasses, LeavePasses, ThroughPasses
    <2>2. CASE n # m
      <3>1. msg'[n] = msg[n]
        <4>1. msg \in [Messages -> MsgType]
          BY DEF PluginsTypeOK
        <4>2. \E r : msg' = [msg EXCEPT ![m] = r]
          BY <1>5, EnterMoves, LeaveMoves, ThroughMoves
        <4> QED BY <2>2, <4>1, <4>2
      <3>2. installed' = installed /\ stage' = stage /\ ran \subseteq ran'
        BY <1>5 DEF Enter, Leave, Through
      <3> QED BY <1>1, <3>1, <3>2, StaysPassing
    <2> QED BY <2>1, <2>2
  <1> QED BY <1>3, <1>4, <1>5 DEF PluginsNext

LEMMA PluginsInvariance == PluginsSpec => []PInv
  <1>1. PluginsInit => PInv
    BY PluginsBegin
  <1>2. PInv /\ [PluginsNext]_pluginsVars => PInv'
    <2> SUFFICES ASSUME PInv, [PluginsNext]_pluginsVars
                 PROVE  PInv'
      OBVIOUS
    <2>1. PluginsTypeOK'
      BY PluginsTypeStep DEF PInv
    <2> QED BY <2>1, SetUpStep, PassingStep DEF PInv
  <1> QED BY <1>1, <1>2, PTL DEF PluginsSpec
-----------------------------------------------------------------------------
(* The state of a connection's plugins has its type: what is installed,    *)
(* told and counted are plugins of the caller's list, a message is in a    *)
(* hook of one of them or of none, and an outcome names who gave it.       *)
THEOREM PluginsTypes == PluginsSpec => []PluginsTypeOK
  BY PluginsInvariance, PTL DEF PInv

(* No message passes a session that lacks a protocol plugin it needs, has  *)
(* two that declare one method, or lost a surface without a word; and the  *)
(* header and the display are those of the first surface that claims them. *)
THEOREM WholeBeforeTraffic == PluginsSpec => []SessionIsWhole
  <1>1. PInv => SessionIsWhole
    <2> SUFFICES ASSUME PInv, NEW m \in Messages, msg[m].at # "new"
                 PROVE
        /\ ~Clash
        /\ \A p \in Plugins :
            IF Kind[p] = "protocol" THEN p \in Range(installed) \cup {q \in Optional : Pinned[q] = "no"}
            ELSE p \in Range(resolved) \cup conflicts
        /\ \A s \in Range(resolved) \ conflicts :
            /\ Claims[s].part # None => s = merged.part
            /\ Claims[s].header # None => Claims[s].header = Claims[merged.header].header
        /\ \A s \in Range(resolved), what \in {"part", "header"} :
            Claims[s][what] # None => s = merged[what] \/ Before(merged[what], s)
      BY DEF SessionIsWhole
    <2>1. stage \in {"starting", "running"}
      BY DEF PInv, Passing, Passes
    <2>2. Installed /\ Compiled /\ Sorted(resolved)
      BY <2>1 DEF PInv, SetUp
    <2>3. ASSUME NEW p \in Plugins
          PROVE  IF Kind[p] = "protocol" THEN p \in Range(installed) \cup {q \in Optional : Pinned[q] = "no"}
                 ELSE p \in Range(resolved) \cup conflicts
      <3>1. Kind[p] \in {"surface", "protocol"}
        BY PluginsAssumption
      <3>2. p \in Of(Kind[p])
        BY DEF Of
      <3> QED BY <2>2, <3>1, <3>2 DEF Installed, Compiled, Spare
    <2>4. merged.header = FirstClaim("header") /\ merged.part = FirstClaim("part")
      BY <2>2 DEF Compiled
    <2>5. ASSUME NEW s \in Range(resolved) \ conflicts
          PROVE  /\ Claims[s].part # None => s = merged.part
                 /\ Claims[s].header # None => Claims[s].header = Claims[merged.header].header
      <3>1. s \notin Overruled("header") /\ s \notin Overruled("part")
        BY <2>2, <2>5 DEF Compiled
      <3>2. s = FirstClaim("part") \/ Claims[s].part = None
        BY <2>5, <3>1 DEF Overruled
      <3>3. s = FirstClaim("header") \/ Claims[s].header = None
              \/ Claims[s].header = Claims[FirstClaim("header")].header
        BY <2>5, <3>1 DEF Overruled
      <3> QED BY <2>4, <3>2, <3>3
    <2>6. ASSUME NEW s \in Range(resolved), NEW what \in {"part", "header"}, Claims[s][what] # None
          PROVE  s = merged[what] \/ Before(merged[what], s)
      <3>1. merged[what] = FirstClaim(what)
        BY <2>4
      <3>2. PICK i \in DOMAIN resolved : s = resolved[i]
        BY DEF Range
      <3>3. PICK k \in DOMAIN resolved : k <= i /\ FirstClaim(what) = resolved[k]
        BY <2>6, <3>2, FirstClaimIs DEF PInv
      <3>4. i \in Nat /\ k \in Nat
        BY DEF PInv, PluginsTypeOK
      <3>5. CASE k = i
        BY <3>1, <3>2, <3>3, <3>5
      <3>6. CASE k < i
        BY <2>2, <3>1, <3>2, <3>3, <3>6 DEF Sorted
      <3> QED BY <3>3, <3>4, <3>5, <3>6
    <2> QED BY <2>2, <2>3, <2>5, <2>6 DEF Installed
  <1> QED BY <1>1, PluginsInvariance, PTL

(* On any message a plugin pinned first that hears it has run, or another  *)
(* one pinned first has, before any plugin that is not: core is never      *)
(* passed, whatever priority a plugin asks for.                            *)
THEOREM CoreIsNeverPassed == PluginsSpec => []CoreRunsFirst
  <1>1. PInv => CoreRunsFirst
    <2> SUFFICES ASSUME PInv, NEW m \in Messages, NEW c \in Range(installed),
                        Pinned[c] = "first", Listens(c, m), msg[m].pos > 0
                 PROVE  \E i \in 1 .. msg[m].pos : Pinned[installed[i]] = "first"
      BY DEF CoreRunsFirst
    <2>1. installed \in Seq(Plugins) /\ msg[m].pos \in Nat /\ Sorted(installed)
      BY DEF PInv, PluginsTypeOK, SetUp, MsgType
    <2>2. PICK i \in Hears(m) : i <= msg[m].pos /\ \A j \in Hears(m) : i <= j
      BY DEF PInv, Passing, Passes
    <2>3. PICK k \in DOMAIN installed : installed[k] = c
      BY DEF Range
    <2>4. k \in Hears(m) /\ i \in DOMAIN installed /\ i <= k
      BY <2>2, <2>3 DEF Hears
    <2>5. i \in Nat /\ k \in Nat /\ i > 0
      BY <2>1, <2>4
    <2>6. Pinned[installed[i]] = "first"
      <3>1. CASE i = k
        BY <2>3, <3>1
      <3>2. CASE i < k
        <4>1. Before(installed[i], c)
          BY <2>1, <2>3, <2>4, <3>2 DEF Sorted
        <4>2. Rank(c) = 2
          BY DEF Rank
        <4>3. Rank(installed[i]) >= 2
          <5>1. Rank(installed[i]) \in {0, 1, 2}
            BY DEF Rank
          <5> QED BY <4>1, <4>2, <5>1 DEF Before
        <4> QED BY <4>3 DEF Rank
      <3> QED BY <2>4, <2>5, <3>1, <3>2
    <2> QED BY <2>1, <2>2, <2>5, <2>6
  <1> QED BY <1>1, PluginsInvariance, PTL

(* A plugin of which the summary says that no hook of it ever ran has not  *)
(* returned from one.                                                      *)
THEOREM NeverRanIsTrue == PluginsSpec => IdleIsTrue
  <1>1. PInv /\ [PluginsNext]_pluginsVars
          => [\A p \in warned' \ warned, m \in Messages : ~Returned(p, m)]_pluginsVars
    <2> SUFFICES ASSUME PInv, PluginsNext, NEW p \in warned' \ warned, NEW m \in Messages
                 PROVE  ~Returned(p, m)
      OBVIOUS
    <2>1. p \notin ran
      <3>1. CASE Summary
        BY <3>1 DEF Summary
      <3>2. CASE ~Summary
        <4>1. warned' = warned
          BY <3>2 DEF PluginsNext, Start, SetUpSurface, CompileSurfaces, CompileThrows, SetUpPlugin, InstallEnds, SessionStart,
                     ReapPipeline, SessionEnd, Enter, Leave, Through, ends, startup
        <4> QED BY <4>1
      <3> QED BY <3>1, <3>2
    <2>2. msg[m].pos \in Nat /\ DOMAIN installed \subseteq Nat
      BY DEF PInv, PluginsTypeOK, MsgType
    <2>3. \A i \in Hears(m) :
            i < msg[m].pos \/ (i = msg[m].pos /\ msg[m].hook = None) => installed[i] \in ran
      BY DEF PInv, Passing, Passes
    <2>4. ASSUME NEW i \in DOMAIN installed, installed[i] = p, Listens(p, m),
                 i < msg[m].pos + (IF msg[m].hook = None THEN 1 ELSE 0)
          PROVE  FALSE
      <3>1. i \in Hears(m)
        BY <2>4 DEF Hears
      <3>2. i < msg[m].pos \/ (i = msg[m].pos /\ msg[m].hook = None)
        BY <2>2, <2>4
      <3> QED BY <2>1, <2>3, <2>4, <3>1, <3>2
    <2> QED BY <2>4 DEF Returned
  <1> QED BY <1>1, PluginsInvariance, PTL DEF PluginsSpec, IdleIsTrue
===============================================================================
