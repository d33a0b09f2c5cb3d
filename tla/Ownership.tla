------------------------------- MODULE Ownership -------------------------------
(***************************************************************************)
(* Target ownership between the connections of one browser (#claim,        *)
(* #isForeign and #reap in src/src/proxy-connection.ts; the map they share *)
(* is made by #onSocket in src/src/proxy.ts).                              *)
(*                                                                         *)
(* Chrome announces every target to every connection.  A connection claims *)
(* the browser contexts it creates, drops the targets of a context another *)
(* connection has claimed, and gives up its session to them so that it is  *)
(* not the one who keeps them paused.  Each connection reads its own copy  *)
(* of the announcements at its own pace: messages without a session wait   *)
(* in its root chain behind the hooks of earlier ones.                     *)
(*                                                                         *)
(* The browser is external.  It attaches a connection to a target at most  *)
(* once, so the pair (connection, target) stands for the session.  It says *)
(* nothing on a session no domain has been enabled on, and nobody enables  *)
(* one on a session that was hidden, so events inside sessions are left    *)
(* out.                                                                    *)
(***************************************************************************)
EXTENDS Naturals, Sequences, SequencesExt

CONSTANTS
    Connections,  \* the connections to this browser, by their connectionId
    Contexts,     \* browser context ids; Chrome never reuses one
    Targets,
    Default,      \* the browser's default context, which nobody can claim
    Nobody        \* no connection, no context

ASSUME NamesAreDistinct ==
    /\ Default \notin Contexts /\ Nobody \notin Connections
    /\ Nobody \notin Contexts \cup {Default}

VARIABLES
    conn,      \* "new", "open", "ending" while onSessionEnd runs, "closed"
    owners,    \* #contextOwners: context -> the connection that claims it
    foreign,   \* #foreignSessions of each connection
    inbox,     \* the root chain of each connection
    replies,   \* replies to the plugins of a connection, not yet read
    shown,     \* the targets whose attach a connection's client was given
    toldGone,  \* the targets whose detach it was given
    late,      \* contexts that onSessionEnd asked for
    ctx,       \* the browser: "unused", "live" or "gone"
    creator,   \* the browser: the connection that created a context
    home,      \* the browser: the context of each live or dead target
    alive,     \* the browser: "none", "live" or "gone"
    attached,  \* the browser: its sessions
    paused,    \* the browser: the sessions that hold a new target paused
    leaving    \* the browser: detachFromTarget commands on their way to it

proxy   == <<conn, owners, foreign, inbox, replies, shown, toldGone, late>>
browser == <<ctx, creator, home, alive, attached, paused, leaving>>
vars    == <<proxy, browser>>

Attach(t)   == [kind |-> "attach",   of |-> t]
Detach(t)   == [kind |-> "detach",   of |-> t]
Created(x)  == [kind |-> "created",  of |-> x]
Disposed(x) == [kind |-> "disposed", of |-> x]

Reply   == [kind : {"created", "disposed"}, of : Contexts]
Message == [kind : {"attach", "detach"}, of : Targets] \cup Reply

Init ==
    /\ conn = [d \in Connections |-> "new"]
    /\ owners = [x \in Contexts |-> Nobody]
    /\ foreign = [d \in Connections |-> {}]
    /\ inbox = [d \in Connections |-> <<>>]
    /\ replies = [d \in Connections |-> {}]
    /\ shown = [d \in Connections |-> {}]
    /\ toldGone = [d \in Connections |-> {}]
    /\ late = {}
    /\ ctx = [x \in Contexts |-> "unused"]
    /\ creator = [x \in Contexts |-> Nobody]
    /\ home = [t \in Targets |-> Nobody]
    /\ alive = [t \in Targets |-> "none"]
    /\ attached = {} /\ paused = {} /\ leaving = {}
-----------------------------------------------------------------------------
(* The browser writes the messages m[d] to each connection d.  A connection *)
(* that has been reaped reads them and returns at once.                    *)
Write(m) == inbox' = [d \in Connections |->
                        IF conn[d] = "open" THEN inbox[d] \o m[d] ELSE inbox[d]]

DetachesOf(d, T) ==
    LET mine == SetToSeq({t \in T : <<d, t>> \in attached})
    IN  [n \in DOMAIN mine |-> Detach(mine[n])]

(* The targets T are gone, and with them every session to them. *)
Without(T) == {a \in attached : a[2] \notin T}
Destroy(T) ==
    /\ alive' = [t \in Targets |-> IF t \in T THEN "gone" ELSE alive[t]]
    /\ attached' = Without(T)
    /\ paused' = paused \cap Without(T) /\ leaving' = leaving \cap Without(T)

LiveIn(X) == {t \in Targets : alive[t] = "live" /\ home[t] \in X}

(* A connection joins: its client's setAutoAttach reports what is there.   *)
Join(d) ==
    /\ conn[d] = "new"
    /\ conn' = [conn EXCEPT ![d] = "open"]
    /\ LET there == SetToSeq(LiveIn(Contexts \cup {Default}))
       IN  inbox' = [inbox EXCEPT ![d] = [n \in DOMAIN there |-> Attach(there[n])]]
    /\ attached' = attached \cup ({d} \X LiveIn(Contexts \cup {Default}))
    /\ UNCHANGED <<owners, foreign, replies, shown, toldGone, late, ctx, creator,
                   home, alive, paused, leaving>>

(* The context's creator has read the reply that names it. *)
Knows(d, x) ==
    /\ creator[x] = d /\ ctx[x] = "live"
    /\ Created(x) \notin replies[d] \cup ToSet(inbox[d])

(* Target.createBrowserContext, sent by the client: its reply queues in the *)
(* root chain.                                                             *)
ClientCreates(d, x) ==
    /\ conn[d] = "open" /\ ctx[x] = "unused"
    /\ ctx' = [ctx EXCEPT ![x] = "live"] /\ creator' = [creator EXCEPT ![x] = d]
    /\ Write([e \in Connections |-> IF e = d THEN <<Created(x)>> ELSE <<>>])
    /\ UNCHANGED <<conn, owners, foreign, replies, shown, toldGone, late, home,
                   alive, attached, paused, leaving>>

(* The same from a plugin, which can also be in onSessionEnd: its reply is *)
(* read as soon as it arrives.                                             *)
PluginCreates(d, x) ==
    /\ conn[d] \in {"open", "ending"} /\ ctx[x] = "unused"
    /\ ctx' = [ctx EXCEPT ![x] = "live"] /\ creator' = [creator EXCEPT ![x] = d]
    /\ replies' = [replies EXCEPT ![d] = @ \cup {Created(x)}]
    /\ late' = IF conn[d] = "ending" THEN late \cup {x} ELSE late
    /\ UNCHANGED <<conn, owners, foreign, inbox, shown, toldGone, home, alive,
                   attached, paused, leaving>>

(* Target.disposeBrowserContext from the client: the context's targets go  *)
(* first, then the reply is written.                                       *)
ClientDisposes(d, x) ==
    /\ conn[d] = "open" /\ Knows(d, x)
    /\ ctx' = [ctx EXCEPT ![x] = "gone"]
    /\ Destroy(LiveIn({x}))
    /\ Write([e \in Connections |-> DetachesOf(e, LiveIn({x})) \o
                                        (IF e = d THEN <<Disposed(x)>> ELSE <<>>)])
    /\ UNCHANGED <<conn, owners, foreign, replies, shown, toldGone, late, creator, home>>

PluginDisposes(d, x) ==
    /\ conn[d] \in {"open", "ending"} /\ Knows(d, x)
    /\ ctx' = [ctx EXCEPT ![x] = "gone"]
    /\ Destroy(LiveIn({x}))
    /\ Write([e \in Connections |-> DetachesOf(e, LiveIn({x}))])
    /\ replies' = [replies EXCEPT ![d] = @ \cup {Disposed(x)}]
    /\ UNCHANGED <<conn, owners, foreign, shown, toldGone, late, creator, home>>

(* A page opens in the default context, in a context its opener knows, or   *)
(* from another page of its context.  Every connection is attached to it   *)
(* and holds it paused.                                                    *)
Opens(d, x, t) ==
    /\ alive[t] = "none"
    /\ \/ conn[d] = "open" /\ (x = Default \/ (x \in Contexts /\ Knows(d, x)))
       \/ conn[d] = "ending" /\ LiveIn({x}) # {}
    /\ alive' = [alive EXCEPT ![t] = "live"] /\ home' = [home EXCEPT ![t] = x]
    /\ LET all == {e \in Connections : conn[e] \in {"open", "ending"}} \X {t}
       IN  attached' = attached \cup all /\ paused' = paused \cup all
    /\ Write([e \in Connections |-> <<Attach(t)>>])
    /\ UNCHANGED <<conn, owners, foreign, replies, shown, toldGone, late, ctx,
                   creator, leaving>>

Closes(t) ==
    /\ alive[t] = "live"
    /\ Destroy({t})
    /\ Write([e \in Connections |-> DetachesOf(e, {t})])
    /\ UNCHANGED <<conn, owners, foreign, replies, shown, toldGone, late, ctx,
                   creator, home>>

(* A client releases a page it was shown. *)
Resumes(d, t) ==
    /\ conn[d] = "open" /\ t \in shown[d] /\ <<d, t>> \in paused
    /\ paused' = paused \ {<<d, t>>}
    /\ UNCHANGED <<proxy, ctx, creator, home, alive, attached, leaving>>

(* The browser carries out a detachFromTarget. *)
Leaves(d, t) ==
    /\ <<d, t>> \in leaving
    /\ attached' = attached \ {<<d, t>>} /\ paused' = paused \ {<<d, t>>}
    /\ leaving' = leaving \ {<<d, t>>}
    /\ Write([e \in Connections |-> IF e = d THEN <<Detach(t)>> ELSE <<>>])
    /\ UNCHANGED <<conn, owners, foreign, replies, shown, toldGone, late, ctx,
                   creator, home, alive>>
-----------------------------------------------------------------------------
(* #claim. *)
Claim(d, m) ==
    owners' = [owners EXCEPT ![m.of] = IF m.kind = "created" THEN d ELSE Nobody]

(* The reply of a plugin's command settles and claims in one turn.  Mutant: *)
(* only the client's commands claim.                                       *)
PluginReplyUnclaimed(d, m) ==
    /\ m \in replies[d]
    /\ replies' = [replies EXCEPT ![d] = @ \ {m}]
    /\ UNCHANGED <<conn, owners, foreign, inbox, shown, toldGone, late, browser>>

PluginReply(d, m) ==
    /\ m \in replies[d]
    /\ replies' = [replies EXCEPT ![d] = @ \ {m}]
    /\ Claim(d, m)
    /\ UNCHANGED <<conn, foreign, inbox, shown, toldGone, late, browser>>

(* The client's, once the root chain has come to it. *)
ClientReply(d, m) ==
    /\ m \in Reply
    /\ Claim(d, m)
    /\ UNCHANGED <<foreign, shown, toldGone, leaving, paused>>

(* #isForeign on attachedToTarget, looked up when the chain comes to it.    *)
OwnedElsewhere(d, t) ==
    home[t] # Default /\ owners[home[t]] \notin {d, Nobody}

Show(d, t) ==
    /\ ~OwnedElsewhere(d, t)
    /\ shown' = [shown EXCEPT ![d] = @ \cup {t}]
    /\ UNCHANGED <<owners, foreign, toldGone, leaving, paused>>

(* Mutants: the target is only hidden; its session is not remembered.      *)
HideSilently(d, t) ==
    /\ OwnedElsewhere(d, t)
    /\ foreign' = [foreign EXCEPT ![d] = @ \cup {t}]
    /\ UNCHANGED <<owners, shown, toldGone, leaving, paused>>

HideUnremembered(d, t) ==
    /\ OwnedElsewhere(d, t)
    /\ leaving' = leaving \cup ({<<d, t>>} \cap attached)
    /\ UNCHANGED <<owners, foreign, shown, toldGone, paused>>

Hide(d, t) ==
    /\ OwnedElsewhere(d, t)
    /\ foreign' = [foreign EXCEPT ![d] = @ \cup {t}]
    /\ leaving' = leaving \cup ({<<d, t>>} \cap attached)
    /\ UNCHANGED <<owners, shown, toldGone, paused>>

(* #isForeign on detachedFromTarget.                                        *)
Gone(d, t) ==
    /\ foreign' = [foreign EXCEPT ![d] = @ \ {t}]
    /\ toldGone' = [toldGone EXCEPT ![d] = IF t \in foreign[d] THEN @ ELSE @ \cup {t}]
    /\ UNCHANGED <<owners, shown, leaving, paused>>

(* #forwardBrowserMessage for the first message of the root chain.         *)
Handle(d) ==
    /\ conn[d] = "open" /\ inbox[d] # <<>>
    /\ inbox' = [inbox EXCEPT ![d] = Tail(@)]
    /\ LET m == Head(inbox[d]) IN
       \/ ClientReply(d, m)
       \/ m.kind = "attach" /\ (Show(d, m.of) \/ Hide(d, m.of))
       \/ m.kind = "detach" /\ Gone(d, m.of)
    /\ UNCHANGED <<conn, replies, late, ctx, creator, home, alive, attached>>
-----------------------------------------------------------------------------
(* #reap: what is waiting is dropped and the claims are released before    *)
(* onSessionEnd runs; the socket closes after it.                            *)
Reap(d) ==
    /\ conn[d] = "open"
    /\ conn' = [conn EXCEPT ![d] = "ending"]
    /\ inbox' = [inbox EXCEPT ![d] = <<>>]
    /\ replies' = [replies EXCEPT ![d] = {}]
    /\ owners' = [x \in Contexts |-> IF owners[x] = d THEN Nobody ELSE owners[x]]
    /\ UNCHANGED <<foreign, shown, toldGone, late, browser>>

(* The socket is closed: the browser discards the connection's sessions    *)
(* and the contexts it created.                                            *)
ReapFinish(d) ==
    LET X == {x \in Contexts : creator[x] = d /\ ctx[x] = "live"}
        T == LiveIn(X)
    IN  /\ conn[d] = "ending"
        /\ conn' = [conn EXCEPT ![d] = "closed"]
        /\ replies' = [replies EXCEPT ![d] = {}]
        /\ ctx' = [x \in Contexts |-> IF x \in X THEN "gone" ELSE ctx[x]]
        /\ alive' = [t \in Targets |-> IF t \in T THEN "gone" ELSE alive[t]]
        /\ attached' = {a \in Without(T) : a[1] # d}
        /\ paused' = paused \cap attached' /\ leaving' = leaving \cap attached'
        /\ Write([e \in Connections |-> DetachesOf(e, T)])
        /\ UNCHANGED <<owners, foreign, shown, toldGone, late, creator, home>>
-----------------------------------------------------------------------------
Ask(d)     == \E x \in Contexts : \/ ClientCreates(d, x) \/ PluginCreates(d, x)
                                  \/ ClientDisposes(d, x) \/ PluginDisposes(d, x)
Answer(d)  == \E m \in Reply : PluginReply(d, m)
Page(d)    == \E t \in Targets : \/ \E x \in Contexts \cup {Default} : Opens(d, x, t)
                                 \/ Resumes(d, t) \/ Leaves(d, t)
Session(d) == Join(d) \/ Reap(d) \/ ReapFinish(d)

Next == \/ \E d \in Connections : Ask(d) \/ Answer(d) \/ Page(d) \/ Session(d) \/ Handle(d)
        \/ \E t \in Targets : Closes(t)

(* A chain comes to its messages, onSessionEnd returns, the browser carries *)
(* out what it is told, and a client releases the pages it is shown.       *)
Fairness ==
    \A d \in Connections :
        /\ WF_vars(Handle(d)) /\ WF_vars(ReapFinish(d)) /\ WF_vars(Answer(d))
        /\ \A t \in Targets : WF_vars(Leaves(d, t)) /\ WF_vars(Resumes(d, t))

Spec == Init /\ [][Next]_vars /\ Fairness
-----------------------------------------------------------------------------
TypeOK ==
    /\ conn \in [Connections -> {"new", "open", "ending", "closed"}]
    /\ owners \in [Contexts -> Connections \cup {Nobody}]
    /\ inbox \in [Connections -> Seq(Message)]
    /\ replies \in [Connections -> SUBSET Reply]
    /\ \A f \in {foreign, shown, toldGone} : f \in [Connections -> SUBSET Targets]
    /\ late \subseteq Contexts
    /\ ctx \in [Contexts -> {"unused", "live", "gone"}]
    /\ creator \in [Contexts -> Connections \cup {Nobody}]
    /\ home \in [Targets -> Contexts \cup {Default, Nobody}]
    /\ alive \in [Targets -> {"none", "live", "gone"}]
    /\ attached \subseteq Connections \X Targets
    /\ paused \subseteq attached /\ leaving \subseteq attached

(* While a context's creator is connected and has not disposed of it, no    *)
(* other connection's client is shown a target in it, however the replies  *)
(* and the announcements are delayed: the claim is in place before anyone  *)
(* can open a page there, and covers plugin-opened contexts too.           *)
HiddenWhileOwned ==
    \A d \in Connections : \A t \in shown[d] :
        home[t] \in Contexts /\ creator[home[t]] # d
            => conn[creator[home[t]]] # "open" \/ ctx[home[t]] = "gone"

(* A client is told that a page is gone only if it was told of the page.    *)
DetachMatchesAttach ==
    \A d \in Connections : toldGone[d] \subseteq shown[d]

(* A hidden session is remembered only until its detach has been handled,  *)
(* so the set does not grow with the neighbours' pages.                    *)
HiddenSessionsDrain ==
    \A d \in Connections : \A t \in foreign[d] :
        conn[d] = "open" => <<d, t>> \in attached \/ Detach(t) \in ToSet(inbox[d])

(* A reaped connection claims nothing, except what its own onSessionEnd    *)
(* hooks asked for.                                                        *)
ClaimsEndWithConnection ==
    \A x \in Contexts :
        owners[x] # Nobody => conn[owners[x]] = "open" \/ x \in late

(* Nobody holds a page paused for ever: its owner releases it, everybody   *)
(* else gives it up ("its real owner sees newPage() succeed and then every *)
(* navigation time out").                                                  *)
PagesStart ==
    \A t \in Targets : alive[t] = "live" ~> \A d \in Connections : <<d, t>> \notin paused

(* docs/plugin-developer.md:1316, "You only ever see your own session's     *)
(* targets": those of the default context and of one's own contexts.       *)
OwnTargetsOnly ==
    \A d \in Connections : \A t \in shown[d] :
        home[t] \in Contexts => creator[home[t]] = d
=============================================================================
