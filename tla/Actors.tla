--------------------------------- MODULE Actors ---------------------------------
(***************************************************************************)
(* Actors of one connection (src/src/actor.ts): which page has which       *)
(* actor, and the one chain of tasks their callbacks run on.  What an       *)
(* actor sends through the escape hatch is left out.                       *)
(*                                                                         *)
(* Abstracted.  A page is one session id; targets of other types, frames   *)
(* other than the main one and a session without actors are ignored by the *)
(* code.  An actor registers one callback for each of document and close.  *)
(* What a callback does on the page (eval, wait, click, fill, goto) is the *)
(* time between Call and Return; it ends because every command it sends    *)
(* has a timeout, except for what it awaits of its own, which Slow says.   *)
(***************************************************************************)
EXTENDS Naturals, Sequences, Functions

CONSTANTS
    Pages, Actors, None,
    Order,      \* the actors as order() sorts them
    Scoped,     \* those with scope 'session'
    Urls,       \* the URLs a page may show
    Matches,    \* actor -> the URLs its globs match
    Slow,       \* the actors that await something that may never come
    MaxTasks    \* bound: documents and events announced

ASSUME ActorsAssumption ==
    /\ None \notin Actors
    /\ Order \in Seq(Actors) /\ Scoped \subseteq Actors
    /\ Matches \in [Actors -> SUBSET Urls]

VARIABLES
    live,       \* the pages in #live
    gone,       \* those detached
    handles,    \* page.handles: the actors of each page, as they were set up
    session,    \* #session: the scoped actors that have an instance
    work,       \* #work: the scheduled tasks, the head is the one that runs
    phase,      \* of the running task: "idle", "setup", "fire"
    todo,       \* the actors it still has to come to
    doing,      \* the actor whose callback it awaits
    announced,  \* how many documents and events were announced
    late        \* history: actors set up on a page that was gone

chainVars == <<work, phase, todo, doing>>
vars == <<live, gone, handles, session, chainVars, announced, late>>

Init ==
    /\ live = {} /\ gone = {} /\ session = {} /\ late = {}
    /\ handles = [p \in Pages |-> <<>>]
    /\ work = <<>> /\ phase = "idle" /\ todo = <<>> /\ doing = None
    /\ announced = 0

Task(kind, p, url) == [kind |-> kind, page |-> p, url |-> url]
Running == Head(work)
-----------------------------------------------------------------------------
(* #schedule.  Mutant: a page is served before those that wait. *)
ScheduleFirst(t) ==
    work' = IF work = <<>> THEN <<t>> ELSE <<Head(work), t>> \o Tail(work)

Schedule(t) == work' = Append(work, t)

(* attached. *)
Attached(p) ==
    /\ p \notin live \cup gone
    /\ live' = live \cup {p}
    /\ UNCHANGED <<gone, handles, session, chainVars, announced, late>>

(* detached.  Every name of the page leaves #session.  Mutant: it stays. *)
DetachedHeld(p) ==
    /\ p \in live
    /\ live' = live \ {p} /\ gone' = gone \cup {p}
    /\ Schedule(Task("close", p, None))
    /\ UNCHANGED <<handles, session, phase, todo, doing, announced, late>>

Detached(p) ==
    /\ p \in live
    /\ live' = live \ {p} /\ gone' = gone \cup {p}
    /\ session' = session \ Range(handles[p])
    /\ Schedule(Task("close", p, None))
    /\ UNCHANGED <<handles, phase, todo, doing, announced, late>>

(* document, for a committed main frame. *)
Document(p, url) ==
    /\ p \in live /\ announced < MaxTasks
    /\ announced' = announced + 1
    /\ Schedule(Task("document", p, url))
    /\ UNCHANGED <<live, gone, handles, session, phase, todo, doing, late>>

(* event: only a page that has instances by now is told. *)
Event(p) ==
    /\ p \in live /\ announced < MaxTasks /\ handles[p] # <<>>
    /\ announced' = announced + 1
    /\ Schedule(Task("event", p, None))
    /\ UNCHANGED <<live, gone, handles, session, phase, todo, doing, late>>
-----------------------------------------------------------------------------
(* The chain comes to a task.  observe hands an event to every handle at    *)
(* once.                                                                   *)
RunTask ==
    /\ phase = "idle" /\ work # <<>>
    /\ \/ /\ Running.kind = "document"
          /\ phase' = "setup" /\ todo' = Order /\ UNCHANGED work
       \/ /\ Running.kind = "close"
          /\ phase' = "fire" /\ todo' = handles[Running.page] /\ UNCHANGED work
       \/ /\ Running.kind = "event"
          /\ work' = Tail(work) /\ UNCHANGED <<phase, todo>>
    /\ UNCHANGED <<live, gone, handles, session, doing, announced, late>>

(* The conditions under which the task instantiates an actor.            *)
Wanted(a) ==
    /\ Running.url \in Matches[a]
    /\ a \in Scoped => a \notin session
    /\ a \notin Range(handles[Running.page])

(* The next setup, or, when none is wanted, on to the document callbacks. *)
SetupNext ==
    /\ phase = "setup" /\ doing = None
    /\ LET wanted == {i \in DOMAIN todo : Wanted(todo[i])}
       IN  \/ /\ wanted = {}
              /\ phase' = "fire" /\ todo' = handles[Running.page] /\ UNCHANGED doing
           \/ \E i \in wanted :
              /\ \A j \in wanted : i <= j
              /\ doing' = todo[i]
              /\ todo' = SubSeq(todo, i + 1, Len(todo))
              /\ UNCHANGED phase
    /\ UNCHANGED <<live, gone, handles, session, work, announced, late>>

(* setup has returned. *)
SetUp ==
    /\ phase = "setup" /\ doing # None /\ doing' = None
    /\ handles' = [handles EXCEPT ![Running.page] = Append(@, doing)]
    /\ session' = session \cup ({doing} \cap Scoped)
    /\ late' = IF Running.page \in gone THEN late \cup ({doing} \cap Scoped) ELSE late
    /\ UNCHANGED <<live, gone, work, phase, todo, announced>>

(* setup has thrown: the handle is dropped. *)
SetUpFails ==
    /\ phase = "setup" /\ doing # None /\ doing' = None
    /\ UNCHANGED <<live, gone, handles, session, work, phase, todo, announced, late>>

(* fire: the next handle's callback, and the end of it, thrown or not.      *)
FireNext ==
    /\ phase = "fire" /\ doing = None /\ todo # <<>>
    /\ doing' = Head(todo) /\ todo' = Tail(todo)
    /\ UNCHANGED <<live, gone, handles, session, work, phase, announced, late>>

Fired ==
    /\ phase = "fire" /\ doing # None /\ doing' = None
    /\ UNCHANGED <<live, gone, handles, session, work, phase, todo, announced, late>>

TaskDone ==
    /\ phase = "fire" /\ doing = None /\ todo = <<>>
    /\ phase' = "idle" /\ work' = Tail(work)
    /\ UNCHANGED <<live, gone, handles, session, todo, doing, announced, late>>
-----------------------------------------------------------------------------
Callback == SetUp \/ SetUpFails \/ Fired
Runtime  == RunTask \/ SetupNext \/ FireNext \/ TaskDone

Next ==
    \/ Runtime \/ Callback
    \/ \E p \in Pages : Attached(p) \/ Detached(p) \/ Event(p)
    \/ \E p \in Pages, url \in Urls : Document(p, url)

(* The event loop comes to every task that can run; a callback ends unless  *)
(* its actor is one of the Slow.                                           *)
Spec     == Init /\ [][Next]_vars
FairSpec == Spec /\ WF_vars(Runtime) /\ WF_vars(doing \notin Slow /\ Callback)
-----------------------------------------------------------------------------
TypeOK ==
    /\ live \subseteq Pages /\ gone \subseteq Pages /\ live \cap gone = {}
    /\ handles \in [Pages -> Seq(Actors)]
    /\ session \subseteq Scoped /\ late \subseteq Scoped
    /\ work \in Seq([kind : {"document", "event", "close"}, page : Pages, url : Urls \cup {None}])
    /\ phase \in {"idle", "setup", "fire"} /\ (phase # "idle" => work # <<>>)
    /\ todo \in Seq(Actors) /\ doing \in Actors \cup {None}

Armed(p, a) == a \in Range(handles[p])
HasTask(p)  == \E i \in DOMAIN work : work[i].page = p

(* The close callback of the actor a has run on the page p. *)
Told(p, a) ==
    /\ p \in gone /\ Armed(p, a)
    /\ \A i \in DOMAIN work : work[i] = Task("close", p, None) =>
          i = 1 /\ phase = "fire" /\ a \notin Range(todo) \cup {doing}

(* What the kind promises, with a chain for each page: the tasks of a page *)
(* are those of the one chain, in order.                                   *)
Own(chain, p) ==
    LET kept[n \in 0..Len(chain)] ==
            IF n = 0 THEN <<>>
            ELSE IF chain[n].page = p THEN Append(kept[n - 1], chain[n].kind)
            ELSE kept[n - 1]
    IN  kept[Len(chain)]

StageOf    == [p \in Pages |-> IF p \in live THEN "live" ELSE IF p \in gone THEN "gone" ELSE "new"]
ChainOf    == [p \in Pages |-> Own(work, p)]
InstanceOf == [p \in Pages |-> [a \in Actors |->
                  IF ~Armed(p, a) THEN "none" ELSE IF Told(p, a) THEN "closed" ELSE "armed"]]
DoingOf    == [p \in Pages |-> IF HasTask(p) /\ Running.page = p THEN doing ELSE None]

Promise == INSTANCE PageActors WITH
    stage <- StageOf, chain <- ChainOf, instance <- InstanceOf, doing <- DoingOf

(* The single chain keeps the promise made for one page: an actor is set   *)
(* up at most once on it, its callbacks come one at a time in the order of *)
(* the page's own events, close comes last and to every instance.          *)
KeepsPromise == Promise!Spec

(* An actor that coordinates across pages is on one live page at a time,   *)
(* however detaches and documents overtake each other.                     *)
ScopedIsSingle ==
    \A a \in Scoped, p, q \in live : Armed(p, a) /\ Armed(q, a) => p = q

(* A scoped actor's name is taken only while a live page has it, or from a *)
(* setup that ended after its page had gone: then it stays taken, and no   *)
(* page gets the actor any more (detached had released the names already). *)
ClaimIsLive ==
    \A a \in session : a \in late \/ \E p \in live : Armed(p, a)

(* Every actor of a page that has gone is told. *)
ClosesFire ==
    \A p \in Pages, a \in Actors :
        (p \in gone /\ Armed(p, a)) ~> Told(p, a)

(* "Callbacks are scheduled on their own task per page": a page's tasks    *)
(* wait for an actor of another page no longer than it is its turn.        *)
PagesDoNotWait ==
    \A p \in Pages :
        HasTask(p) ~> ~HasTask(p) \/ (doing \in Slow /\ Running.page = p)
=============================================================================
