------------------------------- MODULE Ordering -------------------------------
(***************************************************************************)
(* The message queues of a ProxyConnection (#order and #retire in          *)
(* src/src/proxy-connection.ts): one promise chain per CDP session and     *)
(* direction, seeded from the root chain.                                  *)
(*                                                                         *)
(* A task is one message; it records the task its promise was chained on   *)
(* (0 for Promise.resolve()).  Handling a task has two steps, because its  *)
(* handler awaits hooks: Start is the part before the first await (the     *)
(* target registry, the retirement of a queue) and Finish the part after   *)
(* the last one (the message goes out).  Other chains run in between.      *)
(*                                                                         *)
(* The browser is modelled by what CDP lets it send: attachedToTarget and  *)
(* detachedFromTarget of a session arrive on its parent session, nothing   *)
(* arrives on a session outside its attachment, and sessions under a       *)
(* target are gone before it is.                                           *)
(***************************************************************************)
EXTENDS Naturals, Sequences

CONSTANTS
    Sessions,   \* CDP session ids
    Root,       \* the key of the root chain, '' in the code
    Parent,     \* the session (or Root) each session's target is reported on
    Slow,       \* a page whose hooks may never return
    MaxTasks    \* bound on the number of messages

ASSUME SessionAssumption ==
    /\ Root \notin Sessions
    /\ Parent \in [Sessions -> Sessions \cup {Root}]
    /\ MaxTasks \in Nat

VARIABLES
    tasks,     \* the messages in order of arrival
    chains,    \* #browserChains and #clientChains: key -> the last task chained
    targets,   \* #targets: the sessions registered
    phase,     \* the browser's view of each session
    told       \* the client's view of each session

vars == <<tasks, chains, targets, phase, told>>

Key  == Sessions \cup {Root}
Side == {"browser", "client"}
Kind == {"attach", "detach", "other"}

Task == [side : Side, key : Key, kind : Kind, of : Key, after : 0..MaxTasks,
         at : {"queued", "running", "done"}, late : BOOLEAN]
-----------------------------------------------------------------------------
Init ==
    /\ tasks = <<>>
    /\ chains = [d \in Side |-> [k \in {} |-> 0]]
    /\ targets = {}
    /\ phase = [s \in Sessions |-> "new"]
    /\ told = [s \in Sessions |-> "new"]

(* #retire ran for this session. *)
Retired(s) == \E t \in DOMAIN tasks : /\ tasks[t].kind = "detach" /\ tasks[t].of = s
                                      /\ tasks[t].at # "queued"

(* Mutants: a message is chained on the root chain only; a session's first  *)
(* message is chained on nothing; every message shares one chain.           *)
PreviousRoot(side, key) ==
    IF Root \in DOMAIN chains[side] THEN chains[side][Root] ELSE 0

PreviousFresh(side, key) ==
    IF key \in DOMAIN chains[side] THEN chains[side][key] ELSE 0

PreviousOfAll(side, key) == Len(tasks)

(* What #order chains a message on: the last task of its session, else the *)
(* last task of the root chain, else nothing.                              *)
Previous(side, key) ==
    CASE key \in DOMAIN chains[side]  -> chains[side][key]
      [] key \notin DOMAIN chains[side] /\ Root \in DOMAIN chains[side]
                                      -> chains[side][Root]
      [] OTHER                        -> 0

(* #order. *)
Order(side, key, kind, of) ==
    LET n == Len(tasks) + 1
    IN  /\ n <= MaxTasks
        /\ tasks' = Append(tasks, [side |-> side, key |-> key, kind |-> kind, of |-> of,
                                   after |-> Previous(side, key), at |-> "queued",
                                   late |-> key \in Sessions /\ Retired(key)])
        /\ chains' = [chains EXCEPT ![side] =
                          [k \in DOMAIN @ \cup {key} |-> IF k = key THEN n ELSE @[k]]]
-----------------------------------------------------------------------------
(* The sessions one side may write to, in its view f of them. *)
Open(f) == {Root} \cup {s \in Sessions : f[s] = "attached"}

BrowserAttach(s) ==
    /\ phase[s] = "new" /\ Parent[s] \in Open(phase)
    /\ phase' = [phase EXCEPT ![s] = "attached"]
    /\ Order("browser", Parent[s], "attach", s)
    /\ UNCHANGED <<targets, told>>

BrowserDetach(s) ==
    /\ phase[s] = "attached"
    /\ \A c \in Sessions : Parent[c] = s => phase[c] # "attached"
    /\ phase' = [phase EXCEPT ![s] = "detached"]
    /\ Order("browser", Parent[s], "detach", s)
    /\ UNCHANGED <<targets, told>>

BrowserMessage(s) ==
    /\ s \in Open(phase)
    /\ Order("browser", s, "other", s)
    /\ UNCHANGED <<targets, phase, told>>

(* The client addresses the sessions it has been told of. *)
ClientMessage(s) ==
    /\ s \in Open(told)
    /\ Order("client", s, "other", s)
    /\ UNCHANGED <<targets, phase, told>>
-----------------------------------------------------------------------------
Settled  == {0} \cup {t \in DOMAIN tasks : tasks[t].at = "done"}
Ready(t) == tasks[t].at = "queued" /\ tasks[t].after \in Settled

(* #retire. *)
Retire(s) == chains' = [d \in Side |-> [k \in DOMAIN chains[d] \ {s} |-> chains[d][k]]]

(* #forwardBrowserMessage as far as #isForeign and the first lines of      *)
(* #derive: a detach retires the queues of its target, an attach registers *)
(* its target.                                                             *)
Start(t) ==
    /\ Ready(t)
    /\ tasks' = [tasks EXCEPT ![t].at = "running"]
    /\ LET s == tasks[t].of IN
       \/ tasks[t].kind = "attach" /\ targets' = targets \cup {s} /\ UNCHANGED chains
       \/ tasks[t].kind = "detach" /\ targets' = targets \ {s} /\ Retire(s)
       \/ tasks[t].kind = "other" /\ UNCHANGED <<targets, chains>>
    /\ UNCHANGED <<phase, told>>

(* The hooks are over and the message goes out.                            *)
Finish(t) ==
    /\ tasks[t].at = "running"
    /\ tasks' = [tasks EXCEPT ![t].at = "done"]
    /\ told' = [s \in Sessions |->
                  CASE tasks[t].of = s /\ tasks[t].kind = "attach" -> "attached"
                    [] tasks[t].of = s /\ tasks[t].kind = "detach" -> "detached"
                    [] OTHER -> told[s]]
    /\ UNCHANGED <<chains, targets, phase>>
-----------------------------------------------------------------------------
Arrive == \/ \E s \in Sessions : BrowserAttach(s) \/ BrowserDetach(s)
          \/ \E k \in Key : BrowserMessage(k) \/ ClientMessage(k)
Handle == \E t \in DOMAIN tasks : Start(t) \/ Finish(t)

Next == Arrive \/ Handle

(* A promise whose predecessor has settled runs, and a hook returns unless *)
(* it is called for the slow page: for a message of its session, or for its *)
(* attach or detach, which arrives on another session.                     *)
Stuck(t) == Slow \in {tasks[t].key, tasks[t].of}

Fairness == \A t \in 1..MaxTasks :
                /\ WF_vars(t \in DOMAIN tasks /\ Start(t))
                /\ WF_vars(t \in DOMAIN tasks /\ ~Stuck(t) /\ Finish(t))

Spec == Init /\ [][Next]_vars /\ Fairness
-----------------------------------------------------------------------------
TypeOK ==
    /\ tasks \in Seq(Task) /\ Len(tasks) <= MaxTasks
    /\ DOMAIN chains = Side
    /\ \A d \in Side : /\ DOMAIN chains[d] \subseteq Key
                       /\ \A k \in DOMAIN chains[d] : chains[d][k] \in DOMAIN tasks
    /\ targets \subseteq Sessions
    /\ \A f \in {phase, told} : f \in [Sessions -> {"new", "attached", "detached"}]

Begun(t) == tasks[t].at # "queued"

(* Within one session and direction a message is handled only after every  *)
(* earlier one has gone out.  (A client that still writes to a session     *)
(* whose detach is being handled starts a new queue: those are `late'.)    *)
OrderWithinSession ==
    \A i, j \in DOMAIN tasks :
        /\ i < j /\ tasks[i].side = tasks[j].side /\ tasks[i].key = tasks[j].key
        /\ ~tasks[j].late /\ Begun(j)
        => tasks[i].at = "done"

(* No message of a session reported on the root chain overtakes its own    *)
(* attach (comment on #order): the attach has been handled to the end, so  *)
(* plugins have set up for it and the ownership check has been made.       *)
AttachFirst ==
    \A i, j \in DOMAIN tasks :
        /\ tasks[i].kind = "attach" /\ Parent[tasks[i].of] = Root
        /\ tasks[j].key = tasks[i].of /\ tasks[j].side = "browser" /\ Begun(j)
        => tasks[i].at = "done"

(* The same for every session, whichever session its target is reported on:*)
(* "a plugin reading ctx.targets" finds the target of the event it handles.*)
EventsFindTheirTarget ==
    \A j \in DOMAIN tasks :
        /\ tasks[j].key \in Sessions /\ tasks[j].side = "browser" /\ Begun(j)
        => \E i \in DOMAIN tasks : /\ tasks[i].kind = "attach"
                                   /\ tasks[i].of = tasks[j].key /\ Begun(i)

(* #retire: a session whose detach has been handled has no queue of        *)
(* browser messages, "so a long connection stays flat".                    *)
RetiredForGood ==
    \A s \in Sessions : Retired(s) => s \notin DOMAIN chains["browser"]

(* How far a hook that never returns reaches: to the later messages of the *)
(* queue it is called in and, where that is the root chain (its attach, its *)
(* detach), to the sessions whose queue had not begun by then.             *)
Held(t) ==
    \/ Stuck(t)
    \/ \E i \in 1..t - 1 :
          /\ Stuck(i) /\ tasks[i].side = tasks[t].side
          /\ \/ tasks[i].key = tasks[t].key
             \/ /\ tasks[i].key = Root
                /\ \A j \in 1..i : tasks[j].side = tasks[t].side => tasks[j].key # tasks[t].key

(* With the hooks of one page stuck for ever, every other message still    *)
(* goes out: "a slow hook delays that page and not the others" (comment on *)
(* #order, docs/plugin-developer.md), but for what Held names.             *)
PagesAreIndependent ==
    \A t \in 1..MaxTasks :
        (t \in DOMAIN tasks /\ ~Held(t)) ~> (t \in DOMAIN tasks /\ tasks[t].at = "done")
===============================================================================
