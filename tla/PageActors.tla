------------------------------- MODULE PageActors -------------------------------
(***************************************************************************)
(* What the platform promises the author of an actor, independently of how *)
(* Actors (src/src/actor.ts) schedules the work: the lifetime of an        *)
(* instance is one page, its callbacks run on a chain of the page's own    *)
(* and in the page's own order, one at a time, and the last of them is     *)
(* close.  Module Actors implements it with one chain for all the pages.   *)
(***************************************************************************)
EXTENDS Sequences, Naturals

CONSTANTS Pages, Actors, None

VARIABLES
    stage,     \* each page: "new", "live", "gone"
    chain,     \* the tasks of each page: "document", "event", "close"
    instance,  \* each actor on each page: "none", "armed", "closed"
    doing      \* the actor each page is waiting for, None when none

vars == <<stage, chain, instance, doing>>

Init ==
    /\ stage = [p \in Pages |-> "new"]
    /\ chain = [p \in Pages |-> <<>>]
    /\ instance = [p \in Pages |-> [a \in Actors |-> "none"]]
    /\ doing = [p \in Pages |-> None]

Attach(p) ==
    /\ stage[p] = "new"
    /\ stage' = [stage EXCEPT ![p] = "live"]
    /\ UNCHANGED <<chain, instance, doing>>

(* A document was committed, or an event observed. *)
Announce(p, task) ==
    /\ stage[p] = "live"
    /\ chain' = [chain EXCEPT ![p] = Append(@, task)]
    /\ UNCHANGED <<stage, instance, doing>>

Detach(p) ==
    /\ stage[p] = "live"
    /\ stage' = [stage EXCEPT ![p] = "gone"]
    /\ chain' = [chain EXCEPT ![p] = Append(@, "close")]
    /\ UNCHANGED <<instance, doing>>

(* A document sets up the actors the page does not have and calls those it *)
(* has; close calls those it has.                                          *)
Call(p, a) ==
    /\ chain[p] # <<>> /\ doing[p] = None
    /\ instance[p][a] \in (CASE Head(chain[p]) = "document" -> {"none", "armed"}
                             [] Head(chain[p]) = "close"    -> {"armed"}
                             [] OTHER                       -> {})
    /\ doing' = [doing EXCEPT ![p] = a]
    /\ UNCHANGED <<stage, chain, instance>>

(* A setup may fail, which leaves no instance; a callback that fails is as *)
(* good as one that returns.                                               *)
Return(p) ==
    /\ doing[p] # None
    /\ doing' = [doing EXCEPT ![p] = None]
    /\ \/ /\ Head(chain[p]) = "document"
          /\ \/ instance' = [instance EXCEPT ![p][doing[p]] = "armed"]
             \/ UNCHANGED instance
       \/ /\ Head(chain[p]) = "close"
          /\ instance' = [instance EXCEPT ![p][doing[p]] = "closed"]
    /\ UNCHANGED <<stage, chain>>

(* A task is over; close is over when no instance is left to be told. *)
Done(p) ==
    /\ chain[p] # <<>> /\ doing[p] = None
    /\ Head(chain[p]) = "close" => \A a \in Actors : instance[p][a] # "armed"
    /\ chain' = [chain EXCEPT ![p] = Tail(@)]
    /\ UNCHANGED <<stage, instance, doing>>

Next ==
    \E p \in Pages :
        \/ Attach(p) \/ Detach(p) \/ Return(p) \/ Done(p)
        \/ \E task \in {"document", "event"} : Announce(p, task)
        \/ \E a \in Actors : Call(p, a)

Spec == Init /\ [][Next]_vars
=============================================================================
