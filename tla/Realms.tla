--------------------------------- MODULE Realms ---------------------------------
(***************************************************************************)
(* The delivery of the surface bundle to a target as it attaches: module   *)
(* Ordering with what the handler of Target.attachedToTarget awaits        *)
(* (#derive and #deliverSurfaces of src/src/proxy-connection.ts, deliver   *)
(* of src/src/realms.ts, attach and resume of src/src/broker.ts), and the  *)
(* browser's side: a target paused at its start, and the commands written  *)
(* to it, which it executes in order.                                      *)
(*                                                                         *)
(* Abstracted.  The overrides of the surfaces and what the broker pushes   *)
(* are one command, "claims".  Every target is of a realm that has a       *)
(* bundle.  A target that is there does not refuse to be resumed.          *)
(***************************************************************************)
EXTENDS Ordering

CONSTANTS
    Workers,    \* the targets without a Page domain
    Pausing,    \* a surface claims a realm beyond the document tree
    Asks,       \* where the client asks for targets to be paused
    MaxFaults   \* bound: commands refused or answered too late

ASSUME RealmsAssumption ==
    Workers \subseteq Sessions /\ Pausing \in BOOLEAN /\ Asks \subseteq Key

VARIABLES
    code,       \* each target's own code: "none", "paused", "running", "gone"
    inbox,      \* the commands on their way to each session
    stage,      \* how many of the steps of its delivery have been taken
    awaited,    \* the command whose reply each target's handler awaits
    bundled,    \* the targets that had the bundle before they ran
    refused,    \* the targets whose bundle was refused, or never sent
    faults      \* commands that failed so far

delivery == <<code, inbox, stage, awaited, bundled, refused, faults>>

RealmsInit ==
    /\ Init
    /\ code = [s \in Sessions |-> "none"]
    /\ inbox = [s \in Sessions |-> <<>>]
    /\ stage = [s \in Sessions |-> 0]
    /\ awaited = [s \in Sessions |-> "none"]
    /\ bundled = {} /\ refused = {} /\ faults = 0

(* Target.setAutoAttach, which the broker widens, and resume, which looks   *)
(* for the client's wish at the session that reported the target.          *)
Pauses(s)  == Pausing \/ Parent[s] \in Asks
Resumes(s) == Pausing /\ Parent[s] \notin Asks \ {Root}

(* #derive: deliver (inject is two commands, evaluate one), attach and      *)
(* resume.  Mutant: the target is resumed first.                           *)
StepsResumedFirst(s) ==
    (IF Resumes(s) THEN <<"resume">> ELSE <<>>) \o <<"enable", "bundle", "claims">>

Steps(s) ==
    (IF s \in Workers THEN <<>> ELSE <<"enable">>) \o <<"bundle", "claims">>
        \o (IF Resumes(s) THEN <<"resume">> ELSE <<>>)

(* deliver: inject awaits its reply, evaluate does not.  Mutant: it does.  *)
AwaitsAll(s, cmd) == TRUE

Awaits(s, cmd) == cmd = "bundle" => s \notin Workers
-----------------------------------------------------------------------------
Attach(s) ==
    /\ BrowserAttach(s)
    /\ code' = [code EXCEPT ![s] = IF Pauses(s) THEN "paused" ELSE "running"]
    /\ UNCHANGED <<inbox, stage, awaited, bundled, refused, faults>>

(* What a handler awaits fails: deliver, attach and resume catch it and go *)
(* on, but inject that has failed to enable the domain sends no bundle.    *)
Fail(s) ==
    /\ awaited' = [awaited EXCEPT ![s] = "none"]
    /\ stage' = IF awaited[s] = "enable" THEN [stage EXCEPT ![s] = @ + 1] ELSE stage
    /\ refused' = IF awaited[s] = "enable" THEN refused \cup {s} ELSE refused

(* A target goes; what was sent to it is answered with an error. *)
Detach(s) ==
    /\ BrowserDetach(s)
    /\ code' = [code EXCEPT ![s] = "gone"]
    /\ inbox' = [inbox EXCEPT ![s] = <<>>]
    /\ Fail(s)
    /\ UNCHANGED <<bundled, faults>>

(* The browser comes to a command and carries it out.  A worker that is     *)
(* paused evaluates the bundle and answers when it is resumed.             *)
Answers(s, cmd) ==
    IF s \in Workers
    THEN CASE cmd = "bundle" /\ code[s] = "paused" -> {}
           [] cmd = "resume"                       -> {"resume", "bundle"}
           [] OTHER                                -> {cmd}
    ELSE {cmd}

Execute(s) ==
    /\ inbox[s] # <<>> /\ code[s] # "gone"
    /\ LET cmd == Head(inbox[s]) IN
        /\ inbox' = [inbox EXCEPT ![s] = Tail(@)]
        /\ code' = [code EXCEPT ![s] = IF cmd = "resume" THEN "running" ELSE @]
        /\ bundled' = IF cmd = "bundle" /\ code[s] = "paused" THEN bundled \cup {s} ELSE bundled
        /\ awaited' = IF awaited[s] \in Answers(s, cmd) THEN [awaited EXCEPT ![s] = "none"] ELSE awaited
    /\ UNCHANGED <<vars, stage, refused, faults>>

(* What is sent to a target that has gone fails; others do at times.        *)
Fault(s) ==
    IF code[s] = "gone" THEN UNCHANGED faults
    ELSE faults < MaxFaults /\ faults' = faults + 1

(* The browser comes to a command and answers it with an error. *)
Refuse(s) ==
    /\ inbox[s] # <<>>
    /\ LET cmd == Head(inbox[s]) IN
        /\ cmd = "resume" => code[s] = "gone"
        /\ inbox' = [inbox EXCEPT ![s] = Tail(@)]
        /\ \/ awaited[s] = cmd /\ cmd # "bundle" /\ Fail(s)
           \/ /\ cmd = "bundle"
              /\ awaited' = IF awaited[s] = cmd THEN [awaited EXCEPT ![s] = "none"] ELSE awaited
              /\ refused' = refused \cup {s} /\ UNCHANGED stage
           \/ awaited[s] # cmd /\ cmd # "bundle" /\ UNCHANGED <<awaited, stage, refused>>
    /\ Fault(s)
    /\ UNCHANGED <<vars, code, bundled>>

(* ctx.send gives up after 30 seconds; the browser may still come to the    *)
(* command, and to what is sent after it in the order it was sent.         *)
TimeOut(s) ==
    /\ awaited[s] # "none" /\ Fail(s) /\ Fault(s)
    /\ UNCHANGED <<vars, code, inbox, bundled>>
-----------------------------------------------------------------------------
Delivered(s) == stage[s] = Len(Steps(s)) /\ awaited[s] = "none"

(* The handler of an attach takes its next step. *)
Deliver(t) ==
    LET s == tasks[t].of IN
    /\ tasks[t].at = "running" /\ tasks[t].kind = "attach"
    /\ awaited[s] = "none" /\ stage[s] < Len(Steps(s))
    /\ LET cmd == Steps(s)[stage[s] + 1] IN
        /\ inbox' = [inbox EXCEPT ![s] = Append(@, cmd)]
        /\ stage' = [stage EXCEPT ![s] = @ + 1]
        /\ awaited' = IF Awaits(s, cmd) THEN [awaited EXCEPT ![s] = cmd] ELSE awaited
    /\ UNCHANGED <<vars, code, bundled, refused, faults>>

(* The message goes out: an attach once everything has been delivered.      *)
Forward(t) ==
    /\ Finish(t)
    /\ tasks[t].kind = "attach" => Delivered(tasks[t].of)
    /\ UNCHANGED delivery

(* The client resumes what it asked to be paused, once it knows of it. *)
ClientResumes(s) ==
    /\ told[s] = "attached" /\ Parent[s] \in Asks /\ code[s] = "paused"
    /\ \A i \in DOMAIN inbox[s] : inbox[s][i] # "resume"
    /\ inbox' = [inbox EXCEPT ![s] = Append(@, "resume")]
    /\ UNCHANGED <<vars, code, stage, awaited, bundled, refused, faults>>

RealmsNext ==
    \/ \E s \in Sessions : \/ Attach(s) \/ Detach(s) \/ ClientResumes(s)
                           \/ Execute(s) \/ Refuse(s) \/ TimeOut(s)
    \/ \E k \in Key : (BrowserMessage(k) \/ ClientMessage(k)) /\ UNCHANGED delivery
    \/ \E t \in DOMAIN tasks : (Start(t) /\ UNCHANGED delivery) \/ Deliver(t) \/ Forward(t)

(* As in Ordering (the hooks of an attach return before its delivery); the *)
(* browser answers one way or the other, and the client resumes.           *)
RealmsFairness ==
    /\ \A t \in 1..MaxTasks :
        /\ WF_<<vars, delivery>>(t \in DOMAIN tasks /\ Start(t) /\ UNCHANGED delivery)
        /\ WF_<<vars, delivery>>(t \in DOMAIN tasks /\ ~Stuck(t) /\ (Deliver(t) \/ Forward(t)))
    /\ \A s \in Sessions : /\ WF_<<vars, delivery>>(Execute(s) \/ Refuse(s))
                          /\ WF_<<vars, delivery>>(ClientResumes(s))

RealmsSpec == RealmsInit /\ [][RealmsNext]_<<vars, delivery>> /\ RealmsFairness
-----------------------------------------------------------------------------
(* The code of a target that was paused at its start has the bundle when   *)
(* it runs, whoever resumes it, unless the browser refused the bundle or   *)
(* the domain it needs could not be enabled.  A reply that comes too late  *)
(* is no excuse: the browser comes to the bundle before the resume.        *)
BundleFirst ==
    \A s \in Sessions : Pauses(s) /\ code[s] = "running" => s \in bundled \cup refused

(* Nobody waits for whom waits for them: every paused target runs, though  *)
(* its delivery may fail, and no command has to time out for it, unless    *)
(* its attach is held up by a hook of the slow page.                       *)
PausedTargetsRun ==
    \A s \in Sessions :
        /\ code[s] = "paused"
        /\ \A t \in DOMAIN tasks : tasks[t].kind = "attach" /\ tasks[t].of = s => ~Held(t)
        ~> code[s] # "paused"

(* #derive: "the bundle is already in by here, so releasing it is safe".    *)
ReleasedWithBundle ==
    \A s \in Sessions : Resumes(s) /\ code[s] = "running" => s \in bundled
=============================================================================
