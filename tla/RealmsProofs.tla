------------------------------ MODULE RealmsProofs ------------------------------
(***************************************************************************)
(* Theorems about Ordering and Realms for every tree of sessions: the      *)
(* order in which messages are handled, and the delivery of the bundle     *)
(* before a target runs.                                                   *)
(***************************************************************************)
EXTENDS Realms, SequenceTheorems, TLAPS

(* What a chain holds for a key is the last message of that key, and a     *)
(* session without a chain has had no message or has been retired.         *)
Chains ==
    /\ \A d \in Side : \A k \in DOMAIN chains[d] :
           /\ tasks[chains[d][k]].side = d /\ tasks[chains[d][k]].key = k
           /\ \A t \in DOMAIN tasks : tasks[t].side = d /\ tasks[t].key = k => t <= chains[d][k]
    /\ \A t \in DOMAIN tasks :
           \/ tasks[t].key \in DOMAIN chains[tasks[t].side]
           \/ tasks[t].key \in Sessions /\ Retired(tasks[t].key)

(* A message follows every earlier one of its queue, and has begun only if  *)
(* what it follows was settled.                                            *)
Follows(i, j) ==
    LET p == tasks[j].after IN
    i <= p /\ p < j /\ tasks[p].side = tasks[j].side /\ tasks[p].key = tasks[j].key

Queues ==
    /\ \A t \in DOMAIN tasks : tasks[t].late => tasks[t].key \in Sessions /\ Retired(tasks[t].key)
    /\ \A i, j \in DOMAIN tasks :
           i < j /\ tasks[i].key = tasks[j].key /\ tasks[i].late => tasks[j].late
    /\ \A i, j \in DOMAIN tasks :
           /\ i < j /\ tasks[i].side = tasks[j].side /\ tasks[i].key = tasks[j].key
           /\ ~ tasks[j].late
           => Follows(i, j)
    /\ \A j \in DOMAIN tasks : Begun(j) => tasks[j].after \in Settled

(* What CDP lets the browser send. *)
World ==
    /\ \A t \in DOMAIN tasks : tasks[t].kind = "attach" =>
           /\ tasks[t].of \in Sessions /\ phase[tasks[t].of] # "new"
           /\ tasks[t].side = "browser" /\ tasks[t].key = Parent[tasks[t].of]
    /\ \A t \in DOMAIN tasks : tasks[t].kind = "detach" =>
           tasks[t].of \in Sessions /\ phase[tasks[t].of] = "detached"
    /\ \A t \in DOMAIN tasks : tasks[t].key \in Sessions /\ tasks[t].side = "browser" =>
           phase[tasks[t].key] # "new" /\ ~ tasks[t].late
    /\ \A s \in Sessions : phase[s] = "attached" => Parent[s] \in Open(phase)

(* A message of a session on the root chain is chained on its attach, on    *)
(* what came after it there, or on another of its own.                     *)
BehindAttach(i, j) ==
    LET p == tasks[j].after IN
    /\ i < j /\ p \in DOMAIN tasks /\ tasks[p].side = "browser"
    /\ tasks[p].key = tasks[i].of \/ (tasks[p].key = Root /\ i <= p)

Attached ==
    \A i, j \in DOMAIN tasks :
        /\ tasks[i].kind = "attach" /\ Parent[tasks[i].of] = Root
        /\ tasks[j].key = tasks[i].of /\ tasks[j].side = "browser"
        => BehindAttach(i, j)

OInv == /\ TypeOK /\ Chains /\ Queues /\ World /\ Attached
        /\ OrderWithinSession /\ AttachFirst /\ RetiredForGood

(* A target that waits for its bundle, and has not lost it, has it at the   *)
(* head of its inbox as soon as it was sent; before that, it has at most    *)
(* the command that enables the domain, which its handler awaits.          *)
Command == {"enable", "bundle", "claims", "resume"}

DeliveryType ==
    /\ code \in [Sessions -> {"none", "paused", "running", "gone"}]
    /\ inbox \in [Sessions -> Seq(Command)] /\ stage \in [Sessions -> Nat]
    /\ awaited \in [Sessions -> Command \cup {"none"}]
    /\ bundled \subseteq Sessions /\ refused \subseteq Sessions

Past(s) == stage[s] > IF s \in Workers THEN 0 ELSE 1

Waits(s) == code[s] = "paused" /\ s \notin bundled \cup refused

Heads ==
    \A s \in Sessions :
        /\ code[s] = "none" <=> phase[s] = "new"
        /\ phase[s] = "new" => stage[s] = 0 /\ inbox[s] = <<>> /\ awaited[s] = "none"
        /\ ~ Past(s) => told[s] # "attached" /\ awaited[s] \in {"none", "enable"}
        /\ stage[s] = 0 => awaited[s] = "none"
        /\ Waits(s) /\ Past(s) => inbox[s] # <<>> /\ Head(inbox[s]) = "bundle"
        /\ Waits(s) /\ ~ Past(s) =>
               inbox[s] = IF awaited[s] = "none" THEN <<>> ELSE <<"enable">>

RInv == OInv /\ DeliveryType /\ Heads /\ BundleFirst
-----------------------------------------------------------------------------
Fresh == Len(tasks) + 1

LEMMA Typed ==
    ASSUME TypeOK
    PROVE  /\ DOMAIN tasks = 1..Len(tasks) /\ Len(tasks) \in Nat
           /\ \A t \in DOMAIN tasks :
                  /\ t \in Nat /\ tasks[t].side \in Side /\ tasks[t].key \in Key
                  /\ tasks[t].of \in Key /\ tasks[t].kind \in Kind /\ tasks[t].after \in Nat
                  /\ tasks[t].at \in {"queued", "running", "done"}
  <1>1. /\ tasks \in Seq(Task) /\ DOMAIN tasks = 1..Len(tasks) /\ Len(tasks) \in Nat
        /\ MaxTasks \in Nat
    BY SessionAssumption DEF TypeOK
  <1>2. \A t \in DOMAIN tasks : t \in Nat /\ tasks[t] \in Task
    BY <1>1
  <1> QED BY <1>1, <1>2 DEF Task

LEMMA PreviousType ==
    ASSUME TypeOK, NEW side \in Side, NEW key \in Key
    PROVE  /\ Previous(side, key) \in 0..Len(tasks)
           /\ key \in DOMAIN chains[side] => Previous(side, key) = chains[side][key]
           /\ key \notin DOMAIN chains[side] /\ Root \in DOMAIN chains[side] =>
                  Previous(side, key) = chains[side][Root]
  <1>1. \A k \in DOMAIN chains[side] : chains[side][k] \in 1..Len(tasks)
    BY DEF TypeOK
  <1>2. Len(tasks) \in Nat
    BY DEF TypeOK
  <1>3. CASE key \in DOMAIN chains[side]
    BY <1>1, <1>2, <1>3 DEF Previous
  <1>4. CASE key \notin DOMAIN chains[side] /\ Root \in DOMAIN chains[side]
    BY <1>1, <1>2, <1>4 DEF Previous
  <1>5. CASE key \notin DOMAIN chains[side] /\ Root \notin DOMAIN chains[side]
    BY <1>2, <1>5 DEF Previous
  <1> QED BY <1>3, <1>4, <1>5

(* A message arrives. *)
LEMMA Ordered ==
    ASSUME TypeOK, NEW side \in Side, NEW key \in Key, NEW kind \in Kind, NEW of \in Key,
           Order(side, key, kind, of)
    PROVE  /\ DOMAIN tasks = 1..Len(tasks) /\ DOMAIN tasks' = DOMAIN tasks \cup {Fresh}
           /\ Fresh \in Nat /\ tasks' \in Seq(Task) /\ Len(tasks') <= MaxTasks
           /\ \A t \in DOMAIN tasks : tasks'[t] = tasks[t] /\ t < Fresh
           /\ tasks'[Fresh].side = side /\ tasks'[Fresh].key = key /\ tasks'[Fresh].kind = kind
           /\ tasks'[Fresh].of = of /\ tasks'[Fresh].at = "queued"
           /\ tasks'[Fresh].after = Previous(side, key)
           /\ tasks'[Fresh].late <=> key \in Sessions /\ Retired(key)
  <1> DEFINE r == [side |-> side, key |-> key, kind |-> kind, of |-> of,
                   after |-> Previous(side, key), at |-> "queued",
                   late |-> key \in Sessions /\ Retired(key)]
  <1>1. tasks \in Seq(Task) /\ Len(tasks) \in Nat /\ DOMAIN tasks = 1..Len(tasks)
    BY DEF TypeOK
  <1>2. Fresh <= MaxTasks /\ tasks' = Append(tasks, r)
    BY DEF Order, Fresh
  <1>3. Previous(side, key) \in 0..MaxTasks
    BY <1>1, <1>2, PreviousType, SessionAssumption DEF Fresh
  <1>4. r \in Task
    BY <1>3 DEF Task
  <1>5. /\ r.side = side /\ r.key = key /\ r.kind = kind /\ r.of = of /\ r.at = "queued"
        /\ r.after = Previous(side, key)
        /\ r.late <=> key \in Sessions /\ Retired(key)
    OBVIOUS
  <1> HIDE DEF r
  <1>6. /\ tasks' \in Seq(Task) /\ Len(tasks') = Fresh /\ DOMAIN tasks' = 1..Fresh
        /\ \A t \in 1..Len(tasks) : tasks'[t] = tasks[t]
        /\ tasks'[Fresh] = r
    BY <1>1, <1>2, <1>4 DEF Fresh
  <1> QED BY <1>1, <1>2, <1>5, <1>6 DEF Fresh

LEMMA Chained ==
    ASSUME TypeOK, NEW side \in Side, NEW key \in Key, NEW kind, NEW of,
           Order(side, key, kind, of)
    PROVE  /\ DOMAIN chains' = Side
           /\ \A d \in Side \ {side} : chains'[d] = chains[d]
           /\ DOMAIN chains'[side] = DOMAIN chains[side] \cup {key}
           /\ chains'[side][key] = Fresh
           /\ \A k \in DOMAIN chains[side] \ {key} : chains'[side][k] = chains[side][k]
  BY DEF Order, TypeOK, Fresh

(* A message is taken a step further. *)
LEMMA Marked ==
    ASSUME TypeOK, NEW t \in DOMAIN tasks, NEW at \in {"running", "done"},
           tasks' = [tasks EXCEPT ![t].at = at]
    PROVE  /\ tasks' \in Seq(Task) /\ Len(tasks') = Len(tasks) /\ DOMAIN tasks' = DOMAIN tasks
           /\ tasks'[t].at = at
           /\ \A i \in DOMAIN tasks :
                  /\ tasks'[i].side = tasks[i].side /\ tasks'[i].key = tasks[i].key
                  /\ tasks'[i].kind = tasks[i].kind /\ tasks'[i].of = tasks[i].of
                  /\ tasks'[i].after = tasks[i].after
                  /\ tasks'[i].late <=> tasks[i].late
                  /\ i # t => tasks'[i].at = tasks[i].at
  <1>1. tasks \in Seq(Task) /\ DOMAIN tasks = 1..Len(tasks) /\ Len(tasks) \in Nat
    BY DEF TypeOK
  <1>2. tasks[t] \in Task
    BY <1>1
  <1>3. PICK r : r = [tasks[t] EXCEPT !.at = at]
    OBVIOUS
  <1>4. /\ r.side = tasks[t].side /\ r.key = tasks[t].key /\ r.kind = tasks[t].kind
        /\ r.of = tasks[t].of /\ r.after = tasks[t].after /\ r.at = at /\ r \in Task
        /\ r.late <=> tasks[t].late
    BY <1>2, <1>3 DEF Task
  <1>5. tasks' = [tasks EXCEPT ![t] = r]
    BY <1>3
  <1>6. /\ tasks' \in Seq(Task) /\ Len(tasks') = Len(tasks) /\ DOMAIN tasks' = DOMAIN tasks
        /\ \A i \in DOMAIN tasks : tasks'[i] = IF i = t THEN r ELSE tasks[i]
    BY <1>1, <1>4, <1>5
  <1> QED BY <1>4, <1>6
-----------------------------------------------------------------------------
LEMMA RetiredKept ==
    ASSUME TypeOK, NEW side \in Side, NEW key \in Key, NEW kind \in Kind, NEW of \in Key,
           Order(side, key, kind, of), NEW s
    PROVE  Retired(s)' <=> Retired(s)
  BY Ordered DEF Retired

LEMMA ChainsArrive ==
    ASSUME TypeOK, Chains,
           NEW side \in Side, NEW key \in Key, NEW kind \in Kind, NEW of \in Key,
           Order(side, key, kind, of)
    PROVE  Chains'
  <1>1. /\ DOMAIN tasks' = DOMAIN tasks \cup {Fresh} /\ Fresh \in Nat
        /\ \A t \in DOMAIN tasks : tasks'[t] = tasks[t] /\ t < Fresh
        /\ tasks'[Fresh].side = side /\ tasks'[Fresh].key = key
    BY Ordered
  <1>2. /\ \A d \in Side \ {side} : chains'[d] = chains[d]
        /\ DOMAIN chains'[side] = DOMAIN chains[side] \cup {key}
        /\ chains'[side][key] = Fresh
        /\ \A k \in DOMAIN chains[side] \ {key} : chains'[side][k] = chains[side][k]
    BY Chained
  <1>3. \A d \in Side : \A k \in DOMAIN chains[d] : chains[d][k] \in DOMAIN tasks
    BY DEF TypeOK
  <1>4. \A t \in DOMAIN tasks : tasks[t].side \in Side /\ t \in Nat
    BY Typed
  <1>5. ASSUME NEW d \in Side, NEW k \in DOMAIN chains'[d]
        PROVE  /\ tasks'[chains'[d][k]].side = d /\ tasks'[chains'[d][k]].key = k
               /\ \A t \in DOMAIN tasks' : tasks'[t].side = d /\ tasks'[t].key = k => t <= chains'[d][k]
    <2>1. CASE d = side /\ k = key
      BY <1>1, <1>2, <1>4, <2>1
    <2>2. CASE ~ (d = side /\ k = key)
      <3>1. k \in DOMAIN chains[d] /\ chains'[d][k] = chains[d][k]
        BY <1>2, <1>5, <2>2
      <3>2. PICK n \in DOMAIN tasks : n = chains[d][k]
        BY <1>3, <3>1
      <3>3. tasks[n].side = d /\ tasks[n].key = k
            /\ \A t \in DOMAIN tasks : tasks[t].side = d /\ tasks[t].key = k => t <= n
        BY <3>1, <3>2 DEF Chains
      <3> QED BY <1>1, <2>2, <3>1, <3>2, <3>3
    <2> QED BY <2>1, <2>2
  <1>6. ASSUME NEW t \in DOMAIN tasks'
        PROVE  \/ tasks'[t].key \in DOMAIN chains'[tasks'[t].side]
               \/ tasks'[t].key \in Sessions /\ Retired(tasks[t].key)'
    <2>1. CASE t = Fresh
      BY <1>1, <1>2, <2>1
    <2>2. CASE t # Fresh
      <3>1. t \in DOMAIN tasks /\ tasks'[t] = tasks[t]
        BY <1>1, <2>2
      <3>2. \/ tasks[t].key \in DOMAIN chains[tasks[t].side]
            \/ tasks[t].key \in Sessions /\ Retired(tasks[t].key)
        BY <3>1 DEF Chains
      <3>3. PICK k : k = tasks[t].key
        OBVIOUS
      <3>4. Retired(k) => Retired(k)'
        BY RetiredKept
      <3>5. Retired(k)' => Retired(tasks[t].key)'
        BY <3>1, <3>3 DEF Retired
      <3> QED BY <1>2, <1>4, <3>1, <3>2, <3>3, <3>4, <3>5
    <2> QED BY <2>1, <2>2
  <1> QED BY <1>5, <1>6 DEF Chains

LEMMA QueuesArrive ==
    ASSUME TypeOK, Chains, Queues, OrderWithinSession,
           NEW side \in Side, NEW key \in Key, NEW kind \in Kind, NEW of \in Key,
           Order(side, key, kind, of)
    PROVE  Queues' /\ OrderWithinSession'
  <1>1. /\ DOMAIN tasks' = DOMAIN tasks \cup {Fresh} /\ Fresh \in Nat
        /\ \A t \in DOMAIN tasks : tasks'[t] = tasks[t] /\ t < Fresh
        /\ tasks'[Fresh].side = side /\ tasks'[Fresh].key = key /\ tasks'[Fresh].at = "queued"
        /\ tasks'[Fresh].after = Previous(side, key)
        /\ tasks'[Fresh].late <=> key \in Sessions /\ Retired(key)
    BY Ordered
  <1>2. \A t \in DOMAIN tasks : t \in Nat
    BY Typed
  <1>3. ASSUME NEW t \in DOMAIN tasks', tasks'[t].late
        PROVE  tasks'[t].key \in Sessions /\ Retired(tasks[t].key)'
    <2>1. PICK k : k = tasks'[t].key
      OBVIOUS
    <2>2. k \in Sessions /\ Retired(k)
      BY <1>1, <1>3, <2>1 DEF Queues
    <2>3. Retired(k)'
      BY <2>2, RetiredKept
    <2> QED BY <2>1, <2>2, <2>3 DEF Retired
  <1>4. ASSUME NEW i \in DOMAIN tasks', NEW j \in DOMAIN tasks',
               i < j, tasks'[i].key = tasks'[j].key, tasks'[i].late
        PROVE  tasks'[j].late
    <2>1. i \in DOMAIN tasks /\ tasks'[i] = tasks[i]
      BY <1>1, <1>2, <1>4
    <2>2. tasks[i].key \in Sessions /\ Retired(tasks[i].key)
      BY <1>4, <2>1 DEF Queues
    <2>3. CASE j = Fresh
      BY <1>1, <1>4, <2>1, <2>2, <2>3
    <2>4. CASE j # Fresh
      BY <1>1, <1>4, <2>1, <2>4 DEF Queues
    <2> QED BY <2>3, <2>4
  <1>5. ASSUME NEW i \in DOMAIN tasks', NEW j \in DOMAIN tasks',
               i < j, tasks'[i].side = tasks'[j].side, tasks'[i].key = tasks'[j].key,
               ~ tasks'[j].late
        PROVE  Follows(i, j)'
    <2>1. i \in DOMAIN tasks /\ tasks'[i] = tasks[i]
      BY <1>1, <1>2, <1>5
    <2>2. CASE j = Fresh
      <3>1. key \in DOMAIN chains[side]
        BY <1>1, <1>5, <2>1, <2>2 DEF Chains
      <3>2. PICK p \in DOMAIN tasks : p = chains[side][key]
        BY <3>1 DEF TypeOK
      <3>3. tasks[p].side = side /\ tasks[p].key = key /\ i <= p
        BY <1>1, <1>5, <2>1, <2>2, <3>1, <3>2 DEF Chains
      <3>4. Previous(side, key) = p
        BY <3>1, <3>2, PreviousType
      <3> QED BY <1>1, <2>2, <3>3, <3>4 DEF Follows
    <2>3. CASE j # Fresh
      <3>1. j \in DOMAIN tasks /\ tasks'[j] = tasks[j]
        BY <1>1, <2>3
      <3>2. PICK p : p = tasks[j].after
        OBVIOUS
      <3>3. i <= p /\ p < j /\ tasks[p].side = tasks[j].side /\ tasks[p].key = tasks[j].key
        BY <1>5, <2>1, <3>1, <3>2 DEF Queues, Follows
      <3>4. p \in DOMAIN tasks
        <4>1. p \in Nat /\ DOMAIN tasks = 1..Len(tasks) /\ Len(tasks) \in Nat
          BY <3>1, <3>2, Typed
        <4> QED BY <2>1, <3>1, <3>3, <4>1
      <3> QED BY <1>1, <3>1, <3>2, <3>3, <3>4 DEF Follows
    <2> QED BY <2>2, <2>3
  <1>6. ASSUME NEW j \in DOMAIN tasks', Begun(j)'
        PROVE  tasks'[j].after \in Settled'
    <2>1. j \in DOMAIN tasks /\ tasks'[j] = tasks[j] /\ Begun(j)
      BY <1>1, <1>6 DEF Begun
    <2>2. tasks[j].after \in Settled
      BY <2>1 DEF Queues
    <2> QED BY <1>1, <2>1, <2>2 DEF Settled
  <1>7. Queues'
    BY <1>3, <1>4, <1>5, <1>6 DEF Queues
  <1>8. ASSUME NEW i \in DOMAIN tasks', NEW j \in DOMAIN tasks',
               i < j, tasks'[i].side = tasks'[j].side, tasks'[i].key = tasks'[j].key,
               ~ tasks'[j].late, Begun(j)'
        PROVE  tasks'[i].at = "done"
    <2>1. j \in DOMAIN tasks /\ tasks'[j] = tasks[j] /\ Begun(j)
      BY <1>1, <1>8 DEF Begun
    <2>2. i \in DOMAIN tasks /\ tasks'[i] = tasks[i]
      BY <1>1, <1>2, <1>8
    <2> QED BY <1>8, <2>1, <2>2 DEF OrderWithinSession
  <1> QED BY <1>7, <1>8 DEF OrderWithinSession
-----------------------------------------------------------------------------
(* The session of a browser message is attached, so nobody has retired it. *)
LEMMA AttachedIsNotRetired ==
    ASSUME World, NEW s \in Sessions, phase[s] = "attached"
    PROVE  ~ Retired(s)
  BY DEF World, Retired

(* What an arrival has to satisfy. *)
Sent(side, key, kind, of) ==
    /\ \A s \in Sessions : /\ phase[s] # "new" => phase'[s] # "new"
                           /\ phase[s] = "detached" => phase'[s] = "detached"
                           /\ phase'[s] = "attached" => Parent[s] \in Open(phase')
    /\ side = "browser" /\ key \in Sessions => phase[key] = "attached"
    /\ kind = "attach" => /\ of \in Sessions /\ phase[of] = "new" /\ phase'[of] # "new"
                          /\ side = "browser" /\ key = Parent[of]
    /\ kind = "detach" => of \in Sessions /\ phase'[of] = "detached"

LEMMA WorldArrive ==
    ASSUME TypeOK, World,
           NEW side \in Side, NEW key \in Key, NEW kind \in Kind, NEW of \in Key,
           Order(side, key, kind, of), Sent(side, key, kind, of)
    PROVE  World'
  <1>1. /\ DOMAIN tasks' = DOMAIN tasks \cup {Fresh} /\ Fresh \in Nat
        /\ \A t \in DOMAIN tasks : tasks'[t] = tasks[t] /\ t < Fresh
        /\ tasks'[Fresh].side = side /\ tasks'[Fresh].key = key /\ tasks'[Fresh].kind = kind
        /\ tasks'[Fresh].of = of
        /\ tasks'[Fresh].late <=> key \in Sessions /\ Retired(key)
    BY Ordered
  <1>2. \A t \in DOMAIN tasks' : tasks'[t].kind = "attach" =>
           /\ tasks'[t].of \in Sessions /\ phase'[tasks'[t].of] # "new"
           /\ tasks'[t].side = "browser" /\ tasks'[t].key = Parent[tasks'[t].of]
    BY <1>1 DEF World, Sent
  <1>3. \A t \in DOMAIN tasks' : tasks'[t].kind = "detach" =>
           tasks'[t].of \in Sessions /\ phase'[tasks'[t].of] = "detached"
    BY <1>1 DEF World, Sent
  <1>4. ASSUME NEW t \in DOMAIN tasks', tasks'[t].key \in Sessions, tasks'[t].side = "browser"
        PROVE  phase'[tasks'[t].key] # "new" /\ ~ tasks'[t].late
    <2>1. CASE t = Fresh
      BY <1>1, <1>4, <2>1, AttachedIsNotRetired DEF Sent
    <2>2. CASE t # Fresh
      BY <1>1, <1>4, <2>2 DEF World, Sent
    <2> QED BY <2>1, <2>2
  <1> QED BY <1>2, <1>3, <1>4 DEF World, Sent

LEMMA AttachedArrive ==
    ASSUME TypeOK, Chains, World, Attached, AttachFirst, RetiredForGood,
           NEW side \in Side, NEW key \in Key, NEW kind \in Kind, NEW of \in Key,
           Order(side, key, kind, of), Sent(side, key, kind, of)
    PROVE  Attached' /\ AttachFirst' /\ RetiredForGood'
  <1>1. /\ DOMAIN tasks' = DOMAIN tasks \cup {Fresh} /\ Fresh \in Nat
        /\ \A t \in DOMAIN tasks : tasks'[t] = tasks[t] /\ t < Fresh
        /\ tasks'[Fresh].side = side /\ tasks'[Fresh].key = key /\ tasks'[Fresh].kind = kind
        /\ tasks'[Fresh].of = of /\ tasks'[Fresh].at = "queued"
        /\ tasks'[Fresh].after = Previous(side, key)
    BY Ordered
  <1>2. ASSUME NEW i \in DOMAIN tasks', NEW j \in DOMAIN tasks',
               tasks'[i].kind = "attach", Parent[tasks'[i].of] = Root,
               tasks'[j].key = tasks'[i].of, tasks'[j].side = "browser"
        PROVE  i \in DOMAIN tasks /\ BehindAttach(i, j)' /\ (Begun(j)' => tasks'[i].at = "done")
    <2>1. i \in DOMAIN tasks
      <3>1. CASE i = Fresh /\ j = Fresh
        BY <1>1, <1>2, <3>1, SessionAssumption DEF Sent
      <3>2. CASE i = Fresh /\ j # Fresh
        BY <1>1, <1>2, <3>2 DEF Sent, World
      <3> QED BY <1>1, <3>1, <3>2
    <2>2. tasks[i].kind = "attach" /\ tasks'[i] = tasks[i] /\ i < Fresh /\ i \in Nat
      BY <1>1, <1>2, <2>1, Typed
    <2>3. CASE j # Fresh
      <3>1. j \in DOMAIN tasks /\ tasks'[j] = tasks[j]
        BY <1>1, <2>3
      <3>2. BehindAttach(i, j)
        BY <1>2, <2>1, <2>2, <3>1 DEF Attached
      <3>3. BehindAttach(i, j)'
        BY <1>1, <2>2, <3>1, <3>2 DEF BehindAttach
      <3>4. Begun(j)' => tasks'[i].at = "done"
        BY <1>2, <2>1, <2>2, <3>1 DEF AttachFirst, Begun
      <3> QED BY <2>1, <3>3, <3>4
    <2>4. CASE j = Fresh
      <3>1. side = "browser" /\ key = tasks[i].of
        BY <1>1, <1>2, <2>2, <2>4
      <3>2. PICK p : p = Previous(side, key)
        OBVIOUS
      <3>3. p \in DOMAIN tasks /\ tasks[p].side = "browser"
            /\ (tasks[p].key = key \/ (tasks[p].key = Root /\ i <= p))
        <4>1. CASE key \in DOMAIN chains["browser"]
          BY <3>1, <3>2, <4>1, PreviousType DEF TypeOK, Chains, Side
        <4>2. CASE key \notin DOMAIN chains["browser"]
          <5>1. tasks[i].side = "browser" /\ tasks[i].key = Root
            BY <1>2, <2>1, <2>2 DEF World
          <5>2. Root \in DOMAIN chains["browser"]
            BY <2>1, <5>1, SessionAssumption DEF Chains
          <5>3. p = chains["browser"][Root]
            BY <3>1, <3>2, <4>2, <5>2, PreviousType
          <5> QED BY <2>1, <5>1, <5>2, <5>3 DEF TypeOK, Chains, Side
        <4> QED BY <4>1, <4>2
      <3>4. BehindAttach(i, j)'
        BY <1>1, <2>2, <2>4, <3>1, <3>2, <3>3 DEF BehindAttach
      <3> QED BY <1>1, <2>1, <2>4, <3>4 DEF Begun
    <2> QED BY <2>3, <2>4
  <1>3. ASSUME NEW s \in Sessions, Retired(s)'
        PROVE  s \notin DOMAIN chains'["browser"]
    <2>1. Retired(s)
      BY <1>3, RetiredKept
    <2>2. ~ (side = "browser" /\ key = s)
      BY <2>1, AttachedIsNotRetired DEF Sent
    <2>3. s \notin DOMAIN chains["browser"]
      BY <2>1 DEF RetiredForGood
    <2> QED BY <2>2, <2>3, Chained DEF Side
  <1> QED BY <1>2, <1>3 DEF Attached, AttachFirst, RetiredForGood
-----------------------------------------------------------------------------
LEMMA Sending ==
    /\ \A s \in Sessions : TypeOK /\ World /\ BrowserAttach(s) =>
           Sent("browser", Parent[s], "attach", s) /\ Order("browser", Parent[s], "attach", s)
    /\ \A s \in Sessions : TypeOK /\ World /\ BrowserDetach(s) =>
           Sent("browser", Parent[s], "detach", s) /\ Order("browser", Parent[s], "detach", s)
    /\ \A k \in Key : TypeOK /\ World /\ BrowserMessage(k) =>
           Sent("browser", k, "other", k) /\ Order("browser", k, "other", k)
    /\ \A k \in Key : TypeOK /\ World /\ ClientMessage(k) =>
           Sent("client", k, "other", k) /\ Order("client", k, "other", k)
  <1>1. ASSUME TypeOK
        PROVE  phase \in [Sessions -> {"new", "attached", "detached"}]
    BY <1>1 DEF TypeOK
  <1>2. \A s \in Sessions : Parent[s] \in Key /\ s # Root
    BY SessionAssumption DEF Key
  <1>3. ASSUME NEW s \in Sessions, TypeOK, World, BrowserAttach(s)
        PROVE  Sent("browser", Parent[s], "attach", s) /\ Order("browser", Parent[s], "attach", s)
    BY <1>1, <1>2, <1>3 DEF BrowserAttach, Sent, Open, World
  <1>4. ASSUME NEW s \in Sessions, TypeOK, World, BrowserDetach(s)
        PROVE  Sent("browser", Parent[s], "detach", s) /\ Order("browser", Parent[s], "detach", s)
    BY <1>1, <1>2, <1>4 DEF BrowserDetach, Sent, Open, World
  <1>5. ASSUME NEW k \in Key, TypeOK, World, BrowserMessage(k)
        PROVE  Sent("browser", k, "other", k) /\ Order("browser", k, "other", k)
    BY <1>2, <1>5 DEF BrowserMessage, Sent, Open, World, Key
  <1>6. ASSUME NEW k \in Key, TypeOK, World, ClientMessage(k)
        PROVE  Sent("client", k, "other", k) /\ Order("client", k, "other", k)
    BY <1>2, <1>6 DEF ClientMessage, Sent, Open, World, Key
  <1> QED BY <1>3, <1>4, <1>5, <1>6

LEMMA ArriveStep == OInv /\ Arrive => OInv'
  <1> SUFFICES ASSUME OInv, Arrive
               PROVE  OInv'
    OBVIOUS
  <1> USE DEF OInv
  <1>1. PICK side \in Side, key \in Key, kind \in Kind, of \in Key :
          Order(side, key, kind, of) /\ Sent(side, key, kind, of)
    <2>1. \A s \in Sessions : Parent[s] \in Key /\ s \in Key
      BY SessionAssumption DEF Key
    <2> QED BY <2>1, Sending DEF Arrive, Side, Kind
  <1>2. /\ phase' \in [Sessions -> {"new", "attached", "detached"}]
        /\ UNCHANGED <<targets, told>>
    BY DEF Arrive, BrowserAttach, BrowserDetach, BrowserMessage, ClientMessage, TypeOK
  <1>3. TypeOK'
    <2>1. \A d \in Side : DOMAIN chains'[d] \subseteq Key
                          /\ \A k \in DOMAIN chains'[d] : chains'[d][k] \in DOMAIN tasks'
      BY <1>1, Ordered, Chained DEF TypeOK
    <2> QED BY <1>1, <1>2, <2>1, Ordered, Chained DEF TypeOK
  <1>4. Chains' /\ Queues' /\ OrderWithinSession'
    BY <1>1, ChainsArrive, QueuesArrive
  <1>5. World' /\ Attached' /\ AttachFirst' /\ RetiredForGood'
    BY <1>1, WorldArrive, AttachedArrive
  <1> QED BY <1>3, <1>4, <1>5
-----------------------------------------------------------------------------
(* What a message follows has gone out, and so has all that it follows.    *)
LEMMA Behind ==
    ASSUME OInv, NEW i \in DOMAIN tasks, NEW j \in DOMAIN tasks, tasks[j].after \in Settled,
           i < j, tasks[i].side = tasks[j].side, tasks[i].key = tasks[j].key, ~ tasks[j].late
    PROVE  tasks[i].at = "done"
  <1>1. PICK p : p = tasks[j].after
    OBVIOUS
  <1>2. i <= p /\ p < j /\ tasks[p].side = tasks[j].side /\ tasks[p].key = tasks[j].key
    BY <1>1 DEF OInv, Queues, Follows
  <1>3. i \in Nat \ {0} /\ j \in Nat /\ p \in Nat
    BY <1>1, Typed DEF OInv
  <1>4. p \in DOMAIN tasks /\ tasks[p].at = "done"
    BY <1>1, <1>2, <1>3 DEF Settled
  <1>5. ~ tasks[p].late
    BY <1>2, <1>4 DEF OInv, Queues
  <1>6. CASE p = i
    BY <1>4, <1>6
  <1>7. CASE i < p
    BY <1>2, <1>4, <1>5, <1>7 DEF OInv, OrderWithinSession, Begun
  <1> QED BY <1>2, <1>3, <1>6, <1>7

LEMMA BehindItsAttach ==
    ASSUME OInv, NEW i \in DOMAIN tasks, NEW j \in DOMAIN tasks, tasks[j].after \in Settled,
           tasks[i].kind = "attach", Parent[tasks[i].of] = Root,
           tasks[j].key = tasks[i].of, tasks[j].side = "browser"
    PROVE  tasks[i].at = "done"
  <1>1. PICK p : p = tasks[j].after
    OBVIOUS
  <1>2. /\ p \in DOMAIN tasks /\ tasks[p].side = "browser"
        /\ tasks[p].key = tasks[i].of \/ (tasks[p].key = Root /\ i <= p)
    BY <1>1 DEF OInv, Attached, BehindAttach
  <1>3. i \in Nat \ {0} /\ p \in Nat \ {0}
    BY <1>2, Typed DEF OInv
  <1>4. tasks[p].at = "done"
    BY <1>1, <1>2, <1>3 DEF Settled
  <1>5. CASE tasks[p].key = tasks[i].of
    BY <1>2, <1>4, <1>5 DEF OInv, AttachFirst, Begun
  <1>6. CASE tasks[p].key = Root /\ i < p
    <2>1. tasks[i].side = "browser" /\ tasks[i].key = Root
      BY DEF OInv, World
    <2>2. ~ tasks[p].late
      BY <1>2, <1>6, SessionAssumption DEF OInv, Queues
    <2> QED BY <1>2, <1>4, <1>6, <2>1, <2>2 DEF OInv, OrderWithinSession, Begun
  <1>7. CASE p = i
    BY <1>4, <1>7
  <1> QED BY <1>2, <1>3, <1>5, <1>6, <1>7

(* A message begins, or has gone out. *)
LEMMA MarkStep ==
    ASSUME OInv, NEW t \in DOMAIN tasks, NEW at \in {"running", "done"},
           tasks' = [tasks EXCEPT ![t].at = at], UNCHANGED phase,
           at = "running" => Ready(t), at = "done" => tasks[t].at = "running"
    PROVE  /\ Queues' /\ World' /\ Attached' /\ OrderWithinSession' /\ AttachFirst'
           /\ \A s : Retired(s) => Retired(s)'
           /\ \A s : Retired(s)' => Retired(s) \/ (tasks[t].kind = "detach" /\ tasks[t].of = s)
  <1> USE DEF OInv
  <1>1. /\ DOMAIN tasks' = DOMAIN tasks /\ tasks'[t].at = at
        /\ \A i \in DOMAIN tasks :
                  /\ tasks'[i].side = tasks[i].side /\ tasks'[i].key = tasks[i].key
                  /\ tasks'[i].kind = tasks[i].kind /\ tasks'[i].of = tasks[i].of
                  /\ tasks'[i].after = tasks[i].after
                  /\ tasks'[i].late <=> tasks[i].late
                  /\ i # t => tasks'[i].at = tasks[i].at
    BY Marked
  <1>2. tasks[t].at # "done"
    BY DEF Ready
  <1>3. Settled \subseteq Settled'
    BY <1>1, <1>2 DEF Settled
  <1>4. \A j \in DOMAIN tasks : Begun(j)' => tasks[j].after \in Settled
    BY <1>1 DEF Queues, Begun, Ready
  <1>5. \A s : Retired(s) => Retired(s)'
    BY <1>1 DEF Retired
  <1>6. \A s : Retired(s)' => Retired(s) \/ (tasks[t].kind = "detach" /\ tasks[t].of = s)
    BY <1>1 DEF Retired
  <1>7. Queues'
    <2>1. ASSUME NEW i \in DOMAIN tasks', tasks'[i].late
          PROVE  tasks'[i].key \in Sessions /\ Retired(tasks[i].key)'
      <3>1. PICK k : k = tasks[i].key
        OBVIOUS
      <3>2. k \in Sessions /\ Retired(k)
        BY <1>1, <2>1, <3>1 DEF Queues
      <3>3. Retired(k)' /\ tasks'[i].key = k
        BY <1>1, <1>5, <2>1, <3>1, <3>2
      <3> QED BY <3>2, <3>3 DEF Retired
    <2>2. \A i, j \in DOMAIN tasks' :
             i < j /\ tasks'[i].key = tasks'[j].key /\ tasks'[i].late => tasks'[j].late
      BY <1>1 DEF Queues
    <2>3. ASSUME NEW i \in DOMAIN tasks', NEW j \in DOMAIN tasks',
                 i < j, tasks'[i].side = tasks'[j].side, tasks'[i].key = tasks'[j].key,
                 ~ tasks'[j].late
          PROVE  Follows(i, j)'
      <3>1. PICK p : p = tasks[j].after
        OBVIOUS
      <3>2. i <= p /\ p < j /\ tasks[p].side = tasks[j].side /\ tasks[p].key = tasks[j].key
        BY <1>1, <2>3, <3>1 DEF Queues, Follows
      <3>3. p \in DOMAIN tasks
        BY <1>1, <2>3, <3>1, <3>2, Typed
      <3> QED BY <1>1, <2>3, <3>1, <3>2, <3>3 DEF Follows
    <2>4. \A j \in DOMAIN tasks' : Begun(j)' => tasks'[j].after \in Settled'
      BY <1>1, <1>3, <1>4
    <2> QED BY <2>1, <2>2, <2>3, <2>4 DEF Queues
  <1>8. World'
    <2>1. Open(phase)' = Open(phase)
      BY DEF Open
    <2> QED BY <1>1, <2>1 DEF World
  <1>9. Attached'
    BY <1>1 DEF Attached, BehindAttach
  <1>10. OrderWithinSession'
    BY <1>1, <1>2, <1>4, Behind DEF OrderWithinSession
  <1>11. AttachFirst'
    BY <1>1, <1>2, <1>4, BehindItsAttach DEF AttachFirst
  <1> QED BY <1>5, <1>6, <1>7, <1>8, <1>9, <1>10, <1>11

LEMMA HandleStep == OInv /\ Handle => OInv'
  <1> SUFFICES ASSUME OInv, NEW t \in DOMAIN tasks, Start(t) \/ Finish(t)
               PROVE  OInv'
    BY DEF Handle
  <1>1. PICK at \in {"running", "done"} :
          /\ tasks' = [tasks EXCEPT ![t].at = at] /\ UNCHANGED phase
          /\ at = "running" => Ready(t)
          /\ at = "done" => tasks[t].at = "running"
    BY DEF Start, Finish
  <1>2. /\ Queues' /\ World' /\ Attached' /\ OrderWithinSession' /\ AttachFirst'
        /\ \A s : Retired(s) => Retired(s)'
        /\ \A s : Retired(s)' => Retired(s) \/ (tasks[t].kind = "detach" /\ tasks[t].of = s)
    BY <1>1, MarkStep
  <1>3. /\ tasks' \in Seq(Task) /\ Len(tasks') = Len(tasks) /\ DOMAIN tasks' = DOMAIN tasks
        /\ \A i \in DOMAIN tasks : /\ tasks'[i].side = tasks[i].side /\ tasks'[i].key = tasks[i].key
                                   /\ tasks'[i].kind = tasks[i].kind /\ tasks'[i].of = tasks[i].of
    BY <1>1, Marked DEF OInv
  <1>4. CASE UNCHANGED chains /\ ~ (Start(t) /\ tasks[t].kind = "detach")
    <2>1. Chains'
      <3>1. ASSUME NEW i \in DOMAIN tasks'
            PROVE  \/ tasks'[i].key \in DOMAIN chains'[tasks'[i].side]
                   \/ tasks'[i].key \in Sessions /\ Retired(tasks[i].key)'
        <4>1. PICK k : k = tasks[i].key
          OBVIOUS
        <4>2. k \in DOMAIN chains[tasks[i].side] \/ (k \in Sessions /\ Retired(k)')
          BY <1>2, <1>3, <3>1, <4>1 DEF OInv, Chains
        <4>3. tasks'[i].key = k /\ tasks'[i].side = tasks[i].side
          BY <1>3, <3>1, <4>1
        <4> QED BY <1>4, <4>2, <4>3 DEF Retired
      <3>2. \A d \in Side : \A k \in DOMAIN chains'[d] :
               /\ tasks'[chains'[d][k]].side = d /\ tasks'[chains'[d][k]].key = k
               /\ \A i \in DOMAIN tasks' :
                     tasks'[i].side = d /\ tasks'[i].key = k => i <= chains'[d][k]
        BY <1>3, <1>4 DEF OInv, Chains, TypeOK
      <3> QED BY <3>1, <3>2 DEF Chains
    <2>2. TypeOK'
      BY <1>3, <1>4 DEF OInv, TypeOK, Start, Finish, World
    <2>3. RetiredForGood'
      <3>1. ASSUME NEW r, Retired(r)'
            PROVE  Retired(r)
        BY <1>2, <1>4, <3>1 DEF Finish, Retired
      <3> QED BY <1>4, <3>1 DEF OInv, RetiredForGood
    <2> QED BY <1>2, <2>1, <2>2, <2>3 DEF OInv
  <1>5. CASE Start(t) /\ tasks[t].kind = "detach"
    <2>1. PICK s \in Sessions : s = tasks[t].of
      BY <1>5 DEF OInv, World
    <2>2. Retire(s) /\ targets' = targets \ {s} /\ UNCHANGED told
      BY <1>5, <2>1 DEF Start
    <2>3. /\ DOMAIN chains' = Side
          /\ \A d \in Side : /\ DOMAIN chains'[d] = DOMAIN chains[d] \ {s}
                             /\ \A k \in DOMAIN chains[d] \ {s} : chains'[d][k] = chains[d][k]
      BY <2>2 DEF Retire
    <2>4. Retired(s)'
      BY <1>3, <1>5, <2>1, Marked DEF OInv, Retired, Start
    <2>5. TypeOK'
      BY <1>1, <1>3, <2>2, <2>3 DEF OInv, TypeOK
    <2>6. Chains'
      <3>1. \A i \in DOMAIN tasks' :
               \/ tasks'[i].key \in DOMAIN chains'[tasks'[i].side]
               \/ tasks'[i].key \in Sessions /\ Retired(tasks[i].key)'
        <4>1. ASSUME NEW i \in DOMAIN tasks
              PROVE  \/ tasks[i].key \in DOMAIN chains'[tasks[i].side]
                     \/ tasks[i].key \in Sessions /\ Retired(tasks[i].key)'
          <5>1. PICK k : k = tasks[i].key
            OBVIOUS
          <5>2. \/ k \in DOMAIN chains[tasks[i].side]
                \/ k \in Sessions /\ Retired(k)
            BY <5>1 DEF OInv, Chains
          <5>3. \/ k \in DOMAIN chains'[tasks[i].side]
                \/ k \in Sessions /\ Retired(k)'
            BY <1>2, <2>3, <2>4, <5>2, Typed DEF OInv
          <5>4. tasks'[i].key = k
            BY <1>3, <5>1
          <5> QED BY <5>1, <5>3, <5>4 DEF Retired
        <4> QED BY <1>3, <4>1
      <3>2. \A d \in Side : \A k \in DOMAIN chains'[d] :
               /\ tasks'[chains'[d][k]].side = d /\ tasks'[chains'[d][k]].key = k
               /\ \A i \in DOMAIN tasks' :
                     tasks'[i].side = d /\ tasks'[i].key = k => i <= chains'[d][k]
        BY <1>3, <2>3 DEF OInv, Chains, TypeOK
      <3> QED BY <3>1, <3>2 DEF Chains
    <2>7. RetiredForGood'
      BY <1>2, <1>5, <2>1, <2>3 DEF OInv, RetiredForGood, Side
    <2> QED BY <1>2, <2>5, <2>6, <2>7 DEF OInv
  <1> QED BY <1>4, <1>5 DEF Start, Finish
-----------------------------------------------------------------------------
LEMMA OStart == Init => OInv
  <1> SUFFICES ASSUME Init
               PROVE  OInv
    OBVIOUS
  <1>1. tasks = <<>> /\ DOMAIN tasks = {} /\ \A d \in Side : DOMAIN chains[d] = {}
    BY DEF Init
  <1>2. TypeOK
    BY <1>1, SessionAssumption DEF Init, TypeOK
  <1>3. World
    BY <1>1 DEF Init, World
  <1> QED BY <1>1, <1>2, <1>3 DEF Init, OInv, Chains, Queues, Attached, OrderWithinSession,
             AttachFirst, RetiredForGood, Side

LEMMA OStutter == OInv /\ UNCHANGED vars => OInv'
  BY DEF OInv, vars, TypeOK, Chains, Queues, World, Attached, OrderWithinSession, AttachFirst,
         RetiredForGood, Retired, Follows, Settled, Begun, Open, BehindAttach

LEMMA OInductive == OInv /\ [Next]_vars => OInv'
  BY ArriveStep, HandleStep, OStutter DEF Next

(* Delivering the bundle is nothing to the queues. *)
LEMMA DeliveryStep == RealmsNext => [Next]_vars
  BY DEF RealmsNext, Next, Arrive, Handle, Attach, Detach, Execute, Refuse, TimeOut, ClientResumes,
         Deliver, Forward

(* Module Realms adds to the handlers of Ordering what they await, and      *)
(* takes no step of the queues that Ordering does not allow.               *)
THEOREM DeliveryKeepsQueues == RealmsSpec => Init /\ [][Next]_vars
  <1>1. RealmsInit => Init
    BY DEF RealmsInit
  <1>2. [RealmsNext]_<<vars, delivery>> => [Next]_vars
    BY DeliveryStep
  <1> QED BY <1>1, <1>2, PTL DEF RealmsSpec

LEMMA OInvariance == Init /\ [][Next]_vars => []OInv
  BY OStart, OInductive, PTL

(* A message is handled only when the earlier ones of its session and      *)
(* direction have gone out (#order).                                       *)
THEOREM InOrder == RealmsSpec => []OrderWithinSession
  <1>1. OInv => OrderWithinSession
    BY DEF OInv
  <1> QED BY <1>1, DeliveryKeepsQueues, OInvariance, PTL

(* A page's messages wait for its attach to be handled to the end (comment *)
(* on #order).                                                             *)
THEOREM AttachBefore == RealmsSpec => []AttachFirst
  <1>1. OInv => AttachFirst
    BY DEF OInv
  <1> QED BY <1>1, DeliveryKeepsQueues, OInvariance, PTL

(* A session that has been retired has no queue for browser messages any   *)
(* more (#retire).                                                         *)
THEOREM QueuesEnd == RealmsSpec => []RetiredForGood
  <1>1. OInv => RetiredForGood
    BY DEF OInv
  <1> QED BY <1>1, DeliveryKeepsQueues, OInvariance, PTL
-----------------------------------------------------------------------------
LEMMA StepsFacts ==
    ASSUME RealmsAssumption, NEW s \in Sessions
    PROVE  /\ Len(Steps(s)) \in Nat /\ Len(Steps(s)) > 1
           /\ s \notin Workers => Len(Steps(s)) > 2
           /\ \A n \in Nat : n < Len(Steps(s)) => Steps(s)[n + 1] \in Command
           /\ s \in Workers => Steps(s)[1] = "bundle"
           /\ s \notin Workers => Steps(s)[1] = "enable" /\ Steps(s)[2] = "bundle"
           /\ \A n \in Nat : n < Len(Steps(s)) /\ n > 0 => Steps(s)[n + 1] # "enable"
  <1> DEFINE a == <<"bundle", "claims">>
  <1>1. PICK e : /\ e = IF s \in Workers THEN <<>> ELSE <<"enable">>
                 /\ e \in Seq(Command) /\ (s \in Workers => Len(e) = 0)
                 /\ s \notin Workers => Len(e) = 1 /\ e[1] = "enable"
    <2>1. <<>> \in Seq(Command) /\ Len(<<>>) = 0
      OBVIOUS
    <2>2. <<"enable">> \in Seq(Command) /\ Len(<<"enable">>) = 1 /\ <<"enable">>[1] = "enable"
      BY DEF Command
    <2> QED BY <2>1, <2>2
  <1>2. a \in Seq(Command) /\ Len(a) = 2 /\ a[1] = "bundle" /\ a[2] = "claims"
    BY DEF Command
  <1>3. PICK b : /\ b = IF Resumes(s) THEN <<"resume">> ELSE <<>>
                 /\ b \in Seq(Command) /\ Len(b) \in {0, 1} /\ (Len(b) = 1 => b[1] = "resume")
    <2>1. <<>> \in Seq(Command) /\ Len(<<>>) = 0
      OBVIOUS
    <2>2. <<"resume">> \in Seq(Command) /\ Len(<<"resume">>) = 1 /\ <<"resume">>[1] = "resume"
      BY DEF Command
    <2>3. 0 # 1
      OBVIOUS
    <2> QED BY <2>1, <2>2, <2>3
  <1>4. Steps(s) = (e \o a) \o b
    BY <1>1, <1>3 DEF Steps
  <1> HIDE DEF a
  <1>e. e \in Seq(Command) /\ a \in Seq(Command) /\ b \in Seq(Command)
    BY <1>1, <1>2, <1>3
  <1>n. Len(e) \in Nat
    BY <1>e
  <1>5. /\ e \o a \in Seq(Command) /\ Len(e \o a) = Len(e) + 2
        /\ \A i \in 1..Len(e) + 2 : (e \o a)[i] = IF i <= Len(e) THEN e[i] ELSE a[i - Len(e)]
    <2>1. Len(e \o a) = Len(e) + Len(a)
      BY <1>e, ConcatProperties
    <2>2. \A i \in 1..Len(e) + Len(a) : (e \o a)[i] = IF i <= Len(e) THEN e[i] ELSE a[i - Len(e)]
      BY <1>e, ConcatProperties
    <2>3. Len(a) = 2
      BY <1>2
    <2> QED BY <1>e, <2>1, <2>2, <2>3, ConcatProperties
  <1>6. /\ Len((e \o a) \o b) = Len(e) + 2 + Len(b)
        /\ \A i \in 1..Len(e) + 2 + Len(b) :
               ((e \o a) \o b)[i] = IF i <= Len(e) + 2 THEN (e \o a)[i] ELSE b[i - (Len(e) + 2)]
    BY <1>3, <1>5, ConcatProperties
  <1>7. ASSUME s \in Workers
        PROVE  /\ Len(Steps(s)) = 2 + Len(b) /\ Steps(s)[1] = "bundle" /\ Steps(s)[2] = "claims"
               /\ Len(b) = 1 => Steps(s)[3] = "resume"
    BY <1>1, <1>2, <1>3, <1>4, <1>5, <1>6, <1>7
  <1>8. ASSUME s \notin Workers
        PROVE  /\ Len(Steps(s)) = 3 + Len(b) /\ Steps(s)[1] = "enable" /\ Steps(s)[2] = "bundle"
               /\ Steps(s)[3] = "claims" /\ (Len(b) = 1 => Steps(s)[4] = "resume")
    <2>1. Len(e) = 1 /\ e[1] = "enable"
      BY <1>1, <1>8
    <2>2. /\ (e \o a)[1] = e[1] /\ (e \o a)[2] = a[1] /\ (e \o a)[3] = a[2]
      BY <1>5, <2>1
    <2>3. Len((e \o a) \o b) = 3 + Len(b)
      BY <1>3, <1>6, <2>1
    <2>4. \A i \in 1..3 : ((e \o a) \o b)[i] = (e \o a)[i]
      BY <1>3, <1>6, <2>1
    <2>5. Len(b) = 1 => ((e \o a) \o b)[4] = b[1]
      BY <1>6, <2>1
    <2> QED BY <1>2, <1>3, <1>4, <2>1, <2>2, <2>3, <2>4, <2>5
  <1>9. CASE s \in Workers
    <2>1. Len(Steps(s)) = 2 \/ (Len(Steps(s)) = 3 /\ Steps(s)[3] = "resume")
      BY <1>3, <1>7, <1>9
    <2> QED BY <1>7, <1>9, <2>1 DEF Command
  <1>10. CASE s \notin Workers
    <2>1. Len(Steps(s)) = 3 \/ (Len(Steps(s)) = 4 /\ Steps(s)[4] = "resume")
      BY <1>3, <1>8, <1>10
    <2> QED BY <1>8, <1>10, <2>1 DEF Command
  <1> QED BY <1>9, <1>10

LEMMA RStart == RealmsInit => RInv
  <1> SUFFICES ASSUME RealmsInit
               PROVE  RInv
    OBVIOUS
  <1>1. OInv
    BY OStart DEF RealmsInit
  <1>2. DeliveryType /\ Heads /\ BundleFirst
    BY DEF RealmsInit, Init, DeliveryType, Heads, Waits, BundleFirst
  <1> QED BY <1>1, <1>2 DEF RInv

(* One inbox is written to. *)
LEMMA Posted ==
    ASSUME DeliveryType, NEW s \in Sessions, NEW cmd \in Command,
           inbox' = [inbox EXCEPT ![s] = Append(@, cmd)]
    PROVE  /\ inbox' \in [Sessions -> Seq(Command)]
           /\ \A r \in Sessions \ {s} : inbox'[r] = inbox[r]
           /\ inbox'[s] # <<>>
           /\ Head(inbox'[s]) = IF inbox[s] = <<>> THEN cmd ELSE Head(inbox[s])
  <1>1. inbox[s] \in Seq(Command) /\ inbox'[s] = Append(inbox[s], cmd)
    BY DEF DeliveryType
  <1>2. Append(inbox[s], cmd) \in Seq(Command) /\ Append(inbox[s], cmd) # <<>>
        /\ Head(Append(inbox[s], cmd)) = IF inbox[s] = <<>> THEN cmd ELSE Head(inbox[s])
    BY <1>1
  <1> QED BY <1>1, <1>2 DEF DeliveryType

(* What a handler awaits fails. *)
LEMMA Failed ==
    ASSUME DeliveryType, NEW s \in Sessions, Fail(s)
    PROVE  /\ awaited' \in [Sessions -> Command \cup {"none"}] /\ awaited'[s] = "none"
           /\ stage' \in [Sessions -> Nat] /\ refused' \subseteq Sessions /\ refused \subseteq refused'
           /\ \A r \in Sessions \ {s} : awaited'[r] = awaited[r] /\ stage'[r] = stage[r]
                                       /\ (r \in refused' <=> r \in refused)
           /\ stage'[s] >= stage[s]
           /\ awaited[s] = "enable" => s \in refused' /\ stage'[s] = stage[s] + 1
           /\ awaited[s] # "enable" => stage'[s] = stage[s]
  BY DEF Fail, DeliveryType

(* A step at one target that changes neither the sessions nor whether      *)
(* another waits.                                                          *)
LEMMA AtOne ==
    ASSUME RInv, NEW s \in Sessions, UNCHANGED vars, DeliveryType',
           \A r \in Sessions \ {s} :
               /\ inbox'[r] = inbox[r] /\ code'[r] = code[r] /\ awaited'[r] = awaited[r]
               /\ stage'[r] = stage[r] /\ (r \in bundled' <=> r \in bundled)
               /\ (r \in refused' <=> r \in refused),
           phase[s] # "new", code'[s] # "none",
           ~ Past(s)' => ~ Past(s) /\ awaited'[s] \in {"none", "enable"},
           stage'[s] = 0 => awaited'[s] = "none",
           Waits(s)' /\ Past(s)' => inbox'[s] # <<>> /\ Head(inbox'[s]) = "bundle",
           Waits(s)' /\ ~ Past(s)' =>
               inbox'[s] = IF awaited'[s] = "none" THEN <<>> ELSE <<"enable">>,
           Pauses(s) /\ code'[s] = "running" => s \in bundled' \cup refused'
    PROVE  Heads' /\ BundleFirst'
  <1>1. \A r : Pauses(r)' <=> Pauses(r)
    BY DEF Pauses
  <1>2. \A r \in Sessions \ {s} : (Past(r)' <=> Past(r)) /\ (Waits(r)' <=> Waits(r))
    BY DEF Past, Waits
  <1>3. Heads'
    BY <1>2 DEF RInv, Heads, vars
  <1>4. BundleFirst'
    BY <1>1 DEF RInv, BundleFirst
  <1> QED BY <1>3, <1>4

LEMMA RInductive == RInv /\ [RealmsNext]_<<vars, delivery>> => RInv'
  <1> SUFFICES ASSUME RInv, [RealmsNext]_<<vars, delivery>>
               PROVE  DeliveryType' /\ Heads' /\ BundleFirst'
    BY OInductive, DeliveryStep DEF RInv
  <1>w. DeliveryType /\ Heads /\ BundleFirst /\ OInv
    BY DEF RInv
  <1> USE DEF delivery
  <1>0. \A s : Pauses(s)' <=> Pauses(s)
    BY DEF Pauses
  <1>p. phase \in [Sessions -> {"new", "attached", "detached"}]
        /\ told \in [Sessions -> {"new", "attached", "detached"}]
    BY <1>w DEF OInv, TypeOK
  <1>1. ASSUME NEW s \in Sessions, Attach(s)
        PROVE  DeliveryType' /\ Heads' /\ BundleFirst'
    <2>1. /\ phase[s] = "new" /\ phase' = [phase EXCEPT ![s] = "attached"]
          /\ code' = [code EXCEPT ![s] = IF Pauses(s) THEN "paused" ELSE "running"]
          /\ UNCHANGED <<told, inbox, stage, awaited, bundled, refused>>
      BY <1>1 DEF Attach, BrowserAttach
    <2>2. DeliveryType'
      BY <1>w, <2>1 DEF DeliveryType
    <2>3. \A r : Past(r)' <=> Past(r)
      BY <2>1 DEF Past
    <2>4. \A r \in Sessions : r # s => phase'[r] = phase[r] /\ code'[r] = code[r]
                                     /\ (Waits(r)' <=> Waits(r))
      BY <1>p, <1>w, <2>1 DEF DeliveryType, Waits
    <2>5. ~ Past(s) /\ awaited[s] = "none" /\ inbox[s] = <<>> /\ phase'[s] # "new"
      BY <1>p, <1>w, <2>1 DEF Heads, Past
    <2>6. code'[s] # "none"
      BY <1>w, <2>1 DEF DeliveryType
    <2>7. Heads'
      <3>1. ASSUME NEW r \in Sessions
            PROVE  /\ code'[r] = "none" <=> phase'[r] = "new"
                   /\ phase'[r] = "new" => stage'[r] = 0 /\ inbox'[r] = <<>> /\ awaited'[r] = "none"
                   /\ ~ Past(r)' => told'[r] # "attached" /\ awaited'[r] \in {"none", "enable"}
                   /\ stage'[r] = 0 => awaited'[r] = "none"
                   /\ Waits(r)' /\ Past(r)' => inbox'[r] # <<>> /\ Head(inbox'[r]) = "bundle"
                   /\ Waits(r)' /\ ~ Past(r)' =>
                          inbox'[r] = IF awaited'[r] = "none" THEN <<>> ELSE <<"enable">>
        <4>1. CASE r = s
          BY <1>w, <2>1, <2>3, <2>5, <2>6, <4>1 DEF Heads
        <4>2. CASE r # s
          BY <1>w, <2>1, <2>3, <2>4, <4>2 DEF Heads
        <4> QED BY <4>1, <4>2
      <3> QED BY <3>1 DEF Heads
    <2>8. BundleFirst'
      BY <1>0, <1>w, <2>1, <2>4 DEF BundleFirst, DeliveryType
    <2> QED BY <2>2, <2>7, <2>8
  <1>2. ASSUME NEW s \in Sessions, Detach(s)
        PROVE  DeliveryType' /\ Heads' /\ BundleFirst'
    <2>1. /\ phase' = [phase EXCEPT ![s] = "detached"] /\ phase[s] = "attached"
          /\ code' = [code EXCEPT ![s] = "gone"] /\ inbox' = [inbox EXCEPT ![s] = <<>>]
          /\ Fail(s) /\ UNCHANGED <<told, bundled>>
      BY <1>2 DEF Detach, BrowserDetach
    <2>2. /\ awaited' \in [Sessions -> Command \cup {"none"}] /\ awaited'[s] = "none"
          /\ stage' \in [Sessions -> Nat] /\ refused' \subseteq Sessions
          /\ \A r \in Sessions \ {s} : awaited'[r] = awaited[r] /\ stage'[r] = stage[r]
                                      /\ (r \in refused' <=> r \in refused)
          /\ stage'[s] >= stage[s]
      BY <1>w, <2>1, Failed
    <2>3. DeliveryType'
      <3>1. <<>> \in Seq(Command)
        OBVIOUS
      <3>2. inbox' \in [Sessions -> Seq(Command)]
        BY <1>w, <2>1, <3>1 DEF DeliveryType
      <3>3. code' \in [Sessions -> {"none", "paused", "running", "gone"}]
        BY <1>w, <2>1 DEF DeliveryType
      <3> QED BY <1>w, <2>1, <2>2, <3>2, <3>3 DEF DeliveryType
    <2>4. \A r \in Sessions \ {s} : /\ phase'[r] = phase[r] /\ code'[r] = code[r]
                                    /\ inbox'[r] = inbox[r]
                                    /\ (Waits(r)' <=> Waits(r)) /\ (Past(r)' <=> Past(r))
      BY <1>p, <1>w, <2>1, <2>2 DEF DeliveryType, Waits, Past
    <2>5. phase'[s] = "detached" /\ code'[s] = "gone" /\ ~ Waits(s)' /\ (Past(s) => Past(s)')
      <3>1. phase'[s] = "detached" /\ code'[s] = "gone"
        BY <1>p, <1>w, <2>1 DEF DeliveryType
      <3>2. Past(s) => Past(s)'
        BY <1>w, <2>2 DEF DeliveryType, Past
      <3> QED BY <3>1, <3>2 DEF Waits
    <2>6. Heads'
      BY <1>w, <2>1, <2>2, <2>4, <2>5 DEF Heads
    <2>7. BundleFirst'
      BY <1>0, <1>w, <2>1, <2>2, <2>4, <2>5 DEF BundleFirst
    <2> QED BY <2>3, <2>6, <2>7
  <1>3. ASSUME NEW s \in Sessions, Execute(s)
        PROVE  DeliveryType' /\ Heads' /\ BundleFirst'
    <2>1. PICK cmd \in Command : cmd = Head(inbox[s])
      BY <1>3, <1>w DEF Execute, DeliveryType
    <2>2. /\ inbox[s] # <<>> /\ inbox' = [inbox EXCEPT ![s] = Tail(@)] /\ code[s] # "gone"
          /\ code' = [code EXCEPT ![s] = IF cmd = "resume" THEN "running" ELSE @]
          /\ bundled' = IF cmd = "bundle" /\ code[s] = "paused" THEN bundled \cup {s} ELSE bundled
          /\ awaited' = IF awaited[s] \in Answers(s, cmd) THEN [awaited EXCEPT ![s] = "none"] ELSE awaited
          /\ UNCHANGED <<vars, stage, refused>>
      BY <1>3, <2>1 DEF Execute
    <2>3. \A r \in Sessions \ {s} :
              /\ inbox'[r] = inbox[r] /\ code'[r] = code[r] /\ awaited'[r] = awaited[r]
              /\ stage'[r] = stage[r] /\ (r \in bundled' <=> r \in bundled)
              /\ (r \in refused' <=> r \in refused)
      BY <1>w, <2>2 DEF DeliveryType
    <2>4. DeliveryType'
      BY <1>w, <2>2 DEF DeliveryType
    <2>5. phase[s] # "new"
      BY <1>w, <2>2 DEF Heads
    <2>6. code'[s] = (IF cmd = "resume" THEN "running" ELSE code[s]) /\ inbox'[s] = Tail(inbox[s])
          /\ awaited'[s] \in {awaited[s], "none"} /\ stage'[s] = stage[s] /\ (Past(s)' <=> Past(s))
      BY <1>w, <2>2 DEF DeliveryType, Past
    <2>7. Waits(s)' => Waits(s) /\ ~ (cmd = "bundle")
      BY <2>2, <2>6 DEF Waits
    <2>8. CASE Waits(s) /\ Past(s)
      <3>1. cmd = "bundle"
        BY <1>w, <2>1, <2>8 DEF Heads
      <3>2. s \in bundled' /\ ~ Waits(s)'
        BY <2>2, <2>7, <2>8, <3>1 DEF Waits
      <3> QED BY <1>w, <2>3, <2>4, <2>5, <2>6, <2>2, <3>2, AtOne DEF Heads
    <2>9. CASE Waits(s) /\ ~ Past(s)
      <3>1. inbox[s] = <<"enable">> /\ cmd = "enable" /\ awaited[s] = "enable"
        BY <1>w, <2>1, <2>2, <2>9 DEF Heads
      <3>2. inbox'[s] = <<>> /\ awaited'[s] = "none" /\ code'[s] = "paused"
        <4>1. "enable" \in Answers(s, "enable")
          BY DEF Answers
        <4> QED BY <1>w, <2>2, <2>6, <2>9, <3>1, <4>1 DEF Waits, DeliveryType
      <3> QED BY <1>w, <2>3, <2>4, <2>5, <2>6, <2>2, <2>9, <3>2, AtOne DEF Heads
    <2>10. CASE ~ Waits(s)
      <3>1. Pauses(s) /\ code'[s] = "running" => s \in bundled' \cup refused'
        <4>1. code[s] = "paused" => s \in bundled \cup refused
          BY <2>10 DEF Waits
        <4>2. code[s] = "none" => FALSE
          BY <1>w, <2>5 DEF Heads
        <4>3. Pauses(s) /\ code[s] = "running" => s \in bundled \cup refused
          BY <1>w DEF BundleFirst
        <4>4. code[s] \in {"none", "paused", "running", "gone"}
          BY <1>w DEF DeliveryType
        <4> QED BY <2>2, <4>1, <4>2, <4>3, <4>4
      <3> QED BY <1>w, <2>3, <2>4, <2>5, <2>6, <2>2, <2>7, <2>10, <3>1, AtOne DEF Heads
    <2> QED BY <2>8, <2>9, <2>10
  <1>4. ASSUME NEW s \in Sessions, Refuse(s)
        PROVE  DeliveryType' /\ Heads' /\ BundleFirst'
    <2>1. PICK cmd \in Command : cmd = Head(inbox[s])
      BY <1>4, <1>w DEF Refuse, DeliveryType
    <2>2. /\ inbox[s] # <<>> /\ inbox' = [inbox EXCEPT ![s] = Tail(@)]
          /\ \/ awaited[s] = cmd /\ cmd # "bundle" /\ Fail(s)
             \/ /\ cmd = "bundle"
                /\ awaited' = IF awaited[s] = cmd THEN [awaited EXCEPT ![s] = "none"] ELSE awaited
                /\ refused' = refused \cup {s} /\ UNCHANGED stage
             \/ awaited[s] # cmd /\ cmd # "bundle" /\ UNCHANGED <<awaited, stage, refused>>
          /\ UNCHANGED <<vars, code, bundled>>
      BY <1>4, <2>1 DEF Refuse
    <2>3. /\ awaited' \in [Sessions -> Command \cup {"none"}] /\ stage' \in [Sessions -> Nat]
          /\ refused' \subseteq Sessions /\ refused \subseteq refused'
          /\ \A r \in Sessions \ {s} : awaited'[r] = awaited[r] /\ stage'[r] = stage[r]
                                      /\ (r \in refused' <=> r \in refused)
          /\ stage'[s] >= stage[s] /\ awaited'[s] \in {awaited[s], "none"}
          /\ cmd = "bundle" \/ (cmd = "enable" /\ awaited[s] = "enable") => s \in refused'
          /\ s \in refused' \/ stage'[s] = stage[s]
      <3>1. CASE awaited[s] = cmd /\ cmd # "bundle" /\ Fail(s)
        <4>1. /\ awaited' \in [Sessions -> Command \cup {"none"}] /\ awaited'[s] = "none"
              /\ stage' \in [Sessions -> Nat] /\ refused' \subseteq Sessions /\ refused \subseteq refused'
              /\ \A r \in Sessions \ {s} : awaited'[r] = awaited[r] /\ stage'[r] = stage[r]
                                          /\ (r \in refused' <=> r \in refused)
              /\ stage'[s] >= stage[s]
              /\ awaited[s] = "enable" => s \in refused'
              /\ awaited[s] # "enable" => stage'[s] = stage[s]
          BY <1>w, <3>1, Failed
        <4> QED BY <3>1, <4>1
      <3>2. CASE /\ cmd = "bundle"
                 /\ awaited' = IF awaited[s] = cmd THEN [awaited EXCEPT ![s] = "none"] ELSE awaited
                 /\ refused' = refused \cup {s} /\ UNCHANGED stage
        <4>1. awaited' \in [Sessions -> Command \cup {"none"}] /\ awaited'[s] \in {awaited[s], "none"}
              /\ \A r \in Sessions \ {s} : awaited'[r] = awaited[r]
          BY <1>w, <3>2 DEF DeliveryType
        <4>2. stage[s] \in Nat /\ stage' = stage
          BY <1>w, <3>2 DEF DeliveryType
        <4> QED BY <1>w, <3>2, <4>1, <4>2 DEF DeliveryType
      <3>3. CASE awaited[s] # cmd /\ cmd # "bundle" /\ UNCHANGED <<awaited, stage, refused>>
        <4>1. stage[s] \in Nat
          BY <1>w DEF DeliveryType
        <4> QED BY <1>w, <3>3, <4>1 DEF DeliveryType
      <3> QED BY <2>2, <3>1, <3>2, <3>3
    <2>4. DeliveryType'
      <3>1. inbox[s] \in Seq(Command)
        BY <1>w DEF DeliveryType
      <3>2. Tail(inbox[s]) \in Seq(Command)
        BY <2>2, <3>1
      <3>3. inbox' \in [Sessions -> Seq(Command)]
        BY <1>w, <2>2, <3>2 DEF DeliveryType
      <3> QED BY <1>w, <2>2, <2>3, <3>3 DEF DeliveryType
    <2>5. \A r \in Sessions \ {s} :
              /\ inbox'[r] = inbox[r] /\ code'[r] = code[r] /\ awaited'[r] = awaited[r]
              /\ stage'[r] = stage[r] /\ (r \in bundled' <=> r \in bundled)
              /\ (r \in refused' <=> r \in refused)
      BY <2>2, <2>3
    <2>6. phase[s] # "new" /\ code'[s] # "none"
      BY <1>w, <2>2 DEF Heads
    <2>7. ~ Waits(s)'
      <3>1. Waits(s)' => Waits(s)
        BY <2>2, <2>3 DEF Waits
      <3>2. CASE Waits(s) /\ Past(s)
        <4>1. cmd = "bundle"
          BY <1>w, <2>1, <3>2 DEF Heads
        <4> QED BY <2>3, <4>1 DEF Waits
      <3>3. CASE Waits(s) /\ ~ Past(s)
        <4>1. cmd = "enable" /\ awaited[s] = "enable"
          BY <1>w, <2>1, <2>2, <3>3 DEF Heads
        <4> QED BY <2>3, <4>1 DEF Waits
      <3> QED BY <3>1, <3>2, <3>3
    <2>8. ~ Past(s)' => ~ Past(s) /\ awaited'[s] \in {"none", "enable"}
      <3>1. ~ Past(s)' => ~ Past(s)
        BY <1>w, <2>3 DEF Past, DeliveryType
      <3> QED BY <1>w, <2>3, <3>1 DEF Heads
    <2>9. stage'[s] = 0 => awaited'[s] = "none"
      BY <1>w, <2>3 DEF Heads, DeliveryType
    <2>10. Pauses(s) /\ code'[s] = "running" => s \in bundled' \cup refused'
      BY <1>w, <2>2, <2>3 DEF BundleFirst
    <2> QED BY <2>2, <2>4, <2>5, <2>6, <2>7, <2>8, <2>9, <2>10, AtOne
  <1>5. ASSUME NEW s \in Sessions, TimeOut(s)
        PROVE  DeliveryType' /\ Heads' /\ BundleFirst'
    <2>1. awaited[s] # "none" /\ Fail(s) /\ UNCHANGED <<vars, code, inbox, bundled>>
      BY <1>5 DEF TimeOut
    <2>2. /\ awaited' \in [Sessions -> Command \cup {"none"}] /\ awaited'[s] = "none"
          /\ stage' \in [Sessions -> Nat] /\ refused' \subseteq Sessions /\ refused \subseteq refused'
          /\ \A r \in Sessions \ {s} : awaited'[r] = awaited[r] /\ stage'[r] = stage[r]
                                      /\ (r \in refused' <=> r \in refused)
          /\ stage'[s] >= stage[s]
          /\ awaited[s] = "enable" => s \in refused'
          /\ awaited[s] # "enable" => stage'[s] = stage[s]
      BY <1>w, <2>1, Failed
    <2>3. DeliveryType'
      BY <1>w, <2>1, <2>2 DEF DeliveryType
    <2>4. phase[s] # "new" /\ code'[s] # "none"
      BY <1>w, <2>1 DEF Heads
    <2>5. ~ Past(s)' => ~ Past(s)
      BY <1>w, <2>2 DEF Past, DeliveryType
    <2>6. Waits(s)' => Waits(s) /\ Past(s) /\ inbox'[s] = inbox[s]
      <3>1. Waits(s)' => Waits(s) /\ awaited[s] # "enable"
        BY <2>1, <2>2 DEF Waits
      <3> QED BY <1>w, <2>1, <3>1 DEF Heads
    <2>7. Waits(s)' => Past(s)'
      <3>1. Past(s) => Past(s)'
        BY <1>w, <2>2 DEF Past, DeliveryType
      <3> QED BY <2>6, <3>1
    <2>8. Waits(s)' => inbox'[s] # <<>> /\ Head(inbox'[s]) = "bundle"
      BY <1>w, <2>6 DEF Heads
    <2>9. Pauses(s) /\ code'[s] = "running" => s \in bundled' \cup refused'
      BY <1>w, <2>1, <2>2 DEF BundleFirst
    <2> QED BY <2>1, <2>2, <2>3, <2>4, <2>5, <2>7, <2>8, <2>9, AtOne
  <1>6. ASSUME NEW s \in Sessions, ClientResumes(s)
        PROVE  DeliveryType' /\ Heads' /\ BundleFirst'
    <2>1. /\ inbox' \in [Sessions -> Seq(Command)]
          /\ \A r \in Sessions \ {s} : inbox'[r] = inbox[r]
          /\ inbox'[s] # <<>>
          /\ inbox[s] # <<>> => Head(inbox'[s]) = Head(inbox[s])
      BY <1>6, <1>w, Posted DEF ClientResumes, Command
    <2>2. /\ told[s] = "attached" /\ Past(s) /\ code[s] = "paused"
          /\ UNCHANGED <<vars, code, stage, awaited, bundled, refused>>
      BY <1>6, <1>w DEF ClientResumes, Heads
    <2>3. DeliveryType'
      BY <1>w, <2>1, <2>2 DEF DeliveryType
    <2>4. (Past(s)' <=> Past(s)) /\ (Waits(s)' <=> Waits(s)) /\ phase[s] # "new" /\ stage[s] # 0
      BY <1>w, <2>2 DEF Past, Waits, Heads
    <2>5. Waits(s)' => inbox'[s] # <<>> /\ Head(inbox'[s]) = "bundle"
      BY <1>w, <2>1, <2>2, <2>4 DEF Heads
    <2> QED BY <2>1, <2>2, <2>3, <2>4, <2>5, AtOne
  <1>7. ASSUME NEW k \in Key, BrowserMessage(k) \/ ClientMessage(k), UNCHANGED delivery
        PROVE  DeliveryType' /\ Heads' /\ BundleFirst'
    BY <1>0, <1>w, <1>7 DEF BrowserMessage, ClientMessage, DeliveryType, Heads, BundleFirst, Past, Waits
  <1>8. ASSUME NEW t \in DOMAIN tasks, Start(t), UNCHANGED delivery
        PROVE  DeliveryType' /\ Heads' /\ BundleFirst'
    BY <1>0, <1>w, <1>8 DEF Start, DeliveryType, Heads, BundleFirst, Past, Waits
  <1>9. ASSUME NEW t \in DOMAIN tasks, Deliver(t)
        PROVE  DeliveryType' /\ Heads' /\ BundleFirst'
    <2>1. PICK s \in Sessions : s = tasks[t].of /\ phase[s] # "new"
      BY <1>9, <1>w DEF Deliver, OInv, World
    <2>2. PICK cmd : cmd = Steps(s)[stage[s] + 1]
      OBVIOUS
    <2>3. /\ stage[s] < Len(Steps(s)) /\ awaited[s] = "none"
          /\ inbox' = [inbox EXCEPT ![s] = Append(@, cmd)] /\ stage' = [stage EXCEPT ![s] = @ + 1]
          /\ awaited' = IF Awaits(s, cmd) THEN [awaited EXCEPT ![s] = cmd] ELSE awaited
          /\ UNCHANGED <<vars, code, bundled, refused>>
      BY <1>9, <2>1, <2>2 DEF Deliver
    <2>4. /\ cmd \in Command /\ stage[s] \in Nat
          /\ s \in Workers /\ stage[s] = 0 => cmd = "bundle"
          /\ s \notin Workers /\ stage[s] = 0 => cmd = "enable"
          /\ s \notin Workers /\ stage[s] = 1 => cmd = "bundle"
      BY <1>w, <2>2, <2>3, StepsFacts, RealmsAssumption DEF DeliveryType
    <2>5. /\ inbox' \in [Sessions -> Seq(Command)]
          /\ \A r \in Sessions \ {s} : inbox'[r] = inbox[r]
          /\ inbox'[s] # <<>>
          /\ inbox[s] = <<>> => inbox'[s] = <<cmd>> /\ Head(inbox'[s]) = cmd
          /\ inbox[s] # <<>> => Head(inbox'[s]) = Head(inbox[s])
      <3>1. inbox[s] = <<>> => inbox'[s] = <<cmd>>
        BY <1>w, <2>3 DEF DeliveryType
      <3> QED BY <1>w, <2>3, <2>4, <3>1, Posted
    <2>6. /\ stage'[s] = stage[s] + 1 /\ stage' \in [Sessions -> Nat]
          /\ \A r \in Sessions \ {s} : stage'[r] = stage[r] /\ awaited'[r] = awaited[r]
          /\ awaited' \in [Sessions -> Command \cup {"none"}]
          /\ awaited'[s] = IF Awaits(s, cmd) THEN cmd ELSE "none"
      BY <1>w, <2>3, <2>4 DEF DeliveryType
    <2>7. DeliveryType'
      BY <1>w, <2>3, <2>5, <2>6 DEF DeliveryType
    <2>8. (Waits(s)' <=> Waits(s)) /\ code'[s] # "none"
      BY <1>w, <2>1, <2>3 DEF Waits, Heads
    <2>9. CASE Past(s)
      <3>1. Past(s)' /\ stage'[s] # 0
        BY <2>4, <2>6, <2>9 DEF Past
      <3>2. Waits(s)' => inbox'[s] # <<>> /\ Head(inbox'[s]) = "bundle"
        BY <1>w, <2>5, <2>8, <2>9 DEF Heads
      <3>3. Pauses(s) /\ code'[s] = "running" => s \in bundled' \cup refused'
        BY <1>w, <2>3 DEF BundleFirst
      <3> QED BY <2>1, <2>3, <2>5, <2>6, <2>7, <2>8, <3>1, <3>2, <3>3, AtOne
    <2>10. CASE ~ Past(s)
      <3>1. Waits(s) => inbox[s] = <<>>
        BY <1>w, <2>3, <2>10 DEF Heads
      <3>2. Past(s)' => cmd = "bundle"
        BY <2>4, <2>6, <2>10 DEF Past
      <3>3. ~ Past(s)' => cmd = "enable" /\ awaited'[s] = "enable"
        <4>1. ~ Past(s)' => s \notin Workers /\ stage[s] = 0
          BY <2>4, <2>6 DEF Past
        <4> QED BY <2>4, <2>6, <4>1 DEF Awaits
      <3>4. Waits(s)' /\ Past(s)' => inbox'[s] # <<>> /\ Head(inbox'[s]) = "bundle"
        BY <2>5, <2>8, <3>1, <3>2
      <3>5. Waits(s)' /\ ~ Past(s)' => inbox'[s] = <<"enable">>
        BY <2>5, <2>8, <3>1, <3>3
      <3>6. Pauses(s) /\ code'[s] = "running" => s \in bundled' \cup refused'
        BY <1>w, <2>3 DEF BundleFirst
      <3>7. stage'[s] # 0
        BY <2>4, <2>6
      <3> QED BY <2>1, <2>3, <2>5, <2>6, <2>7, <2>8, <2>10, <3>3, <3>4, <3>5, <3>6, <3>7, AtOne
    <2> QED BY <2>9, <2>10
  <1>10. ASSUME NEW t \in DOMAIN tasks, Forward(t)
        PROVE  DeliveryType' /\ Heads' /\ BundleFirst'
    <2>1. UNCHANGED <<code, inbox, stage, awaited, bundled, refused, phase>>
      BY <1>10 DEF Forward, Finish
    <2>2. ASSUME NEW s \in Sessions, told'[s] = "attached"
          PROVE  told[s] = "attached" \/ Past(s)
      <3>1. told[s] = "attached" \/ Delivered(s)
        BY <1>10, <2>2 DEF Forward, Finish
      <3>2. Delivered(s) => Past(s)
        BY <1>w, StepsFacts, RealmsAssumption DEF Delivered, Past, DeliveryType
      <3> QED BY <3>1, <3>2
    <2>3. \A s : (Past(s)' <=> Past(s)) /\ (Waits(s)' <=> Waits(s))
      BY <2>1 DEF Past, Waits
    <2> QED BY <1>0, <1>w, <2>1, <2>2, <2>3 DEF DeliveryType, Heads, BundleFirst
  <1>11. CASE UNCHANGED <<vars, delivery>>
    BY <1>0, <1>w, <1>11 DEF vars, DeliveryType, Heads, BundleFirst, Past, Waits
  <1> QED BY <1>1, <1>2, <1>3, <1>4, <1>5, <1>6, <1>7, <1>8, <1>9, <1>10, <1>11 DEF RealmsNext

(* The code of a target that starts paused runs with the bundle in place,  *)
(* whoever resumes it, however late the browser answers and whatever else  *)
(* of the delivery fails, unless the browser has refused the bundle or the *)
(* domain it needs (deliver, inject, resume).                              *)
THEOREM BundleBefore == RealmsSpec => []BundleFirst
  <1>1. RInv => BundleFirst
    BY DEF RInv
  <1> QED BY <1>1, RStart, RInductive, PTL DEF RealmsSpec
================================================================================
