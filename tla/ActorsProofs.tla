------------------------------ MODULE ActorsProofs ------------------------------
(***************************************************************************)
(* Theorems about Actors for every set of pages and actors: which page has *)
(* which actor, and that the one chain keeps what PageActors promises for  *)
(* each page.                                                              *)
(***************************************************************************)
EXTENDS Actors, SequenceTheorems, WellFoundedInduction, TLAPS

(* What is scheduled is about a page that was attached; close is the last  *)
(* task of its page, and waits or runs as long as any other does.          *)
Closes ==
    /\ \A i \in DOMAIN work : work[i].page \in live \cup gone
    /\ \A i \in DOMAIN work : work[i].kind = "close" =>
           /\ work[i].page \in gone /\ work[i] = Task("close", work[i].page, None)
           /\ \A j \in DOMAIN work : j > i => work[j].page # work[i].page
    /\ \A i \in DOMAIN work : work[i].page \in gone =>
           \E j \in DOMAIN work : j >= i /\ work[j] = Task("close", work[i].page, None)

(* The running task: the actors it comes to, one at a time.                *)
Single(s) == \A i, j \in DOMAIN s : s[i] = s[j] => i = j

Turns ==
    /\ doing # None => phase # "idle"
    /\ phase = "setup" => /\ Running.kind = "document"
                          /\ doing # None => doing \notin Range(handles[Running.page])
    /\ phase = "fire" => /\ Running.kind \in {"document", "close"}
                         /\ Range(todo) \subseteq Range(handles[Running.page])
                         /\ doing # None => doing \in Range(handles[Running.page]) \ Range(todo)
                         /\ Single(todo)
    /\ \A p \in Pages : Single(handles[p])

(* A scoped actor of a live page has its name taken.                       *)
Names ==
    /\ \A p \in Pages \ (live \cup gone) : handles[p] = <<>>
    /\ \A a \in Scoped, p \in live : Armed(p, a) => a \in session
    /\ phase = "setup" /\ doing \in Scoped => doing \notin session

IInv == TypeOK /\ Closes /\ Turns /\ Names /\ ScopedIsSingle /\ ClaimIsLive
-----------------------------------------------------------------------------
LEMMA Longer ==
    ASSUME NEW S, NEW s \in Seq(S), NEW e \in S
    PROVE  /\ Append(s, e) \in Seq(S) /\ Append(s, e) # <<>>
           /\ DOMAIN Append(s, e) = DOMAIN s \cup {Len(s) + 1}
           /\ \A i \in DOMAIN s : i <= Len(s) /\ Append(s, e)[i] = s[i]
           /\ Append(s, e)[Len(s) + 1] = e
           /\ s # <<>> => Head(Append(s, e)) = Head(s)
           /\ Range(Append(s, e)) = Range(s) \cup {e}
           /\ Single(s) /\ e \notin Range(s) => Single(Append(s, e))
  <1>1. /\ Append(s, e) \in Seq(S) /\ Append(s, e) # <<>>
        /\ DOMAIN Append(s, e) = DOMAIN s \cup {Len(s) + 1}
        /\ \A i \in DOMAIN s : i \in Nat /\ i <= Len(s) /\ Append(s, e)[i] = s[i]
        /\ Append(s, e)[Len(s) + 1] = e
        /\ s # <<>> => Head(Append(s, e)) = Head(s)
    <2>1. Append(s, e) \in Seq(S) /\ Append(s, e) # <<>> /\ Len(Append(s, e)) = Len(s) + 1
          /\ (\A i \in 1..Len(s) : Append(s, e)[i] = s[i]) /\ Append(s, e)[Len(s) + 1] = e
      BY AppendProperties
    <2>2. DOMAIN s = 1..Len(s) /\ Len(s) \in Nat
      OBVIOUS
    <2>3. DOMAIN Append(s, e) = 1..Len(s) + 1
      BY <2>1
    <2>4. 1..Len(s) + 1 = 1..Len(s) \cup {Len(s) + 1}
      BY <2>2
    <2>5. s # <<>> => Head(Append(s, e)) = Head(s)
      BY HeadTailAppend
    <2> QED BY <2>1, <2>2, <2>3, <2>4, <2>5
  <1> DEFINE w == Append(s, e)
  <1> HIDE DEF w
  <1>2. Range(w) = Range(s) \cup {e}
    BY <1>1 DEF Range, w
  <1>3. Single(s) /\ e \notin Range(s) => Single(w)
    BY <1>1 DEF Range, Single, w
  <1> QED BY <1>1, <1>2, <1>3 DEF w

LEMMA Shorter ==
    ASSUME NEW S, NEW s \in Seq(S), s # <<>>
    PROVE  /\ Tail(s) \in Seq(S) /\ Head(s) \in S /\ Head(s) = s[1] /\ 1 \in DOMAIN s
           /\ Len(Tail(s)) = Len(s) - 1 /\ DOMAIN Tail(s) = 1..Len(s) - 1 /\ Len(s) \in Nat
           /\ \A i \in DOMAIN Tail(s) : i + 1 \in DOMAIN s /\ Tail(s)[i] = s[i + 1]
           /\ Range(s) = {Head(s)} \cup Range(Tail(s))
           /\ Single(s) => Single(Tail(s)) /\ Head(s) \notin Range(Tail(s))
  <1>1. /\ Tail(s) \in Seq(S) /\ Head(s) \in S /\ Head(s) = s[1] /\ DOMAIN s = 1..Len(s)
        /\ Len(Tail(s)) = Len(s) - 1 /\ DOMAIN Tail(s) = 1..Len(s) - 1 /\ Len(s) \in Nat \ {0}
        /\ \A i \in 1..Len(s) - 1 : Tail(s)[i] = s[i + 1]
    OBVIOUS
  <1> DEFINE w == Tail(s)
  <1> HIDE DEF w
  <1>2. \A i \in DOMAIN w : i + 1 \in DOMAIN s /\ w[i] = s[i + 1]
    BY <1>1 DEF w
  <1>3. \A i \in DOMAIN s : i = 1 \/ (i - 1 \in DOMAIN w /\ w[i - 1] = s[i])
    <2>1. \A i \in 2..Len(s) : i - 1 \in 1..Len(s) - 1 /\ (i - 1) + 1 = i
      BY <1>1
    <2> QED BY <1>1, <1>2, <2>1 DEF w
  <1>4. Range(s) = {Head(s)} \cup Range(w)
    BY <1>1, <1>2, <1>3 DEF Range
  <1>5. Single(s) => Single(w) /\ Head(s) \notin Range(w)
    <2> SUFFICES ASSUME Single(s)
                 PROVE  Single(w) /\ Head(s) \notin Range(w)
      OBVIOUS
    <2>1. Single(w)
      BY <1>1, <1>2 DEF Single, w
    <2>2. ASSUME NEW i \in DOMAIN w, w[i] = Head(s)
          PROVE  FALSE
      BY <1>1, <1>2, <2>2 DEF Single, w
    <2> QED BY <2>1, <2>2 DEF Range
  <1> QED BY <1>1, <1>2, <1>4, <1>5 DEF w

LEMMA InRange ==
    ASSUME NEW S, NEW s \in Seq(S)
    PROVE  Range(s) \subseteq S
  BY DEF Range

TaskType == [kind : {"document", "event", "close"}, page : Pages, url : Urls \cup {None}]

LEMMA RunningType ==
    ASSUME TypeOK, work # <<>>
    PROVE  /\ Running = work[1] /\ 1 \in DOMAIN work /\ Running \in TaskType
           /\ Running.page \in Pages /\ handles[Running.page] \in Seq(Actors)
  <1>1. work \in Seq(TaskType)
    BY DEF TypeOK, TaskType
  <1>2. Running = work[1] /\ 1 \in DOMAIN work /\ Running \in TaskType
    BY <1>1, Shorter DEF Running
  <1> QED BY <1>2 DEF TaskType, TypeOK

LEMMA TypeStep == TypeOK /\ Turns /\ [Next]_vars => TypeOK'
  <1> SUFFICES ASSUME TypeOK, Turns, [Next]_vars
               PROVE  TypeOK'
    OBVIOUS
  <1> USE DEF chainVars
  <1>0. /\ work \in Seq(TaskType) /\ (phase # "idle" => work # <<>>)
        /\ doing # None => work # <<>>
        /\ \A p \in Pages : handles[p] \in Seq(Actors)
    <2>1. /\ work \in Seq(TaskType) /\ (phase # "idle" => work # <<>>)
          /\ doing # None => work # <<>>
      BY DEF TypeOK, TaskType, Turns
    <2>2. \A p \in Pages : handles[p] \in Seq(Actors)
      BY DEF TypeOK
    <2> QED BY <2>1, <2>2
  <1>1. ASSUME NEW p \in Pages, Attached(p)
        PROVE  TypeOK'
    BY <1>1 DEF Attached, TypeOK
  <1>2. ASSUME NEW t \in TaskType, Schedule(t)
        PROVE  work' \in Seq(TaskType) /\ work' # <<>>
    BY <1>0, <1>2, Longer DEF Schedule
  <1>3. ASSUME NEW p \in Pages, Detached(p)
        PROVE  TypeOK'
    <2>1. work' \in Seq(TaskType) /\ work' # <<>>
      <3>1. Task("close", p, None) \in TaskType
        BY DEF Task, TaskType
      <3> QED BY <1>2, <1>3, <3>1 DEF Detached
    <2> QED BY <1>3, <2>1 DEF Detached, TypeOK, TaskType
  <1>4. ASSUME NEW p \in Pages, NEW url \in Urls, Document(p, url)
        PROVE  TypeOK'
    <2>1. work' \in Seq(TaskType) /\ work' # <<>>
      <3>1. Task("document", p, url) \in TaskType
        BY DEF Task, TaskType
      <3> QED BY <1>2, <1>4, <3>1 DEF Document
    <2> QED BY <1>4, <2>1 DEF Document, TypeOK, TaskType
  <1>5. ASSUME NEW p \in Pages, Event(p)
        PROVE  TypeOK'
    <2>1. work' \in Seq(TaskType) /\ work' # <<>>
      <3>1. Task("event", p, None) \in TaskType
        BY DEF Task, TaskType
      <3> QED BY <1>2, <1>5, <3>1 DEF Event
    <2> QED BY <1>5, <2>1 DEF Event, TypeOK, TaskType
  <1>6. CASE RunTask
    <2>1. Tail(work) \in Seq(TaskType) /\ handles[Running.page] \in Seq(Actors)
      BY <1>0, <1>6, Shorter, RunningType DEF RunTask
    <2> QED BY <1>0, <1>6, <2>1, ActorsAssumption DEF RunTask, TypeOK, TaskType
  <1>7. CASE SetupNext
    <2>1. handles[Running.page] \in Seq(Actors)
      BY <1>0, <1>7, RunningType DEF SetupNext
    <2>2. CASE phase' = "fire" /\ todo' = handles[Running.page] /\ UNCHANGED doing
      BY <1>0, <1>7, <2>1, <2>2 DEF SetupNext, TypeOK
    <2>3. ASSUME NEW i \in DOMAIN todo, doing' = todo[i], todo' = SubSeq(todo, i + 1, Len(todo)),
                 UNCHANGED phase
          PROVE  TypeOK'
      <3>1. todo' \in Seq(Actors) /\ doing' \in Actors
        <4>1. todo \in Seq(Actors) /\ i \in Nat /\ i <= Len(todo) /\ i >= 1
          BY DEF TypeOK
        <4>2. SubSeq(todo, i + 1, Len(todo)) \in Seq(Actors)
          BY <4>1, SubSeqProperties
        <4> QED BY <2>3, <4>1, <4>2
      <3> QED BY <1>7, <2>3, <3>1 DEF SetupNext, TypeOK
    <2> QED BY <1>7, <2>2, <2>3 DEF SetupNext
  <1>8. CASE SetUp
    <2>1. Append(handles[Running.page], doing) \in Seq(Actors)
      <3>1. handles[Running.page] \in Seq(Actors) /\ doing \in Actors
        BY <1>0, <1>8, RunningType DEF SetUp, TypeOK
      <3> QED BY <3>1, Longer
    <2> QED BY <1>8, <2>1 DEF SetUp, TypeOK
  <1>9. CASE SetUpFails
    BY <1>9 DEF SetUpFails, TypeOK
  <1>10. CASE FireNext
    <2>1. Tail(todo) \in Seq(Actors) /\ Head(todo) \in Actors
      BY <1>10, Shorter DEF FireNext, TypeOK
    <2> QED BY <1>10, <2>1 DEF FireNext, TypeOK
  <1>11. CASE Fired
    BY <1>11 DEF Fired, TypeOK
  <1>12. CASE TaskDone
    <2>1. Tail(work) \in Seq(TaskType)
      BY <1>0, <1>12, Shorter DEF TaskDone
    <2> QED BY <1>12, <2>1 DEF TaskDone, TypeOK, TaskType
  <1>13. CASE UNCHANGED vars
    BY <1>13 DEF vars, TypeOK
  <1> QED BY <1>1, <1>3, <1>4, <1>5, <1>6, <1>7, <1>8, <1>9, <1>10, <1>11, <1>12, <1>13
          DEF Next, Runtime, Callback
-----------------------------------------------------------------------------
(* A task is added at the end of the chain, or the running one leaves it.  *)
LEMMA Scheduled ==
    ASSUME TypeOK, NEW t \in TaskType, Schedule(t), NEW n, n = Len(work) + 1
    PROVE  /\ n \in Nat /\ DOMAIN work' = DOMAIN work \cup {n}
           /\ work' # <<>> /\ work'[n] = t
           /\ \A i \in DOMAIN work : i \in Nat /\ i < n /\ work'[i] = work[i]
           /\ work # <<>> => Running' = Running
  <1>1. work \in Seq(TaskType) /\ Len(work) \in Nat
    BY DEF TypeOK, TaskType
  <1>2. \A i \in DOMAIN work : i \in Nat /\ i <= Len(work)
    BY <1>1
  <1>3. work' = Append(work, t)
    BY DEF Schedule
  <1>4. DOMAIN work' = DOMAIN work \cup {n} /\ work'[n] = t /\ work' # <<>>
        /\ \A i \in DOMAIN work : work'[i] = work[i]
    BY <1>1, <1>3, Longer
  <1>5. work # <<>> => Running' = Running
    BY <1>1, <1>3, Longer DEF Running
  <1> QED BY <1>1, <1>2, <1>4, <1>5

LEMMA Popped ==
    ASSUME TypeOK, work # <<>>, work' = Tail(work)
    PROVE  /\ Len(work) \in Nat \ {0} /\ DOMAIN work = 1..Len(work) /\ DOMAIN work' = 1..Len(work) - 1
           /\ \A i \in DOMAIN work' : i + 1 \in DOMAIN work /\ work'[i] = work[i + 1]
  <1>1. work \in Seq(TaskType)
    BY DEF TypeOK, TaskType
  <1>2. DOMAIN work = 1..Len(work) /\ Len(work) \in Nat \ {0}
    BY <1>1
  <1> QED BY <1>1, <1>2, Shorter

(* Every step of the page and of the chain. *)
Pops == work # <<>> /\ work' = Tail(work)

LEMMA WorkStep ==
    ASSUME TypeOK, [Next]_vars
    PROVE  \/ /\ \E p \in Pages : Detached(p)
           \/ /\ \E p \in Pages, t \in TaskType :
                    p \in live /\ t.page = p /\ t.kind \in {"document", "event"} /\ Schedule(t)
              /\ UNCHANGED <<live, gone, handles, session, phase, todo, doing, late>>
           \/ work' = work /\ gone' = gone /\ live \subseteq live'
           \/ Pops /\ UNCHANGED <<live, gone, handles, session, late, doing>>
  <1>1. ASSUME NEW p \in Pages, NEW url \in Urls, Document(p, url)
        PROVE  /\ p \in live /\ \E t \in TaskType : t.page = p /\ t.kind = "document" /\ Schedule(t)
               /\ UNCHANGED <<live, gone, handles, session, phase, todo, doing, late>>
    <2>1. PICK t : t = Task("document", p, url)
      OBVIOUS
    <2>2. t \in TaskType /\ t.page = p /\ t.kind = "document"
      BY <2>1 DEF Task, TaskType
    <2> QED BY <1>1, <2>1, <2>2 DEF Document
  <1>2. ASSUME NEW p \in Pages, Event(p)
        PROVE  /\ p \in live /\ \E t \in TaskType : t.page = p /\ t.kind = "event" /\ Schedule(t)
               /\ UNCHANGED <<live, gone, handles, session, phase, todo, doing, late>>
    <2>1. PICK t : t = Task("event", p, None)
      OBVIOUS
    <2>2. t \in TaskType /\ t.page = p /\ t.kind = "event"
      BY <2>1 DEF Task, TaskType
    <2> QED BY <1>2, <2>1, <2>2 DEF Event
  <1>3. ASSUME NEW p \in Pages, Attached(p)
        PROVE  work' = work /\ gone' = gone /\ live \subseteq live'
    BY <1>3 DEF Attached, chainVars
  <1>4. CASE RunTask
    <2>1. UNCHANGED <<live, gone, handles, session, late, doing>> /\ (work' = work \/ Pops)
      BY <1>4 DEF RunTask, Pops
    <2> QED BY <2>1
  <1>5. CASE TaskDone
    <2>1. work # <<>> /\ work' = Tail(work) /\ UNCHANGED <<live, gone, handles, session, late, doing>>
      BY <1>5 DEF TaskDone, TypeOK
    <2> QED BY <2>1 DEF Pops
  <1>6. CASE SetupNext \/ SetUp \/ SetUpFails \/ FireNext \/ Fired
    BY <1>6 DEF SetupNext, SetUp, SetUpFails, FireNext, Fired, chainVars
  <1>7. CASE UNCHANGED vars
    BY <1>7 DEF vars, chainVars
  <1> QED BY <1>1, <1>2, <1>3, <1>4, <1>5, <1>6, <1>7 DEF Next, Runtime, Callback

LEMMA ClosesStep == TypeOK /\ Closes /\ [Next]_vars => Closes'
  <1> SUFFICES ASSUME TypeOK, Closes, [Next]_vars
               PROVE  Closes'
    OBVIOUS
  <1>1. ASSUME NEW p \in Pages, Detached(p)
        PROVE  Closes'
    <2>1. PICK t : t = Task("close", p, None)
      OBVIOUS
    <2>2. t \in TaskType /\ t.page = p /\ t.kind = "close"
      BY <2>1 DEF Task, TaskType
    <2>3. PICK n : n = Len(work) + 1
      OBVIOUS
    <2>4. /\ DOMAIN work' = DOMAIN work \cup {n} /\ n \in Nat /\ work'[n] = t
          /\ \A i \in DOMAIN work : i \in Nat /\ i < n /\ work'[i] = work[i]
      <3>1. Schedule(t)
        BY <1>1, <2>1 DEF Detached
      <3> QED BY <2>2, <2>3, <3>1, Scheduled
    <2>5. p \in live /\ p \notin gone /\ live' = live \ {p} /\ gone' = gone \cup {p}
      BY <1>1 DEF Detached, TypeOK
    <2>6. \A i \in DOMAIN work' : work'[i].page \in live' \cup gone'
      BY <2>2, <2>4, <2>5 DEF Closes
    <2>7. ASSUME NEW i \in DOMAIN work', work'[i].kind = "close"
          PROVE  /\ work'[i].page \in gone' /\ work'[i] = Task("close", work'[i].page, None)
                 /\ \A j \in DOMAIN work' : j > i => work'[j].page # work'[i].page
      <3>1. CASE i = n
        BY <2>1, <2>2, <2>4, <2>5, <3>1
      <3>2. CASE i # n
        BY <2>2, <2>4, <2>5, <2>7, <3>2 DEF Closes
      <3> QED BY <3>1, <3>2
    <2>8. ASSUME NEW i \in DOMAIN work', work'[i].page \in gone'
          PROVE  \E j \in DOMAIN work' : j >= i /\ work'[j] = Task("close", work'[i].page, None)
      <3>1. CASE work'[i].page = p
        BY <2>1, <2>4, <3>1
      <3>2. CASE work'[i].page # p
        <4>1. i \in DOMAIN work /\ work'[i] = work[i] /\ work[i].page \in gone
          BY <2>2, <2>4, <2>5, <2>8, <3>2
        <4>2. PICK j \in DOMAIN work : j >= i /\ work[j] = Task("close", work[i].page, None)
          BY <4>1 DEF Closes
        <4> QED BY <2>4, <4>1, <4>2
      <3> QED BY <3>1, <3>2
    <2> QED BY <2>6, <2>7, <2>8 DEF Closes
  <1>2. ASSUME NEW p \in live, NEW t \in TaskType, t.page = p, t.kind \in {"document", "event"},
               Schedule(t), UNCHANGED <<live, gone>>
        PROVE  Closes'
    <2>1. PICK n : n = Len(work) + 1
      OBVIOUS
    <2>2. /\ DOMAIN work' = DOMAIN work \cup {n} /\ n \in Nat /\ work'[n] = t
          /\ \A i \in DOMAIN work : i \in Nat /\ i < n /\ work'[i] = work[i]
      BY <1>2, <2>1, Scheduled
    <2>3. p \notin gone
      BY DEF TypeOK
    <2>4. \A i \in DOMAIN work' : work'[i].page \in gone => i \in DOMAIN work
      BY <1>2, <2>2, <2>3
    <2>5. \A i \in DOMAIN work' : work'[i].kind = "close" => i \in DOMAIN work
      BY <1>2, <2>2
    <2>6. \A i \in DOMAIN work' : work'[i].page \in live' \cup gone'
      BY <1>2, <2>2 DEF Closes
    <2>7. ASSUME NEW i \in DOMAIN work', work'[i].kind = "close"
          PROVE  /\ work'[i].page \in gone' /\ work'[i] = Task("close", work'[i].page, None)
                 /\ \A j \in DOMAIN work' : j > i => work'[j].page # work'[i].page
      <3>1. i \in DOMAIN work /\ work'[i] = work[i]
        BY <2>2, <2>5, <2>7
      <3>2. work[i].page \in gone /\ work[i] = Task("close", work[i].page, None)
            /\ \A j \in DOMAIN work : j > i => work[j].page # work[i].page
        BY <2>7, <3>1 DEF Closes
      <3> QED BY <1>2, <2>2, <2>3, <3>1, <3>2
    <2>8. ASSUME NEW i \in DOMAIN work', work'[i].page \in gone'
          PROVE  \E j \in DOMAIN work' : j >= i /\ work'[j] = Task("close", work'[i].page, None)
      <3>1. i \in DOMAIN work /\ work'[i] = work[i] /\ work[i].page \in gone
        BY <1>2, <2>2, <2>4, <2>8
      <3>2. PICK j \in DOMAIN work : j >= i /\ work[j] = Task("close", work[i].page, None)
        BY <3>1 DEF Closes
      <3> QED BY <2>2, <3>1, <3>2
    <2> QED BY <2>6, <2>7, <2>8 DEF Closes
  <1>3. CASE work' = work /\ gone' = gone /\ live \subseteq live'
    BY <1>3 DEF Closes
  <1>4. CASE Pops /\ UNCHANGED <<live, gone>>
    <2>1. /\ Len(work) \in Nat \ {0} /\ DOMAIN work = 1..Len(work) /\ DOMAIN work' = 1..Len(work) - 1
          /\ \A i \in DOMAIN work' : i + 1 \in DOMAIN work /\ work'[i] = work[i + 1]
      BY <1>4, Popped DEF Pops
    <2>2. \A i \in DOMAIN work' : work'[i].page \in live' \cup gone'
      BY <1>4, <2>1 DEF Closes
    <2>3. ASSUME NEW i \in DOMAIN work', work'[i].kind = "close"
          PROVE  /\ work'[i].page \in gone' /\ work'[i] = Task("close", work'[i].page, None)
                 /\ \A j \in DOMAIN work' : j > i => work'[j].page # work'[i].page
      <3>1. work[i + 1].page \in gone /\ work[i + 1] = Task("close", work[i + 1].page, None)
            /\ \A j \in DOMAIN work : j > i + 1 => work[j].page # work[i + 1].page
        BY <2>1, <2>3 DEF Closes
      <3>2. \A j \in DOMAIN work' : j > i => j + 1 > i + 1
        BY <2>1
      <3> QED BY <1>4, <2>1, <3>1, <3>2
    <2>4. ASSUME NEW i \in DOMAIN work', work'[i].page \in gone'
          PROVE  \E j \in DOMAIN work' : j >= i /\ work'[j] = Task("close", work'[i].page, None)
      <3>1. PICK j \in DOMAIN work : j >= i + 1 /\ work[j] = Task("close", work[i + 1].page, None)
        BY <1>4, <2>1, <2>4 DEF Closes
      <3>2. j - 1 \in DOMAIN work' /\ j - 1 >= i /\ (j - 1) + 1 = j
        BY <2>1, <3>1
      <3> QED BY <2>1, <3>1, <3>2
    <2> QED BY <2>2, <2>3, <2>4 DEF Closes
  <1> QED BY <1>1, <1>2, <1>3, <1>4, WorkStep
-----------------------------------------------------------------------------
LEMMA RunningKept ==
    ASSUME TypeOK, NEW t \in TaskType, Schedule(t)
    PROVE  work # <<>> => Running' = Running
  <1>1. PICK n : n = Len(work) + 1
    OBVIOUS
  <1> QED BY <1>1, Scheduled

LEMMA StillRunning ==
    ASSUME TypeOK, Turns, [Next]_vars,
           UNCHANGED <<phase, todo, doing>> \/ phase' # "idle"
    PROVE  phase # "idle" => Running' = Running
  <1>1. CASE work' = work
    BY <1>1 DEF Running
  <1>2. ASSUME NEW p \in Pages, Detached(p)
        PROVE  phase # "idle" => Running' = Running
    <2>1. PICK t : t = Task("close", p, None)
      OBVIOUS
    <2>2. t \in TaskType /\ Schedule(t)
      BY <1>2, <2>1 DEF Task, TaskType, Detached
    <2> QED BY <2>2, RunningKept DEF TypeOK
  <1>3. ASSUME NEW t \in TaskType, Schedule(t)
        PROVE  phase # "idle" => Running' = Running
    BY <1>3, RunningKept DEF TypeOK
  <1>4. CASE Pops /\ phase # "idle"
    <2>1. \/ /\ ~ \E p \in Pages : Detached(p) \/ Event(p)
             /\ ~ \E p \in Pages, url \in Urls : Document(p, url)
          \/ Running' = Running
      <3>1. ASSUME NEW p \in Pages, NEW url, Document(p, url), url \in Urls
            PROVE  Running' = Running
        <4>1. PICK t : t = Task("document", p, url)
          OBVIOUS
        <4>2. t \in TaskType /\ Schedule(t)
          BY <3>1, <4>1 DEF Task, TaskType, Document
        <4> QED BY <1>4, <4>2, RunningKept DEF TypeOK
      <3>2. ASSUME NEW p \in Pages, Event(p)
            PROVE  Running' = Running
        <4>1. PICK t : t = Task("event", p, None)
          OBVIOUS
        <4>2. t \in TaskType /\ Schedule(t)
          BY <3>2, <4>1 DEF Task, TaskType, Event
        <4> QED BY <1>4, <4>2, RunningKept DEF TypeOK
      <3> QED BY <1>2, <1>4, <3>1, <3>2
    <2>2. CASE RunTask
      BY <1>4, <2>2 DEF RunTask
    <2>3. CASE TaskDone
      BY <2>3 DEF TaskDone
    <2>4. CASE SetupNext \/ SetUp \/ SetUpFails \/ FireNext \/ Fired
      BY <1>1, <2>4 DEF SetupNext, SetUp, SetUpFails, FireNext, Fired
    <2>5. ASSUME NEW p \in Pages, Attached(p)
          PROVE  work' = work
      BY <2>5 DEF Attached, chainVars
    <2>6. CASE UNCHANGED vars
      BY <1>1, <2>6 DEF vars, chainVars
    <2> QED BY <1>1, <2>1, <2>2, <2>3, <2>4, <2>5, <2>6 DEF Next, Runtime, Callback
  <1>5. CASE Pops /\ phase = "idle"
    BY <1>5
  <1> QED BY <1>1, <1>2, <1>3, <1>4, <1>5, WorkStep

LEMMA TurnsStep == TypeOK /\ Turns /\ [Next]_vars => Turns'
  <1> SUFFICES ASSUME TypeOK, Turns, [Next]_vars
               PROVE  Turns'
    OBVIOUS
  <1>0. /\ phase # "idle" => work # <<>> /\ Running.page \in Pages
        /\ \A p \in Pages : handles[p] \in Seq(Actors)
        /\ todo \in Seq(Actors)
    BY RunningType DEF TypeOK
  <1>1. ASSUME UNCHANGED <<phase, todo, doing, handles>>
        PROVE  Turns'
    <2>1. phase # "idle" => Running' = Running
      BY <1>1, StillRunning
    <2> QED BY <1>1, <2>1 DEF Turns, Single
  <1>2. ASSUME NEW p \in Pages, Attached(p) \/ Detached(p) \/ Event(p) \/ \E url \in Urls : Document(p, url)
        PROVE  Turns'
    BY <1>1, <1>2 DEF Attached, Detached, Event, Document, chainVars
  <1>3. CASE RunTask
    <2>1. CASE Running.kind = "document" /\ phase' = "setup" /\ UNCHANGED <<work, handles, doing>>
      BY <1>3, <2>1 DEF Turns, RunTask, Running, Single
    <2>2. CASE Running.kind = "close" /\ phase' = "fire" /\ todo' = handles[Running.page]
               /\ UNCHANGED <<work, handles, doing>>
      <3>1. Running' = Running /\ doing = None /\ Running.page \in Pages
        BY <1>3, <2>2, RunningType DEF Turns, RunTask, Running
      <3> QED BY <2>2, <3>1 DEF Turns, Single
    <2>3. CASE phase' = "idle" /\ UNCHANGED <<handles, doing>>
      BY <1>3, <2>3 DEF Turns, RunTask, Single
    <2> QED BY <1>3, <2>1, <2>2, <2>3 DEF RunTask
  <1>4. CASE SetupNext
    <2>1. Running' = Running /\ handles' = handles
      BY <1>4 DEF SetupNext, Running
    <2>2. CASE phase' = "fire" /\ todo' = handles[Running.page] /\ UNCHANGED doing
      BY <1>0, <1>4, <2>1, <2>2 DEF SetupNext, Turns, Single
    <2>3. ASSUME NEW i \in DOMAIN todo, Wanted(todo[i]), doing' = todo[i], UNCHANGED phase
          PROVE  Turns'
      BY <1>4, <2>1, <2>3 DEF SetupNext, Turns, Wanted, Single
    <2> QED BY <1>4, <2>2, <2>3 DEF SetupNext
  <1>5. CASE SetUp
    <2>1. /\ Running' = Running /\ phase' = phase /\ phase = "setup" /\ doing' = None
          /\ doing \notin Range(handles[Running.page]) /\ doing \in Actors
          /\ handles' = [handles EXCEPT ![Running.page] = Append(@, doing)]
      BY <1>5 DEF SetUp, Running, Turns, TypeOK
    <2>2. PICK q \in Pages : q = Running.page
      BY <1>0, <2>1
    <2>3. PICK w : w = Append(handles[q], doing)
      OBVIOUS
    <2>4. Single(w)
      BY <1>0, <2>1, <2>2, <2>3, Longer DEF Turns
    <2>5. \A p \in Pages : handles'[p] = IF p = q THEN w ELSE handles[p]
      BY <2>1, <2>2, <2>3 DEF TypeOK
    <2>6. ASSUME NEW p \in Pages
          PROVE  Single(handles[p])'
      BY <2>4, <2>5 DEF Single, Turns
    <2> QED BY <2>1, <2>6 DEF Turns
  <1>6. CASE SetUpFails
    BY <1>6 DEF SetUpFails, Running, Turns, Single
  <1>7. CASE FireNext
    <2>1. /\ Running' = Running /\ handles' = handles /\ phase' = phase /\ phase = "fire"
          /\ doing' = Head(todo) /\ todo' = Tail(todo) /\ todo # <<>>
      BY <1>7 DEF FireNext, Running
    <2>2. /\ Range(todo) = {Head(todo)} \cup Range(Tail(todo))
          /\ Single(todo) => Single(Tail(todo)) /\ Head(todo) \notin Range(Tail(todo))
      BY <1>0, <2>1, Shorter
    <2>3. PICK v : v = Tail(todo)
      OBVIOUS
    <2>4. todo' = v /\ Single(v) /\ Range(v) \subseteq Range(handles[Running.page])
          /\ doing' \in Range(handles[Running.page]) \ Range(v)
      BY <2>1, <2>2, <2>3 DEF Turns
    <2> QED BY <2>1, <2>4 DEF Turns, Single
  <1>8. CASE Fired
    BY <1>8 DEF Fired, Running, Turns, Single
  <1>9. CASE TaskDone
    BY <1>9 DEF TaskDone, Turns, Single
  <1>10. CASE UNCHANGED vars
    BY <1>1, <1>10 DEF vars, chainVars
  <1> QED BY <1>2, <1>3, <1>4, <1>5, <1>6, <1>7, <1>8, <1>9, <1>10 DEF Next, Runtime, Callback
-----------------------------------------------------------------------------
Scopes == Names /\ ScopedIsSingle /\ ClaimIsLive

LEMMA ScopesStep == TypeOK /\ Closes /\ Turns /\ Scopes /\ [Next]_vars => Scopes'
  <1> SUFFICES ASSUME TypeOK, Closes, Turns, Scopes, [Next]_vars
               PROVE  Scopes'
    OBVIOUS
  <1>1. ASSUME UNCHANGED <<live, gone, handles, session, late>>,
               phase' = "setup" /\ doing' # None => UNCHANGED <<phase, doing>>
        PROVE  Scopes'
    <2>1. \A a \in Actors : a # None
      BY ActorsAssumption
    <2> QED BY <1>1, <2>1, ActorsAssumption
            DEF Scopes, Names, ScopedIsSingle, ClaimIsLive, Armed
  <1>2. ASSUME NEW p \in Pages, Attached(p)
        PROVE  Scopes'
    <2>1. /\ p \notin live \cup gone /\ live' = live \cup {p}
          /\ UNCHANGED <<gone, handles, session, late, phase, doing>>
      BY <1>2 DEF Attached, chainVars
    <2>2. \A a : ~ Armed(p, a)
      BY <2>1 DEF Scopes, Names, Armed, Range
    <2>3. \A a, q : Armed(q, a)' <=> Armed(q, a)
      BY <2>1 DEF Armed
    <2> QED BY <2>1, <2>2, <2>3 DEF Scopes, Names, ScopedIsSingle, ClaimIsLive
  <1>3. ASSUME NEW p \in Pages, Detached(p)
        PROVE  Scopes'
    <2>1. /\ live' = live \ {p} /\ gone' = gone \cup {p} /\ session' = session \ Range(handles[p])
          /\ UNCHANGED <<handles, phase, doing, late>> /\ p \in live
      BY <1>3 DEF Detached
    <2>2. \A a, q : Armed(q, a)' <=> Armed(q, a)
      BY <2>1 DEF Armed
    <2>3. Names'
      <3>1. ASSUME NEW a \in Scoped, NEW q \in live', Armed(q, a)'
            PROVE  a \in session'
        <4>1. Armed(q, a) /\ a \in session /\ q \in live /\ q # p
          BY <2>1, <2>2, <3>1 DEF Scopes, Names
        <4>2. ~ Armed(p, a)
          BY <2>1, <4>1 DEF Scopes, ScopedIsSingle
        <4> QED BY <2>1, <4>1, <4>2 DEF Armed
      <3> QED BY <2>1, <3>1 DEF Scopes, Names
    <2>4. ScopedIsSingle'
      BY <2>1, <2>2 DEF Scopes, ScopedIsSingle
    <2>5. ClaimIsLive'
      BY <2>1, <2>2 DEF Scopes, ClaimIsLive, Armed
    <2> QED BY <2>3, <2>4, <2>5 DEF Scopes
  <1>4. CASE SetUp
    <2>1. /\ doing # None /\ phase = "setup" /\ doing' = None /\ doing \in Actors
          /\ handles' = [handles EXCEPT ![Running.page] = Append(@, doing)]
          /\ session' = session \cup ({doing} \cap Scoped)
          /\ late' = IF Running.page \in gone THEN late \cup ({doing} \cap Scoped) ELSE late
          /\ UNCHANGED <<live, gone>>
      BY <1>4 DEF SetUp, TypeOK
    <2>2. PICK q \in Pages : q = Running.page /\ q \in live \cup gone /\ handles[q] \in Seq(Actors)
      BY <2>1, RunningType DEF TypeOK, Closes
    <2>3. /\ \A a : Armed(q, a)' <=> a = doing \/ Armed(q, a)
          /\ \A p \in Pages \ {q} : \A a : Armed(p, a)' <=> Armed(p, a)
      <3>1. PICK w : w = Append(handles[q], doing)
        OBVIOUS
      <3>2. Range(w) = Range(handles[q]) \cup {doing}
        BY <2>1, <2>2, <3>1, Longer
      <3>3. handles'[q] = w /\ \A p \in Pages \ {q} : handles'[p] = handles[p]
        BY <2>1, <2>2, <3>1 DEF TypeOK
      <3> QED BY <3>2, <3>3 DEF Armed
    <2>4. live \subseteq Pages /\ doing' \notin Scoped
      BY <2>1, ActorsAssumption DEF TypeOK
    <2>5. doing \in Scoped => \A p \in live : ~ Armed(p, doing)
      BY <2>1 DEF Scopes, Names
    <2>6. \A p \in Pages \ (live' \cup gone') : handles'[p] = <<>>
      BY <2>1, <2>2 DEF Scopes, Names, TypeOK
    <2>7. Names'
      BY <2>1, <2>3, <2>4, <2>6 DEF Scopes, Names
    <2>8. ScopedIsSingle'
      BY <2>1, <2>3, <2>4, <2>5 DEF Scopes, ScopedIsSingle
    <2>9. ClaimIsLive'
      <3>1. ASSUME NEW a \in session'
            PROVE  a \in late' \/ \E p \in live' : Armed(p, a)'
        <4>1. CASE a \in session
          BY <2>1, <2>2, <2>3, <2>4, <4>1 DEF Scopes, ClaimIsLive
        <4>2. CASE a = doing /\ a \in Scoped
          BY <2>1, <2>2, <2>3, <4>2
        <4> QED BY <2>1, <3>1, <4>1, <4>2
      <3> QED BY <3>1 DEF ClaimIsLive
    <2> QED BY <2>7, <2>8, <2>9 DEF Scopes
  <1>5. CASE SetupNext
    <2>1. UNCHANGED <<live, gone, handles, session, late>>
      BY <1>5 DEF SetupNext
    <2>2. CASE phase' = "fire"
      BY <1>1, <2>1, <2>2
    <2>3. ASSUME NEW i \in DOMAIN todo, Wanted(todo[i]), doing' = todo[i]
          PROVE  Scopes'
      BY <2>1, <2>3 DEF Wanted, Scopes, Names, ScopedIsSingle, ClaimIsLive, Armed
    <2> QED BY <1>5, <2>2, <2>3 DEF SetupNext
  <1>6. CASE RunTask
    <2>1. UNCHANGED <<live, gone, handles, session, late, doing>> /\ phase = "idle"
      BY <1>6 DEF RunTask
    <2> QED BY <1>1, <2>1 DEF Turns
  <1>7. CASE SetUpFails \/ FireNext \/ Fired \/ TaskDone
    BY <1>1, <1>7 DEF SetUpFails, FireNext, Fired, TaskDone
  <1>8. ASSUME NEW p \in Pages, Event(p) \/ \E url \in Urls : Document(p, url)
        PROVE  Scopes'
    BY <1>1, <1>8 DEF Event, Document
  <1>9. CASE UNCHANGED vars
    BY <1>1, <1>9 DEF vars, chainVars
  <1> QED BY <1>2, <1>3, <1>4, <1>5, <1>6, <1>7, <1>8, <1>9 DEF Next, Runtime, Callback
-----------------------------------------------------------------------------
LEMMA Start == Init => IInv
  <1> SUFFICES ASSUME Init
               PROVE  IInv
    OBVIOUS
  <1>1. work = <<>> /\ DOMAIN work = {} /\ (\A p \in Pages : handles[p] = <<>>)
        /\ live = {} /\ gone = {} /\ session = {} /\ phase = "idle" /\ doing = None
    BY DEF Init
  <1>2. TypeOK
    BY <1>1 DEF Init, TypeOK
  <1>3. Closes /\ Turns
    BY <1>1 DEF Closes, Turns, Single
  <1>4. Names /\ ScopedIsSingle /\ ClaimIsLive
    BY <1>1, ActorsAssumption DEF Names, ScopedIsSingle, ClaimIsLive
  <1> QED BY <1>2, <1>3, <1>4 DEF IInv

LEMMA Inductive == IInv /\ [Next]_vars => IInv'
  BY TypeStep, ClosesStep, TurnsStep, ScopesStep DEF IInv, Scopes

LEMMA Invariance == Spec => []IInv
  BY Start, Inductive, PTL DEF Spec

(* The pages, the chain and the handles stay in the states the code can    *)
(* name.                                                                   *)
THEOREM TypeSafety == Spec => []TypeOK
  <1>1. IInv => TypeOK
    BY DEF IInv
  <1> QED BY <1>1, Invariance, PTL

(* A scoped actor is on one live page at a time (the conditions of         *)
(* #instantiate, and detached).                                            *)
THEOREM OnePage == Spec => []ScopedIsSingle
  <1>1. IInv => ScopedIsSingle
    BY DEF IInv
  <1> QED BY <1>1, Invariance, PTL

(* Only a setup that ended after its page had gone takes a name for good   *)
(* (detached releases the names of a page before).                         *)
THEOREM NamesAreReleased == Spec => []ClaimIsLive
  <1>1. IInv => ClaimIsLive
    BY DEF IInv
  <1> QED BY <1>1, Invariance, PTL
-----------------------------------------------------------------------------
LEMMA Least ==
    ASSUME NEW S \in SUBSET Nat, S # {}
    PROVE  \E n \in S : \A m \in S : n <= m
  <1>1. PICK n \in S : \A m \in S : ~ (<<m, n>> \in OpToRel(<, Nat))
    BY NatLessThanWellFounded, WFMin
  <1>2. \A m \in S : ~ (m < n)
    BY <1>1 DEF OpToRel
  <1> QED BY <1>2

Kinds == {"document", "event", "close"}

(* The function of Own, as far as m. *)
Keeps(f, chain, p, m) ==
    f = [n \in 0..m |-> IF n = 0 THEN <<>>
                        ELSE IF chain[n].page = p THEN Append(f[n - 1], chain[n].kind)
                        ELSE f[n - 1]]

LEMMA KeepsExists ==
    ASSUME NEW chain, NEW p, NEW m \in Nat
    PROVE  \E f : Keeps(f, chain, p, m)
  <1> DEFINE S == {k \in Nat : ~ \E f : Keeps(f, chain, p, k)}
  <1> SUFFICES ASSUME S # {}
               PROVE  FALSE
    OBVIOUS
  <1>1. PICK k \in S : \A j \in S : k <= j
    BY Least
  <1>2. CASE k = 0
    <2>1. Keeps([n \in 0..0 |-> <<>>], chain, p, 0)
      BY DEF Keeps
    <2> QED BY <1>2, <2>1
  <1>3. CASE k # 0
    <2>1. k - 1 \in Nat /\ k - 1 \notin S
      BY <1>1, <1>3
    <2>2. PICK g : Keeps(g, chain, p, k - 1)
      BY <2>1
    <2>3. g = [n \in 0..k - 1 |-> IF n = 0 THEN <<>>
                                  ELSE IF chain[n].page = p THEN Append(g[n - 1], chain[n].kind)
                                  ELSE g[n - 1]]
      BY <2>2 DEF Keeps
    <2>4. PICK f : f = [n \in 0..k |-> IF n < k THEN g[n]
                                       ELSE IF chain[n].page = p THEN Append(g[n - 1], chain[n].kind)
                                       ELSE g[n - 1]]
      OBVIOUS
    <2>5. \A n \in 0..k - 1 : f[n] = g[n]
      BY <2>1, <2>4
    <2>6. \A n \in 0..k : f[n] = IF n = 0 THEN <<>>
                                 ELSE IF chain[n].page = p THEN Append(f[n - 1], chain[n].kind)
                                 ELSE f[n - 1]
      <3> TAKE n \in 0..k
      <3>1. CASE n = 0
        BY <1>3, <2>1, <2>3, <2>5, <3>1
      <3>2. CASE n # 0 /\ n < k
        <4>1. n \in 0..k - 1 /\ n - 1 \in 0..k - 1
          BY <1>1, <3>2
        <4>2. f[n] = g[n] /\ f[n - 1] = g[n - 1]
          BY <2>5, <4>1
        <4>3. g[n] = IF chain[n].page = p THEN Append(g[n - 1], chain[n].kind) ELSE g[n - 1]
          BY <2>3, <3>2, <4>1
        <4> QED BY <3>2, <4>2, <4>3
      <3>3. CASE n = k
        <4>1. n - 1 \in 0..k - 1 /\ ~ (n < k)
          BY <2>1, <3>3
        <4>2. f[n - 1] = g[n - 1]
          BY <2>5, <4>1
        <4>3. f[n] = IF chain[n].page = p THEN Append(g[n - 1], chain[n].kind) ELSE g[n - 1]
          BY <2>4, <4>1
        <4> QED BY <1>3, <3>3, <4>2, <4>3
      <3> QED BY <1>1, <3>1, <3>2, <3>3
    <2>7. Keeps(f, chain, p, k)
      BY <2>4, <2>6 DEF Keeps
    <2> QED BY <2>7
  <1> QED BY <1>2, <1>3

LEMMA OwnIs ==
    ASSUME NEW chain, NEW p, Len(chain) \in Nat
    PROVE  \E f : Keeps(f, chain, p, Len(chain)) /\ Own(chain, p) = f[Len(chain)]
  <1>1. \E f : Keeps(f, chain, p, Len(chain))
    BY KeepsExists
  <1> QED BY <1>1 DEF Own, Keeps

LEMMA KeepsAt ==
    ASSUME NEW f, NEW chain, NEW p, NEW m \in Nat, Keeps(f, chain, p, m)
    PROVE  /\ f[0] = <<>>
           /\ \A n \in 1..m :
                 /\ chain[n].page = p => f[n] = Append(f[n - 1], chain[n].kind)
                 /\ chain[n].page # p => f[n] = f[n - 1]
  <1>1. \A n \in 0..m : f[n] = IF n = 0 THEN <<>>
                               ELSE IF chain[n].page = p THEN Append(f[n - 1], chain[n].kind)
                               ELSE f[n - 1]
    BY DEF Keeps
  <1>2. 0 \in 0..m /\ \A n \in 1..m : n \in 0..m /\ n # 0
    OBVIOUS
  <1> QED BY <1>1, <1>2

LEMMA KeepsType ==
    ASSUME NEW f, NEW chain \in Seq(TaskType), NEW p, NEW m \in Nat, m = Len(chain),
           Keeps(f, chain, p, m), NEW n \in 0..m
    PROVE  f[n] \in Seq(Kinds)
  <1> DEFINE S == {k \in 0..m : f[k] \notin Seq(Kinds)}
  <1> SUFFICES ASSUME S # {}
               PROVE  FALSE
    OBVIOUS
  <1>1. PICK k \in S : \A j \in S : k <= j
    <2>1. S \in SUBSET Nat
      OBVIOUS
    <2> QED BY <2>1, Least
  <1>2. k # 0
    <2>1. f[0] = <<>>
      BY KeepsAt
    <2>2. <<>> \in Seq(Kinds)
      OBVIOUS
    <2> QED BY <1>1, <2>1, <2>2
  <1>3. k \in 1..m /\ k - 1 \in 0..m
    BY <1>1, <1>2
  <1>4. k - 1 \notin S
    BY <1>1, <1>3
  <1>5. f[k - 1] \in Seq(Kinds)
    BY <1>3, <1>4
  <1>6. chain[k].kind \in Kinds
    <2>1. chain[k] \in TaskType
      BY <1>3
    <2> QED BY <2>1 DEF TaskType, Kinds
  <1>7. f[k] = Append(f[k - 1], chain[k].kind) \/ f[k] = f[k - 1]
    BY <1>3, KeepsAt
  <1>8. Append(f[k - 1], chain[k].kind) \in Seq(Kinds)
    BY <1>5, <1>6, AppendProperties
  <1>9. f[k] \in Seq(Kinds)
    BY <1>5, <1>7, <1>8
  <1> QED BY <1>1, <1>9

LEMMA KeepsAgree ==
    ASSUME NEW f, NEW g, NEW chain, NEW other, NEW p, NEW m \in Nat, NEW n \in Nat, m <= n,
           Keeps(f, chain, p, m), Keeps(g, other, p, n),
           \A i \in 1..m : other[i] = chain[i]
    PROVE  f[m] = g[m]
  <1> DEFINE S == {k \in 0..m : f[k] # g[k]}
  <1> SUFFICES ASSUME S # {}
               PROVE  FALSE
    OBVIOUS
  <1>1. PICK k \in S : \A j \in S : k <= j
    <2>1. S \in SUBSET Nat
      OBVIOUS
    <2> QED BY <2>1, Least
  <1>2. k # 0
    BY <1>1, KeepsAt
  <1>3. k \in 1..m /\ k \in 1..n /\ k - 1 \in 0..m /\ k - 1 \notin S
    BY <1>1, <1>2
  <1>4. f[k - 1] = g[k - 1] /\ other[k] = chain[k]
    BY <1>3
  <1>5. /\ chain[k].page = p => f[k] = Append(f[k - 1], chain[k].kind)
        /\ chain[k].page # p => f[k] = f[k - 1]
    BY <1>3, KeepsAt
  <1>6. /\ other[k].page = p => g[k] = Append(g[k - 1], other[k].kind)
        /\ other[k].page # p => g[k] = g[k - 1]
    BY <1>3, KeepsAt
  <1> QED BY <1>1, <1>4, <1>5, <1>6

(* What Own makes of a chain that is added to. *)
LEMMA OwnAppend ==
    ASSUME NEW chain \in Seq(TaskType), NEW t \in TaskType, NEW p
    PROVE  /\ Own(chain, p) \in Seq(Kinds)
           /\ t.page = p => Own(Append(chain, t), p) = Append(Own(chain, p), t.kind)
           /\ t.page # p => Own(Append(chain, t), p) = Own(chain, p)
  <1> DEFINE m == Len(chain)
             longer == Append(chain, t)
  <1>1. m \in Nat /\ Len(longer) = m + 1 /\ longer[m + 1] = t /\ \A i \in 1..m : longer[i] = chain[i]
    BY AppendProperties
  <1>2. m + 1 \in Nat /\ m <= m + 1 /\ m + 1 \in 1..m + 1 /\ (m + 1) - 1 = m /\ m \in 0..m
        /\ Len(longer) \in Nat
    BY <1>1
  <1>3. m = Len(chain)
    OBVIOUS
  <1> HIDE DEF m, longer
  <1>4. PICK f : Keeps(f, chain, p, m) /\ Own(chain, p) = f[m]
    BY <1>1, <1>3, OwnIs
  <1>5. PICK g : Keeps(g, longer, p, m + 1) /\ Own(longer, p) = g[m + 1]
    BY <1>1, <1>2, OwnIs
  <1>6. f[m] = g[m]
    BY <1>1, <1>2, <1>4, <1>5, KeepsAgree
  <1>7. \A n \in 1..m + 1 :
           /\ longer[n].page = p => g[n] = Append(g[n - 1], longer[n].kind)
           /\ longer[n].page # p => g[n] = g[n - 1]
    BY <1>2, <1>5, KeepsAt
  <1>8. /\ t.page = p => g[m + 1] = Append(g[m], t.kind)
        /\ t.page # p => g[m + 1] = g[m]
    BY <1>1, <1>2, <1>7
  <1>9. f[m] \in Seq(Kinds)
    BY <1>1, <1>2, <1>3, <1>4, KeepsType
  <1> QED BY <1>4, <1>5, <1>6, <1>8, <1>9 DEF longer

(* And of one that loses its head. *)
LEMMA OwnTail ==
    ASSUME NEW chain \in Seq(TaskType), chain # <<>>, NEW p
    PROVE  /\ Head(chain).page = p => /\ Own(chain, p) # <<>>
                                      /\ Head(Own(chain, p)) = Head(chain).kind
                                      /\ Own(Tail(chain), p) = Tail(Own(chain, p))
           /\ Head(chain).page # p => Own(Tail(chain), p) = Own(chain, p)
  <1> DEFINE m == Len(chain) - 1
             rest == Tail(chain)
  <1>1. m \in Nat /\ m + 1 \in Nat /\ Len(chain) = m + 1 /\ Len(chain) \in Nat
    OBVIOUS
  <1>2. rest = Tail(chain) /\ rest \in Seq(TaskType)
    OBVIOUS
  <1>3. Len(rest) = m /\ Len(rest) \in Nat /\ Head(chain) = chain[1]
        /\ \A i \in 1..m : rest[i] = chain[i + 1]
    OBVIOUS
  <1> HIDE DEF m, rest
  <1>4. PICK f : Keeps(f, chain, p, m + 1) /\ Own(chain, p) = f[m + 1]
    BY <1>1, OwnIs
  <1>5. PICK g : Keeps(g, rest, p, m) /\ Own(rest, p) = g[m]
    BY <1>1, <1>3, OwnIs
  <1>6. \A n \in 1..m + 1 : f[n - 1] \in Seq(Kinds) /\ f[n] \in Seq(Kinds) /\ chain[n].kind \in Kinds
    <2> TAKE n \in 1..m + 1
    <2>1. n \in 0..m + 1 /\ n - 1 \in 0..m + 1 /\ n \in DOMAIN chain
      BY <1>1
    <2>2. f[n] \in Seq(Kinds) /\ f[n - 1] \in Seq(Kinds)
      BY <1>1, <1>4, <2>1, KeepsType
    <2>3. chain[n] \in TaskType
      BY <2>1
    <2> QED BY <2>2, <2>3 DEF TaskType, Kinds
  <1>7. f[0] = <<>> /\ \A n \in 1..m + 1 :
                          /\ chain[n].page = p => f[n] = Append(f[n - 1], chain[n].kind)
                          /\ chain[n].page # p => f[n] = f[n - 1]
    BY <1>1, <1>4, KeepsAt
  <1>8. g[0] = <<>> /\ \A n \in 1..m :
                          /\ rest[n].page = p => g[n] = Append(g[n - 1], rest[n].kind)
                          /\ rest[n].page # p => g[n] = g[n - 1]
    BY <1>1, <1>5, KeepsAt
  <1>9. CASE chain[1].page = p
    <2> DEFINE Good(n) == f[n + 1] # <<>> /\ Head(f[n + 1]) = chain[1].kind /\ Tail(f[n + 1]) = g[n]
               S == {n \in 0..m : ~ Good(n)}
    <2>1. ASSUME S # {}
          PROVE  FALSE
      <3>1. PICK k \in S : \A j \in S : k <= j
        <4>1. S \in SUBSET Nat
          BY <1>1
        <4> QED BY <2>1, <4>1, Least
      <3>2. CASE k = 0
        <4>1. f[1] = Append(<<>>, chain[1].kind)
          <5>1. 1 \in 1..m + 1 /\ 1 - 1 = 0
            BY <1>1
          <5> QED BY <1>7, <1>9, <5>1
        <4>2. f[1] # <<>> /\ Head(f[1]) = chain[1].kind /\ Tail(f[1]) = <<>>
          <5>1. <<>> \in Seq(Kinds) /\ 1 \in 1..m + 1
            BY <1>1
          <5>2. chain[1].kind \in Kinds
            BY <1>6, <5>1
          <5> QED BY <4>1, <5>1, <5>2, HeadTailAppend, AppendProperties
        <4>3. Good(0)
          <5>1. 0 + 1 = 1
            OBVIOUS
          <5> QED BY <1>8, <4>2, <5>1
        <4> HIDE DEF Good
        <4> QED BY <3>1, <3>2, <4>3
      <3>3. CASE k # 0
        <4>1. k \in 1..m /\ k + 1 \in 1..m + 1 /\ k - 1 \in 0..m /\ k - 1 \notin S /\ (k - 1) + 1 = k
              /\ (k + 1) - 1 = k
          BY <1>1, <3>1, <3>3
        <4>2. f[k] # <<>> /\ Head(f[k]) = chain[1].kind /\ Tail(f[k]) = g[k - 1]
          BY <4>1
        <4>3. rest[k] = chain[k + 1] /\ f[k] \in Seq(Kinds) /\ chain[k + 1].kind \in Kinds
          BY <1>3, <1>6, <4>1
        <4>4. CASE chain[k + 1].page = p
          <5>1. f[k + 1] = Append(f[k], chain[k + 1].kind) /\ g[k] = Append(g[k - 1], chain[k + 1].kind)
            BY <1>7, <1>8, <4>1, <4>3, <4>4
          <5>2. f[k + 1] # <<>>
            BY <4>3, <5>1, AppendProperties
          <5>3. Head(f[k + 1]) = Head(f[k]) /\ Tail(f[k + 1]) = Append(Tail(f[k]), chain[k + 1].kind)
            BY <4>2, <4>3, <5>1, HeadTailAppend
          <5> QED BY <3>1, <4>2, <5>1, <5>2, <5>3
        <4>5. CASE chain[k + 1].page # p
          <5>1. f[k + 1] = f[k] /\ g[k] = g[k - 1]
            BY <1>7, <1>8, <4>1, <4>3, <4>5
          <5> QED BY <3>1, <4>2, <5>1
        <4> QED BY <4>4, <4>5
      <3> QED BY <3>2, <3>3
    <2>2. Good(m)
      <3>1. m \in 0..m
        BY <1>1
      <3> QED BY <2>1, <3>1
    <2> QED BY <1>2, <1>3, <1>4, <1>5, <1>9, <2>2
  <1>10. CASE chain[1].page # p
    <2> DEFINE S == {n \in 0..m : f[n + 1] # g[n]}
    <2>1. ASSUME S # {}
          PROVE  FALSE
      <3>1. PICK k \in S : \A j \in S : k <= j
        <4>1. S \in SUBSET Nat
          BY <1>1
        <4> QED BY <2>1, <4>1, Least
      <3>2. CASE k = 0
        <4>1. 1 \in 1..m + 1 /\ 1 - 1 = 0 /\ 0 + 1 = 1
          BY <1>1
        <4>2. f[1] = f[0]
          BY <1>7, <1>10, <4>1
        <4> QED BY <1>7, <1>8, <3>1, <3>2, <4>1, <4>2
      <3>3. CASE k # 0
        <4>1. k \in 1..m /\ k + 1 \in 1..m + 1 /\ k - 1 \in 0..m /\ k - 1 \notin S /\ (k - 1) + 1 = k
              /\ (k + 1) - 1 = k
          BY <1>1, <3>1, <3>3
        <4>2. f[k] = g[k - 1] /\ rest[k] = chain[k + 1]
          BY <1>3, <4>1
        <4>3. /\ chain[k + 1].page = p => f[k + 1] = Append(f[k], chain[k + 1].kind)
              /\ chain[k + 1].page # p => f[k + 1] = f[k]
          BY <1>7, <4>1
        <4>4. /\ rest[k].page = p => g[k] = Append(g[k - 1], rest[k].kind)
              /\ rest[k].page # p => g[k] = g[k - 1]
          BY <1>8, <4>1
        <4> QED BY <3>1, <4>2, <4>3, <4>4
      <3> QED BY <3>2, <3>3
    <2>2. f[m + 1] = g[m]
      <3>1. m \in 0..m
        BY <1>1
      <3> QED BY <2>1, <3>1
    <2> QED BY <1>2, <1>3, <1>4, <1>5, <1>10, <2>2
  <1> QED BY <1>9, <1>10
-----------------------------------------------------------------------------
(* The close of a page is at the head of the chain, or waits behind it.    *)
Close(p)    == Task("close", p, None)
Heads(w, p) == w # <<>> /\ w[1] = Close(p)
Waits(w, p) == \E i \in DOMAIN w : i # 1 /\ w[i] = Close(p)

LEMMA HeadAppend ==
    ASSUME NEW w \in Seq(TaskType), NEW t \in TaskType, NEW p
    PROVE  /\ t # Close(p) => (Heads(Append(w, t), p) <=> Heads(w, p)) /\ (Waits(Append(w, t), p) <=> Waits(w, p))
           /\ t = Close(p) /\ w # <<>> => Waits(Append(w, t), p)
           /\ t = Close(p) /\ w = <<>> => Heads(Append(w, t), p)
  <1> DEFINE n == Len(w) + 1
             v == Append(w, t)
  <1>1. /\ v # <<>> /\ DOMAIN v = DOMAIN w \cup {n} /\ v[n] = t
        /\ \A i \in DOMAIN w : i <= Len(w) /\ v[i] = w[i]
    BY Longer
  <1>2. n \in Nat /\ (w = <<>> => n = 1) /\ (w # <<>> => n # 1 /\ 1 \in DOMAIN w)
    OBVIOUS
  <1>3. v = Append(w, t)
    OBVIOUS
  <1> HIDE DEF n, v
  <1>4. ASSUME t # Close(p)
        PROVE  (Heads(v, p) <=> Heads(w, p)) /\ (Waits(v, p) <=> Waits(w, p))
    BY <1>1, <1>2, <1>4 DEF Heads, Waits
  <1>5. ASSUME t = Close(p)
        PROVE  (w # <<>> => Waits(v, p)) /\ (w = <<>> => Heads(v, p))
    BY <1>1, <1>2, <1>5 DEF Heads, Waits
  <1> QED BY <1>3, <1>4, <1>5

LEMMA HeadTail ==
    ASSUME NEW w \in Seq(TaskType), w # <<>>, NEW p
    PROVE  Waits(Tail(w), p) \/ Heads(Tail(w), p) <=> Waits(w, p)
  <1> DEFINE v == Tail(w)
             n == Len(w)
  <1>1. /\ n \in Nat \ {0} /\ DOMAIN w = 1..n /\ DOMAIN v = 1..n - 1 /\ v \in Seq(TaskType)
        /\ \A i \in 1..n - 1 : i + 1 \in 1..n /\ i + 1 # 1 /\ v[i] = w[i + 1]
        /\ v # <<>> <=> 1 \in DOMAIN v
    OBVIOUS
  <1>2. v = Tail(w)
    OBVIOUS
  <1> HIDE DEF v, n
  <1>3. ASSUME Waits(v, p) \/ Heads(v, p)
        PROVE  Waits(w, p)
    BY <1>1, <1>3 DEF Heads, Waits
  <1>4. ASSUME Waits(w, p)
        PROVE  Waits(v, p) \/ Heads(v, p)
    <2>1. PICK i \in 1..n : i # 1 /\ w[i] = Close(p)
      BY <1>1, <1>4 DEF Waits
    <2>2. i - 1 \in 1..n - 1 /\ (i - 1) + 1 = i
      BY <1>1, <2>1
    <2>3. v[i - 1] = Close(p)
      BY <1>1, <2>1, <2>2
    <2> QED BY <1>1, <2>2, <2>3 DEF Heads, Waits
  <1> QED BY <1>2, <1>3, <1>4

(* What the mapping says of a page, before and after a step.               *)
TellsNow(p, a)  == phase = "fire" /\ a \notin Range(todo) \cup {doing}
WaitedFor(p)    == IF work # <<>> /\ Running.page = p THEN doing ELSE None

LEMMA Mapped ==
    ASSUME TypeOK, TypeOK'
    PROVE  /\ work \in Seq(TaskType) /\ work' \in Seq(TaskType)
           /\ DoingOf = [p \in Pages |-> WaitedFor(p)]
           /\ DoingOf' = [p \in Pages |-> WaitedFor(p)']
           /\ \A p \in Pages, a \in Actors :
                 Told(p, a) <=> /\ p \in gone /\ Armed(p, a) /\ ~ Waits(work, p)
                                /\ Heads(work, p) => TellsNow(p, a)
           /\ \A p \in Pages, a \in Actors :
                 Told(p, a)' <=> /\ p \in gone' /\ Armed(p, a)' /\ ~ Waits(work', p)
                                 /\ Heads(work', p) => TellsNow(p, a)'
  <1>1. work \in Seq(TaskType) /\ work' \in Seq(TaskType)
    BY DEF TypeOK, TaskType
  <1>2. /\ work # <<>> => 1 \in DOMAIN work /\ Running = work[1]
        /\ work = <<>> => DOMAIN work = {}
        /\ work' # <<>> => 1 \in DOMAIN work' /\ Running' = work'[1]
        /\ work' = <<>> => DOMAIN work' = {}
    BY <1>1, Shorter DEF Running
  <1>3. /\ DoingOf = [p \in Pages |-> WaitedFor(p)]
        /\ DoingOf' = [p \in Pages |-> WaitedFor(p)']
    <2>1. \A p : (HasTask(p) /\ Running.page = p <=> work # <<>> /\ Running.page = p)
      BY <1>2 DEF HasTask
    <2>2. \A p : (HasTask(p)' /\ Running'.page = p <=> work' # <<>> /\ Running'.page = p)
      BY <1>2 DEF HasTask
    <2> QED BY <2>1, <2>2 DEF DoingOf, WaitedFor
  <1>4. ASSUME NEW p \in Pages, NEW a \in Actors
        PROVE  Told(p, a) <=> /\ p \in gone /\ Armed(p, a) /\ ~ Waits(work, p)
                              /\ Heads(work, p) => TellsNow(p, a)
    BY <1>2 DEF Told, Waits, Heads, Close, TellsNow
  <1>5. ASSUME NEW p \in Pages, NEW a \in Actors
        PROVE  Told(p, a)' <=> /\ p \in gone' /\ Armed(p, a)' /\ ~ Waits(work', p)
                               /\ Heads(work', p) => TellsNow(p, a)'
    BY <1>2 DEF Told, Waits, Heads, Close, TellsNow
  <1> QED BY <1>1, <1>3, <1>4, <1>5

LEMMA AtHead ==
    ASSUME TypeOK, Closes, work # <<>>, NEW q, q = Running.page
    PROVE  /\ q \in Pages /\ Running \in TaskType
           /\ Running.kind # "close" => (\A p : ~ Heads(work, p)) /\ (q \in gone => Waits(work, q))
           /\ Running.kind = "close" => /\ q \in gone /\ ~ Waits(work, q)
                                        /\ Heads(work, q) /\ \A p : p # q => ~ Heads(work, p)
           /\ ChainOf[q] # <<>> /\ Head(ChainOf[q]) = Running.kind
  <1>1. /\ work \in Seq(TaskType) /\ Running = work[1] /\ 1 \in DOMAIN work /\ Running \in TaskType
        /\ q \in Pages
    BY RunningType DEF TypeOK, TaskType
  <1>2. \A p : Close(p).kind = "close" /\ Close(p).page = p
    BY DEF Close, Task
  <1>3. \A i \in DOMAIN work : i \in Nat /\ (i # 1 => i > 1)
    BY <1>1
  <1>4. ASSUME Running.kind # "close"
        PROVE  (\A p : ~ Heads(work, p)) /\ (q \in gone => Waits(work, q))
    BY <1>1, <1>2, <1>4 DEF Heads, Waits, Closes, Close
  <1>5. ASSUME Running.kind = "close"
        PROVE  q \in gone /\ ~ Waits(work, q) /\ Heads(work, q) /\ \A p : p # q => ~ Heads(work, p)
    <2>1. q \in gone /\ work[1] = Close(q) /\ \A j \in DOMAIN work : j > 1 => work[j].page # q
      BY <1>1, <1>5 DEF Closes, Close
    <2> QED BY <1>2, <1>3, <2>1 DEF Heads, Waits
  <1>6. ChainOf[q] # <<>> /\ Head(ChainOf[q]) = Running.kind
    <2>1. ChainOf[q] = Own(work, q)
      BY <1>1 DEF ChainOf
    <2> QED BY <1>1, <2>1, OwnTail DEF Running
  <1> QED BY <1>1, <1>4, <1>5, <1>6

LEMMA InstanceKept ==
    ASSUME \A p \in Pages, a \in Actors : (Armed(p, a)' <=> Armed(p, a)) /\ (Told(p, a)' <=> Told(p, a))
    PROVE  InstanceOf' = InstanceOf
  BY DEF InstanceOf

LEMMA InstanceChanged ==
    ASSUME NEW q \in Pages, NEW b \in Actors, NEW s,
           \A p \in Pages, a \in Actors :
               ~ (p = q /\ a = b) => (Armed(p, a)' <=> Armed(p, a)) /\ (Told(p, a)' <=> Told(p, a)),
           s = IF ~ Armed(q, b)' THEN "none" ELSE IF Told(q, b)' THEN "closed" ELSE "armed"
    PROVE  InstanceOf' = [InstanceOf EXCEPT ![q][b] = s]
  <1> DEFINE Now(p, a)  == IF ~ Armed(p, a) THEN "none" ELSE IF Told(p, a) THEN "closed" ELSE "armed"
             Then(p, a) == IF p = q /\ a = b THEN s ELSE Now(p, a)
  <1>1. \A p \in Pages, a \in Actors : InstanceOf'[p][a] = Then(p, a)
    BY DEF InstanceOf
  <1>2. InstanceOf = [p \in Pages |-> [a \in Actors |-> Now(p, a)]]
    BY DEF InstanceOf
  <1>3. InstanceOf' = [p \in Pages |-> [a \in Actors |-> InstanceOf'[p][a]]]
    BY DEF InstanceOf
  <1> HIDE DEF Now
  <1>4. InstanceOf' = [p \in Pages |-> [a \in Actors |-> Then(p, a)]]
    BY <1>1, <1>3
  <1>5. [InstanceOf[q] EXCEPT ![b] = s] = [a \in Actors |-> Then(q, a)]
    BY <1>2
  <1>6. \A p \in Pages : p # q => InstanceOf[p] = [a \in Actors |-> Then(p, a)]
    BY <1>2
  <1> QED BY <1>2, <1>4, <1>5, <1>6

(* A step that leaves the chain, the pages and the handles alone tells     *)
(* nobody, unless it is of a close.                                        *)
LEMMA NobodyTold ==
    ASSUME TypeOK, TypeOK', UNCHANGED <<live, gone, handles, work>>,
           \A p \in Pages, a \in Actors :
               Heads(work, p) /\ Armed(p, a) => (TellsNow(p, a)' <=> TellsNow(p, a))
    PROVE  StageOf' = StageOf /\ ChainOf' = ChainOf /\ InstanceOf' = InstanceOf
  <1>1. \A p, a : Armed(p, a)' <=> Armed(p, a)
    BY DEF Armed
  <1>2. \A p \in Pages, a \in Actors : Told(p, a)' <=> Told(p, a)
    BY <1>1, Mapped
  <1>3. InstanceOf' = InstanceOf
    BY <1>1, <1>2, InstanceKept
  <1> QED BY <1>3 DEF StageOf, ChainOf

(* A task that is announced is nobody's turn, and tells nobody.            *)
LEMMA Announced ==
    ASSUME IInv, IInv', NEW t \in TaskType, Schedule(t), UNCHANGED <<handles, phase, todo, doing>>,
           NEW p, p = t.page, p \in Pages, p \in live,
           \/ t.kind # "close" /\ gone' = gone
           \/ t = Close(p) /\ gone' = gone \cup {p}
    PROVE  /\ ChainOf' = [ChainOf EXCEPT ![p] = Append(@, t.kind)]
           /\ UNCHANGED <<InstanceOf, DoingOf>>
  <1>1. TypeOK /\ TypeOK' /\ Closes /\ Turns /\ work \in Seq(TaskType) /\ work' = Append(work, t)
    BY Mapped DEF IInv, Schedule
  <1>2. ChainOf' = [ChainOf EXCEPT ![p] = Append(@, t.kind)]
    <2>1. \A q \in Pages : /\ q = p => Own(work', q) = Append(Own(work, q), t.kind)
                           /\ q # p => Own(work', q) = Own(work, q)
      BY <1>1, OwnAppend
    <2> QED BY <2>1 DEF ChainOf
  <1>3. DoingOf' = DoingOf
    <2>1. work' # <<>> /\ (work # <<>> => Running' = Running) /\ (work = <<>> => doing = None)
      BY <1>1, Longer DEF Running, Turns, TypeOK
    <2>2. \A q : WaitedFor(q)' = WaitedFor(q)
      BY <2>1 DEF WaitedFor
    <2> QED BY <1>1, <2>2, Mapped
  <1>4. \A q, a : Armed(q, a)' <=> Armed(q, a)
    BY DEF Armed
  <1>5. \A q, a : TellsNow(q, a)' <=> TellsNow(q, a)
    BY DEF TellsNow
  <1>6. \A q : Close(q).kind = "close" /\ Close(q).page = q
    BY DEF Close, Task
  <1>7. ASSUME NEW q \in Pages, NEW a \in Actors
        PROVE  Told(q, a)' <=> Told(q, a)
    <2>1. CASE t = Close(q)
      <3>1. q = p /\ q \notin gone
        BY <1>1, <1>6, <2>1 DEF TypeOK
      <3>2. work # <<>> => Waits(work', q)
        BY <1>1, <2>1, HeadAppend
      <3>3. work = <<>> => Heads(work', q) /\ ~ TellsNow(q, a)
        BY <1>1, <2>1, HeadAppend DEF TellsNow, TypeOK
      <3> QED BY <1>1, <1>5, <3>1, <3>2, <3>3, Mapped
    <2>2. CASE t # Close(q)
      <3>1. (Heads(work', q) <=> Heads(work, q)) /\ (Waits(work', q) <=> Waits(work, q))
        BY <1>1, <2>2, HeadAppend
      <3>2. q \in gone' <=> q \in gone
        BY <2>2
      <3> QED BY <1>1, <1>4, <1>5, <3>1, <3>2, Mapped
    <2> QED BY <2>1, <2>2
  <1> QED BY <1>2, <1>3, <1>4, <1>7, InstanceKept

LEMMA PageSteps ==
    ASSUME IInv, IInv', NEW p \in Pages
    PROVE  /\ Attached(p) => Promise!Attach(p)
           /\ Detached(p) => Promise!Detach(p)
           /\ \A url \in Urls : Document(p, url) => Promise!Announce(p, "document")
           /\ Event(p) => Promise!Announce(p, "event")
  <1>0. TypeOK /\ TypeOK' /\ live \cap gone = {} /\ live' \cap gone' = {}
    BY DEF IInv, TypeOK
  <1>1. ASSUME Attached(p)
        PROVE  Promise!Attach(p)
    <2>1. /\ p \notin live \cup gone /\ live' = live \cup {p}
          /\ UNCHANGED <<gone, handles, work, phase, todo, doing>>
      BY <1>1 DEF Attached, chainVars
    <2>2. StageOf[p] = "new" /\ StageOf' = [StageOf EXCEPT ![p] = "live"]
      BY <2>1 DEF StageOf
    <2>3. ChainOf' = ChainOf /\ DoingOf' = DoingOf
      BY <2>1 DEF ChainOf, DoingOf, HasTask, Running
    <2>4. InstanceOf' = InstanceOf
      <3>1. \A q, a : (Armed(q, a)' <=> Armed(q, a)) /\ (Told(q, a)' <=> Told(q, a))
        BY <2>1 DEF Armed, Told
      <3> QED BY <3>1, InstanceKept
    <2> QED BY <2>2, <2>3, <2>4 DEF Promise!Attach
  <1>2. ASSUME Detached(p)
        PROVE  Promise!Detach(p)
    <2>1. /\ p \in live /\ live' = live \ {p} /\ gone' = gone \cup {p}
          /\ Schedule(Close(p)) /\ UNCHANGED <<handles, phase, todo, doing>>
      BY <1>2 DEF Detached, Close
    <2>2. Close(p) \in TaskType /\ Close(p).kind = "close" /\ Close(p).page = p
      BY DEF Close, Task, TaskType
    <2>3. StageOf[p] = "live" /\ StageOf' = [StageOf EXCEPT ![p] = "gone"]
      BY <1>0, <2>1 DEF StageOf
    <2>4. /\ ChainOf' = [ChainOf EXCEPT ![p] = Append(@, "close")]
          /\ UNCHANGED <<InstanceOf, DoingOf>>
      BY <2>1, <2>2, Announced
    <2> QED BY <2>3, <2>4 DEF Promise!Detach
  <1>3. ASSUME NEW t \in TaskType, t.page = p, t.kind \in {"document", "event"}, p \in live,
               Schedule(t), UNCHANGED <<live, gone, handles, phase, todo, doing>>
        PROVE  Promise!Announce(p, t.kind)
    <2>1. StageOf[p] = "live" /\ StageOf' = StageOf
      BY <1>3 DEF StageOf
    <2>2. /\ ChainOf' = [ChainOf EXCEPT ![p] = Append(@, t.kind)]
          /\ UNCHANGED <<InstanceOf, DoingOf>>
      BY <1>3, Announced
    <2> QED BY <2>1, <2>2 DEF Promise!Announce
  <1>4. ASSUME NEW url \in Urls, Document(p, url)
        PROVE  Promise!Announce(p, "document")
    <2>1. PICK t : t = Task("document", p, url)
      OBVIOUS
    <2>2. t \in TaskType /\ t.page = p /\ t.kind = "document"
      BY <2>1 DEF Task, TaskType
    <2> QED BY <1>3, <1>4, <2>1, <2>2 DEF Document
  <1>5. ASSUME Event(p)
        PROVE  Promise!Announce(p, "event")
    <2>1. PICK t : t = Task("event", p, None)
      OBVIOUS
    <2>2. t \in TaskType /\ t.page = p /\ t.kind = "event"
      BY <2>1 DEF Task, TaskType
    <2> QED BY <1>3, <1>5, <2>1, <2>2 DEF Event
  <1> QED BY <1>1, <1>2, <1>4, <1>5

(* The chain leaves the head: its page's tasks are one less, and nobody is *)
(* told of a close that nobody was left to be told of.                     *)
LEMMA LeavesHead ==
    ASSUME IInv, IInv', Pops, NEW q, q = Running.page,
           UNCHANGED <<live, gone, handles, doing>>, doing = None, phase' = "idle",
           Running.kind = "close" => phase = "fire" /\ todo = <<>>
    PROVE  Promise!Done(q) /\ q \in Pages
  <1>1. TypeOK /\ TypeOK' /\ Closes /\ work \in Seq(TaskType) /\ work # <<>> /\ work' = Tail(work)
    BY Mapped DEF IInv, Pops
  <1>2. q \in Pages /\ Running \in TaskType /\ ChainOf[q] # <<>> /\ Head(ChainOf[q]) = Running.kind
    BY <1>1, AtHead
  <1>3. DoingOf = [p \in Pages |-> None] /\ DoingOf' = [p \in Pages |-> None]
    BY <1>1, Mapped DEF WaitedFor
  <1>4. ChainOf' = [ChainOf EXCEPT ![q] = Tail(@)]
    <2>1. \A p \in Pages : /\ p = q => Own(work', p) = Tail(Own(work, p))
                           /\ p # q => Own(work', p) = Own(work, p)
      BY <1>1, OwnTail DEF Running
    <2> QED BY <2>1 DEF ChainOf
  <1>5. StageOf' = StageOf /\ \A p, a : Armed(p, a)' <=> Armed(p, a)
    BY DEF StageOf, Armed
  <1>6. ASSUME NEW p \in Pages, NEW a \in Actors
        PROVE  Told(p, a)' <=> Told(p, a)
    <2>1. Waits(work', p) \/ Heads(work', p) <=> Waits(work, p)
      BY <1>1, HeadTail
    <2>2. ~ TellsNow(p, a)'
      BY DEF TellsNow
    <2>3. Heads(work, p) => TellsNow(p, a)
      <3>1. CASE Running.kind = "close"
        <4>1. Range(todo) = {}
          BY <3>1 DEF Range
        <4> QED BY <3>1, <4>1, ActorsAssumption DEF TellsNow
      <3>2. CASE Running.kind # "close"
        BY <1>1, <3>2, AtHead
      <3> QED BY <3>1, <3>2
    <2> QED BY <1>1, <1>5, <2>1, <2>2, <2>3, Mapped
  <1>7. InstanceOf' = InstanceOf
    BY <1>5, <1>6, InstanceKept
  <1>8. ASSUME Head(ChainOf[q]) = "close", NEW a \in Actors
        PROVE  InstanceOf[q][a] # "armed"
    <2>1. Running.kind = "close" /\ Range(todo) = {}
      BY <1>2, <1>8 DEF Range
    <2>2. q \in gone /\ ~ Waits(work, q) /\ TellsNow(q, a)
      BY <1>1, <2>1, AtHead, ActorsAssumption DEF TellsNow
    <2>3. Armed(q, a) => Told(q, a)
      BY <1>1, <1>2, <2>2, Mapped
    <2> QED BY <1>2, <2>3 DEF InstanceOf
  <1> QED BY <1>2, <1>3, <1>4, <1>5, <1>7, <1>8 DEF Promise!Done

LEMMA Waited ==
    ASSUME TypeOK, TypeOK', work # <<>>, work' = work, NEW q, q = Running.page, q \in Pages
    PROVE  /\ DoingOf[q] = doing
           /\ DoingOf' = [DoingOf EXCEPT ![q] = doing']
  <1>1. Running' = Running
    BY DEF Running
  <1>2. \A p : /\ WaitedFor(p) = IF p = q THEN doing ELSE None
               /\ WaitedFor(p)' = IF p = q THEN doing' ELSE None
    BY <1>1 DEF WaitedFor
  <1> QED BY <1>2, Mapped

LEMMA CallSteps ==
    ASSUME IInv, IInv', NEW q, q = Running.page, work # <<>>
    PROVE  /\ FireNext => \E a \in Actors : Promise!Call(q, a)
           /\ Fired => Promise!Return(q)
           /\ SetUp => Promise!Return(q)
           /\ SetUpFails => Promise!Return(q)
           /\ q \in Pages
  <1>1. TypeOK /\ TypeOK' /\ Closes /\ Turns /\ work \in Seq(TaskType)
    BY Mapped DEF IInv
  <1>2. q \in Pages /\ Running \in TaskType /\ ChainOf[q] # <<>> /\ Head(ChainOf[q]) = Running.kind
    BY <1>1, AtHead
  <1>3. ASSUME work' = work
        PROVE  DoingOf[q] = doing /\ DoingOf' = [DoingOf EXCEPT ![q] = doing']
    BY <1>1, <1>2, <1>3, Waited
  <1>4. ASSUME FireNext
        PROVE  \E a \in Actors : Promise!Call(q, a)
    <2>1. /\ phase = "fire" /\ doing = None /\ todo # <<>> /\ doing' = Head(todo) /\ todo' = Tail(todo)
          /\ UNCHANGED <<live, gone, handles, work, phase>>
      BY <1>4 DEF FireNext
    <2>2. /\ doing' \in Actors /\ Range(todo) = {doing'} \cup Range(todo')
          /\ Range(todo) \subseteq Range(handles[q])
          /\ Running.kind \in {"document", "close"}
      BY <1>1, <2>1, Shorter DEF TypeOK, Turns
    <2>3. \A p, a : a \in Actors => (TellsNow(p, a)' <=> TellsNow(p, a))
      BY <2>1, <2>2, ActorsAssumption DEF TellsNow
    <2>4. StageOf' = StageOf /\ ChainOf' = ChainOf /\ InstanceOf' = InstanceOf
      BY <1>1, <2>1, <2>3, NobodyTold
    <2>5. InstanceOf[q][doing'] = "armed"
      <3>1. Armed(q, doing')
        BY <2>2 DEF Armed
      <3>2. CASE Running.kind = "document"
        <4>1. ~ Told(q, doing')
          BY <1>1, <1>2, <2>2, <3>2, AtHead, Mapped
        <4> QED BY <1>2, <2>2, <3>1, <4>1 DEF InstanceOf
      <3>3. CASE Running.kind = "close"
        <4>1. Heads(work, q) /\ ~ TellsNow(q, doing')
          BY <1>1, <2>2, <3>3, AtHead DEF TellsNow
        <4>2. ~ Told(q, doing')
          BY <1>1, <1>2, <2>2, <4>1, Mapped
        <4> QED BY <1>2, <2>2, <3>1, <4>2 DEF InstanceOf
      <3> QED BY <2>2, <3>2, <3>3
    <2>6. Promise!Call(q, doing')
      <3>1. DoingOf[q] = None /\ DoingOf' = [DoingOf EXCEPT ![q] = doing']
        BY <1>3, <2>1
      <3>2. Head(ChainOf[q]) \in {"document", "close"}
        BY <1>2, <2>2
      <3> QED BY <1>2, <2>4, <2>5, <3>1, <3>2 DEF Promise!Call
    <2> QED BY <2>2, <2>6
  <1>5. ASSUME Fired
        PROVE  Promise!Return(q)
    <2>1. /\ phase = "fire" /\ doing # None /\ doing' = None
          /\ UNCHANGED <<live, gone, handles, work, phase, todo>>
      BY <1>5 DEF Fired
    <2>2. /\ doing \in Actors /\ doing \in Range(handles[q]) \ Range(todo)
          /\ Running.kind \in {"document", "close"}
      BY <1>1, <2>1 DEF TypeOK, Turns
    <2>3. DoingOf[q] = doing /\ DoingOf' = [DoingOf EXCEPT ![q] = None]
      BY <1>3, <2>1
    <2>4. CASE Running.kind = "document"
      <3>1. \A p \in Pages : ~ Heads(work, p)
        BY <1>1, <2>4, AtHead
      <3>2. StageOf' = StageOf /\ ChainOf' = ChainOf /\ InstanceOf' = InstanceOf
        BY <1>1, <2>1, <3>1, NobodyTold
      <3> QED BY <1>2, <2>1, <2>3, <2>4, <3>2 DEF Promise!Return
    <2>5. CASE Running.kind = "close"
      <3>1. /\ q \in gone /\ ~ Waits(work, q) /\ Heads(work, q) /\ \A p : p # q => ~ Heads(work, p)
        BY <1>1, <2>5, AtHead
      <3>2. \A p \in Pages, a \in Actors :
               /\ Armed(p, a)' <=> Armed(p, a)
               /\ a = doing => TellsNow(p, a)'
               /\ a # doing => (TellsNow(p, a)' <=> TellsNow(p, a))
        BY <2>1, <2>2, ActorsAssumption DEF Armed, TellsNow
      <3>3. ASSUME NEW p \in Pages, NEW a \in Actors
            PROVE  Told(p, a)' <=> Told(p, a) \/ (p = q /\ a = doing)
        <4>1. CASE p = q /\ a = doing
          <5>1. Armed(p, a) /\ Armed(p, a)' /\ TellsNow(p, a)'
            BY <1>2, <2>2, <3>2, <4>1 DEF Armed
          <5>2. p \in gone' /\ ~ Waits(work', p)
            BY <2>1, <3>1, <4>1
          <5> QED BY <1>1, <4>1, <5>1, <5>2, Mapped
        <4>2. CASE ~ (p = q /\ a = doing)
          BY <1>1, <2>1, <3>1, <3>2, <4>2, Mapped
        <4> QED BY <4>1, <4>2
      <3>4. Armed(q, doing) /\ \A p \in Pages, a \in Actors : Armed(p, a)' <=> Armed(p, a)
        BY <2>2, <3>2 DEF Armed
      <3>5. InstanceOf' = [InstanceOf EXCEPT ![q][doing] = "closed"]
        <4>1. PICK b \in Actors : b = doing
          BY <2>2
        <4>2. Armed(q, b)' /\ Told(q, b)'
          BY <1>2, <3>3, <3>4, <4>1
        <4>3. InstanceOf' = [InstanceOf EXCEPT ![q][b] = "closed"]
          BY <1>2, <3>3, <3>4, <4>1, <4>2, InstanceChanged
        <4> QED BY <4>1, <4>3
      <3>6. StageOf' = StageOf /\ ChainOf' = ChainOf
        BY <2>1 DEF StageOf, ChainOf
      <3> QED BY <1>2, <2>1, <2>3, <2>5, <3>5, <3>6 DEF Promise!Return
    <2> QED BY <2>2, <2>4, <2>5
  <1>6. ASSUME SetUp \/ SetUpFails
        PROVE  /\ Running.kind = "document" /\ doing \in Actors /\ doing' = None /\ work' = work
               /\ \A p \in Pages : ~ Heads(work, p)
               /\ q \in gone => Waits(work, q)
               /\ UNCHANGED <<live, gone>>
    <2>1. /\ phase = "setup" /\ doing # None /\ doing' = None /\ work' = work
          /\ UNCHANGED <<live, gone>>
      BY <1>6 DEF SetUp, SetUpFails
    <2>2. Running.kind = "document" /\ doing \in Actors
      BY <1>1, <2>1 DEF Turns, TypeOK
    <2> QED BY <1>1, <2>1, <2>2, AtHead
  <1>7. ASSUME SetUp
        PROVE  Promise!Return(q)
    <2>1. handles' = [handles EXCEPT ![q] = Append(@, doing)] /\ \A p \in Pages : handles[p] \in Seq(Actors)
      BY <1>1, <1>7 DEF SetUp, TypeOK
    <2>2. \A p \in Pages, a \in Actors : Armed(p, a)' <=> Armed(p, a) \/ (p = q /\ a = doing)
      <3>0. handles \in [Pages -> Seq(Actors)] /\ handles[q] \in Seq(Actors) /\ doing \in Actors
        BY <1>1, <1>2, <1>6, <1>7 DEF TypeOK
      <3>1. \A p \in Pages : /\ p = q => handles'[p] = Append(handles[p], doing)
                             /\ p # q => handles'[p] = handles[p]
        BY <2>1, <3>0
      <3>2. Range(Append(handles[q], doing)) = Range(handles[q]) \cup {doing}
        BY <3>0, Longer
      <3>3. ASSUME NEW p \in Pages, NEW a \in Actors
            PROVE  a \in Range(handles'[p]) <=> a \in Range(handles[p]) \/ (p = q /\ a = doing)
        <4>1. CASE p = q
          <5>1. handles'[p] = Append(handles[q], doing)
            BY <3>1, <4>1
          <5>2. Range(handles'[p]) = Range(handles[p]) \cup {doing}
            BY <3>2, <4>1, <5>1, Zenon
          <5> QED BY <4>1, <5>2
        <4>2. CASE p # q
          <5>1. handles'[p] = handles[p]
            BY <3>1, <4>2
          <5> QED BY <4>2, <5>1
        <4> QED BY <4>1, <4>2
      <3> QED BY <3>3 DEF Armed
    <2>3. \A p \in Pages, a \in Actors : Told(p, a)' <=> Told(p, a)
      BY <1>1, <1>6, <1>7, <2>2, Mapped
    <2>4. ~ Told(q, doing)
      BY <1>1, <1>2, <1>6, <1>7, Mapped
    <2>5. InstanceOf' = [InstanceOf EXCEPT ![q][doing] = "armed"]
      <3>1. PICK b \in Actors : b = doing
        BY <1>6, <1>7
      <3>2. Armed(q, b)' /\ ~ Told(q, b)'
        BY <1>2, <2>2, <2>3, <2>4, <3>1
      <3>3. InstanceOf' = [InstanceOf EXCEPT ![q][b] = "armed"]
        BY <1>2, <2>2, <2>3, <3>1, <3>2, InstanceChanged
      <3> QED BY <3>1, <3>3
    <2>6. DoingOf[q] = doing /\ DoingOf' = [DoingOf EXCEPT ![q] = None]
      BY <1>3, <1>6, <1>7
    <2>7. StageOf' = StageOf /\ ChainOf' = ChainOf
      BY <1>6, <1>7 DEF StageOf, ChainOf
    <2> QED BY <1>2, <1>6, <1>7, <2>5, <2>6, <2>7, ActorsAssumption DEF Promise!Return
  <1>8. ASSUME SetUpFails
        PROVE  Promise!Return(q)
    <2>1. handles' = handles
      BY <1>8 DEF SetUpFails
    <2>2. StageOf' = StageOf /\ ChainOf' = ChainOf /\ InstanceOf' = InstanceOf
      BY <1>1, <1>6, <1>8, <2>1, NobodyTold
    <2>3. DoingOf[q] = doing /\ DoingOf' = [DoingOf EXCEPT ![q] = None]
      BY <1>3, <1>6, <1>8
    <2> QED BY <1>2, <1>6, <1>8, <2>2, <2>3, ActorsAssumption DEF Promise!Return
  <1> QED BY <1>2, <1>4, <1>5, <1>7, <1>8

(* A step of the scheduler is a step of the page at the head, or none.     *)
Quiet == StageOf' = StageOf /\ ChainOf' = ChainOf /\ InstanceOf' = InstanceOf /\ DoingOf' = DoingOf

LEMMA RuntimeSteps ==
    ASSUME IInv, IInv', NEW q, q = Running.page, work # <<>>
    PROVE  /\ RunTask => Quiet \/ Promise!Done(q)
           /\ SetupNext => Quiet \/ \E a \in Actors : Promise!Call(q, a)
           /\ TaskDone => Promise!Done(q)
  <1>1. TypeOK /\ TypeOK' /\ Closes /\ Turns /\ work \in Seq(TaskType)
    BY Mapped DEF IInv
  <1>2. q \in Pages /\ Running \in TaskType /\ ChainOf[q] # <<>> /\ Head(ChainOf[q]) = Running.kind
    BY <1>1, AtHead
  <1>3. ASSUME work' = work
        PROVE  DoingOf[q] = doing /\ DoingOf' = [DoingOf EXCEPT ![q] = doing']
    BY <1>1, <1>2, <1>3, Waited
  <1>4. ASSUME work' = work, doing' = doing
        PROVE  DoingOf' = DoingOf
    BY <1>4 DEF DoingOf, HasTask, Running
  <1>5. ASSUME RunTask
        PROVE  Quiet \/ Promise!Done(q)
    <2>1. phase = "idle" /\ doing = None /\ UNCHANGED <<live, gone, handles, doing>>
      BY <1>1, <1>5 DEF RunTask, Turns
    <2>2. CASE Running.kind = "event"
      <3>1. Pops /\ phase' = "idle"
        BY <1>5, <2>1, <2>2 DEF RunTask, Pops
      <3> QED BY <2>1, <2>2, <3>1, LeavesHead
    <2>3. CASE Running.kind = "document"
      <3>1. work' = work
        BY <1>5, <2>3 DEF RunTask
      <3>2. \A p \in Pages : ~ Heads(work, p)
        BY <1>1, <2>3, AtHead
      <3>3. StageOf' = StageOf /\ ChainOf' = ChainOf /\ InstanceOf' = InstanceOf
        BY <1>1, <2>1, <3>1, <3>2, NobodyTold
      <3> QED BY <1>4, <2>1, <3>1, <3>3 DEF Quiet
    <2>4. CASE Running.kind = "close"
      <3>1. work' = work /\ todo' = handles[q]
        BY <1>5, <2>4 DEF RunTask
      <3>2. \A p \in Pages, a \in Actors :
               Heads(work, p) /\ Armed(p, a) => ~ TellsNow(p, a) /\ ~ TellsNow(p, a)'
        <4>1. \A p : Heads(work, p) => p = q
          BY <1>1, <2>4, AtHead
        <4> QED BY <2>1, <3>1, <4>1 DEF TellsNow, Armed
      <3>3. StageOf' = StageOf /\ ChainOf' = ChainOf /\ InstanceOf' = InstanceOf
        BY <1>1, <2>1, <3>1, <3>2, NobodyTold
      <3> QED BY <1>4, <2>1, <3>1, <3>3 DEF Quiet
    <2> QED BY <1>2, <2>2, <2>3, <2>4 DEF TaskType
  <1>6. ASSUME SetupNext
        PROVE  Quiet \/ \E a \in Actors : Promise!Call(q, a)
    <2>1. /\ phase = "setup" /\ doing = None /\ UNCHANGED <<live, gone, handles, work>>
      BY <1>6 DEF SetupNext
    <2>2. Running.kind = "document" /\ \A p \in Pages : ~ Heads(work, p)
      BY <1>1, <2>1, AtHead DEF Turns
    <2>3. StageOf' = StageOf /\ ChainOf' = ChainOf /\ InstanceOf' = InstanceOf
      BY <1>1, <2>1, <2>2, NobodyTold
    <2>4. CASE doing' = doing
      BY <1>4, <2>1, <2>3, <2>4 DEF Quiet
    <2>5. ASSUME NEW i \in DOMAIN todo, Wanted(todo[i]), doing' = todo[i]
          PROVE  \E a \in Actors : Promise!Call(q, a)
      <3>1. doing' \in Actors
        BY <1>1, <2>5 DEF TypeOK
      <3>2. ~ Armed(q, doing')
        BY <2>5 DEF Wanted, Armed
      <3>3. InstanceOf[q][doing'] = "none"
        BY <1>2, <3>1, <3>2 DEF InstanceOf
      <3>4. DoingOf[q] = None /\ DoingOf' = [DoingOf EXCEPT ![q] = doing']
        BY <1>3, <2>1
      <3>5. Promise!Call(q, doing')
        BY <1>2, <2>2, <2>3, <3>3, <3>4 DEF Promise!Call
      <3> QED BY <3>1, <3>5
    <2> QED BY <1>6, <2>4, <2>5 DEF SetupNext
  <1>7. ASSUME TaskDone
        PROVE  Promise!Done(q)
    <2>1. /\ Pops /\ phase' = "idle" /\ doing = None /\ phase = "fire" /\ todo = <<>>
          /\ UNCHANGED <<live, gone, handles, doing>>
      BY <1>7 DEF TaskDone, Pops
    <2> QED BY <2>1, LeavesHead
  <1> QED BY <1>5, <1>6, <1>7

LEMMA PromiseStart == Init => Promise!Init
  <1> SUFFICES ASSUME Init
               PROVE  Promise!Init
    OBVIOUS
  <1>1. work = <<>> /\ live = {} /\ gone = {} /\ \A p \in Pages : handles[p] = <<>>
    BY DEF Init
  <1>2. StageOf = [p \in Pages |-> "new"]
    BY <1>1 DEF StageOf
  <1>3. ChainOf = [p \in Pages |-> <<>>]
    <2>1. \A p \in Pages : Own(<<>>, p) = <<>>
      <3> TAKE p \in Pages
      <3>1. Len(<<>>) = 0 /\ 0 \in Nat
        OBVIOUS
      <3>2. PICK f : Keeps(f, <<>>, p, 0) /\ Own(<<>>, p) = f[0]
        BY <3>1, OwnIs
      <3> QED BY <3>1, <3>2, KeepsAt
    <2> QED BY <1>1, <2>1 DEF ChainOf
  <1>4. InstanceOf = [p \in Pages |-> [a \in Actors |-> "none"]]
    <2>1. \A p \in Pages, a \in Actors : ~ Armed(p, a)
      BY <1>1 DEF Armed, Range
    <2> QED BY <2>1 DEF InstanceOf
  <1>5. DoingOf = [p \in Pages |-> None]
    <2>1. \A p \in Pages : ~ HasTask(p)
      BY <1>1 DEF HasTask
    <2> QED BY <2>1 DEF DoingOf
  <1> QED BY <1>2, <1>3, <1>4, <1>5 DEF Promise!Init

LEMMA PromiseStep == IInv /\ IInv' /\ [Next]_vars => [Promise!Next]_(Promise!vars)
  <1> SUFFICES ASSUME IInv, IInv', [Next]_vars
               PROVE  [Promise!Next]_(Promise!vars)
    OBVIOUS
  <1>1. TypeOK /\ TypeOK' /\ Closes /\ Turns
    BY DEF IInv
  <1>2. ASSUME Quiet
        PROVE  UNCHANGED Promise!vars
    BY <1>2 DEF Quiet, Promise!vars
  <1>3. ASSUME Runtime \/ Callback
        PROVE  [Promise!Next]_(Promise!vars)
    <2>1. work # <<>>
      BY <1>1, <1>3 DEF Runtime, Callback, RunTask, SetupNext, SetUp, SetUpFails, FireNext, Fired,
                        TaskDone, TypeOK
    <2>2. PICK q : q = Running.page
      OBVIOUS
    <2>3. q \in Pages
      BY <2>1, <2>2, CallSteps
    <2>4. Quiet \/ Promise!Done(q) \/ Promise!Return(q) \/ \E a \in Actors : Promise!Call(q, a)
      BY <1>3, <2>1, <2>2, CallSteps, RuntimeSteps DEF Runtime, Callback
    <2> QED BY <1>2, <2>3, <2>4 DEF Promise!Next
  <1>4. ASSUME NEW p \in Pages, Attached(p) \/ Detached(p) \/ Event(p)
        PROVE  Promise!Next
    BY <1>4, PageSteps DEF Promise!Next
  <1>5. ASSUME NEW p \in Pages, NEW url \in Urls, Document(p, url)
        PROVE  Promise!Next
    BY <1>5, PageSteps DEF Promise!Next
  <1>6. ASSUME UNCHANGED <<live, gone, handles, work, phase, todo, doing>>
        PROVE  Quiet
    <2>1. \A p, a : TellsNow(p, a)' <=> TellsNow(p, a)
      BY <1>6 DEF TellsNow
    <2>2. StageOf' = StageOf /\ ChainOf' = ChainOf /\ InstanceOf' = InstanceOf
      BY <1>1, <1>6, <2>1, NobodyTold
    <2> QED BY <1>6, <2>2 DEF Quiet, DoingOf, HasTask, Running
  <1>7. CASE UNCHANGED vars
    BY <1>2, <1>6, <1>7 DEF vars, chainVars
  <1> QED BY <1>2, <1>3, <1>4, <1>5, <1>6, <1>7 DEF Next

(* The one chain of the connection keeps, for each page, the promise of    *)
(* PageActors: its callbacks one at a time and in the page's own order,    *)
(* close last and to every instance (#schedule, #document, detached).      *)
THEOREM OneChainKeepsPromise == Spec => KeepsPromise
  <1> QED BY Invariance, PromiseStart, PromiseStep, PTL DEF Spec, KeepsPromise, Promise!Spec
=================================================================================
