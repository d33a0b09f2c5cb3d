---------------------------- MODULE OwnershipProofs ----------------------------
(***************************************************************************)
(* Theorems about Ownership for every set of connections, contexts and     *)
(* targets: what a client is shown, what it is told has gone, and what a   *)
(* connection remembers of its neighbours.                                 *)
(***************************************************************************)
EXTENDS Ownership, FiniteSetTheorems, SequenceTheorems, TLAPS

Born == {t \in Targets : alive[t] # "none"}

(* A detach comes after the attach of its target, and once. *)
Ordered(s) ==
    \A i, j \in DOMAIN s, t \in Targets :
        s[i] = Detach(t) /\ s[j] \in {Attach(t), Detach(t)} => j <= i

(* What is between the browser and a connection about one target: attach,   *)
(* detach, and the connection's memory of the first until the second.      *)
Mail(d) ==
    /\ conn[d] # "open" => inbox[d] = <<>>
    /\ conn[d] = "new" => foreign[d] = {}
    /\ Ordered(inbox[d])
    /\ \A t \in Targets :
        /\ Detach(t) \in ToSet(inbox[d]) =>
               /\ <<d, t>> \notin attached /\ t \in Born
               /\ Attach(t) \in ToSet(inbox[d]) \/ t \in shown[d] \cup foreign[d]
        /\ Attach(t) \in ToSet(inbox[d]) =>
               t \in Born /\ (<<d, t>> \in attached \/ Detach(t) \in ToSet(inbox[d]))
        /\ <<d, t>> \in attached /\ conn[d] = "open" =>
               Attach(t) \in ToSet(inbox[d]) \/ t \in shown[d] \cup foreign[d]
    /\ shown[d] \subseteq Born /\ toldGone[d] \subseteq shown[d]
    /\ \A t \in foreign[d] :
           conn[d] = "open" => <<d, t>> \in attached \/ Detach(t) \in ToSet(inbox[d])

(* What the browser holds, and has reported of it. *)
Sound ==
    /\ IsFiniteSet(Born)
    /\ \A d \in Connections, t \in Targets :
           <<d, t>> \in attached => alive[t] = "live" /\ conn[d] \in {"open", "ending"}
    /\ \A d \in Connections : Mail(d)

Queued(d) == replies[d] \cup ToSet(inbox[d])

(* The replies on their way. *)
Letters ==
    \A d \in Connections :
        /\ conn[d] \in {"new", "closed"} => replies[d] = {}
        /\ \A x \in Contexts :
            /\ Created(x) \in Queued(d) => creator[x] = d /\ ctx[x] # "unused"
            /\ Disposed(x) \in Queued(d) => ctx[x] = "gone"
            /\ conn[d] = "ending" /\ Created(x) \in replies[d] => x \in late

Made == \A x \in Contexts : ctx[x] # "unused" =>
            creator[x] \in Connections /\ conn[creator[x]] # "new"

(* A context is its creator's once the creator has read the reply ...       *)
Claimed ==
    \A x \in Contexts : ctx[x] = "live" /\ conn[creator[x]] = "open" =>
        owners[x] = creator[x] \/ Created(x) \in Queued(creator[x])

(* ... and therefore before anyone can open a page in it.                   *)
Housed ==
    \A t \in Targets : home[t] \in Contexts =>
        /\ alive[t] # "none" /\ ctx[home[t]] # "unused"
        /\ ctx[home[t]] = "live" /\ conn[creator[home[t]]] = "open" =>
               owners[home[t]] = creator[home[t]]

Claims == Letters /\ Made /\ Claimed /\ Housed

IInv == TypeOK /\ Sound /\ Claims /\ HiddenWhileOwned /\ ClaimsEndWithConnection

-----------------------------------------------------------------------------
LEMMA SetToSeqFacts ==
    ASSUME NEW S, IsFiniteSet(S)
    PROVE  /\ SetToSeq(S) \in Seq(S)
           /\ ToSet(SetToSeq(S)) = S
           /\ \A i, j \in DOMAIN SetToSeq(S) : SetToSeq(S)[i] = SetToSeq(S)[j] => i = j
  <1> DEFINE n == Cardinality(S)
  <1>1. n \in Nat /\ ExistsBijection(1..n, S)
    BY FS_CardinalityType
  <1>2. PICK f \in Bijection(1..n, S) : TRUE
    BY <1>1 DEF ExistsBijection
  <1>3. f \in [1..n -> S] /\ IsInjective(f)
    BY <1>2 DEF Bijection, Injection
  <1>4. SetToSeq(S) \in [1..n -> S] /\ IsInjective(SetToSeq(S))
    BY <1>3 DEF SetToSeq
  <1>5. SetToSeq(S) \in Injection(1..n, S)
    BY <1>4 DEF Injection
  <1>6. SetToSeq(S) \in Surjection(1..n, S)
    <2>1. IsFiniteSet(1..n) /\ Cardinality(1..n) = n
      BY <1>1, FS_Interval
    <2> QED BY <1>5, <2>1, FS_Injection
  <1>7. SetToSeq(S) \in Seq(S)
    BY <1>1, <1>4, SeqDef
  <1>8. ToSet(SetToSeq(S)) = S
    BY <1>4, <1>6 DEF ToSet, Surjection
  <1> QED BY <1>4, <1>7, <1>8 DEF IsInjective

LEMMA ToSetConcat ==
    ASSUME NEW S, NEW s \in Seq(S), NEW u \in Seq(S)
    PROVE  ToSet(s \o u) = ToSet(s) \cup ToSet(u)
  <1>1. \A f : ToSet(f) = Range(f)
    BY DEF ToSet, Range
  <1> QED BY <1>1, RangeConcatenation

LEMMA ToSetTail ==
    ASSUME NEW S, NEW s \in Seq(S), s # <<>>
    PROVE  /\ Head(s) \in ToSet(s) /\ ToSet(s) \subseteq S
           /\ Tail(s) \in Seq(S)
           /\ ToSet(s) = {Head(s)} \cup ToSet(Tail(s))
  <1>1. DOMAIN Tail(s) = 1..Len(s) - 1 /\ \A i \in 1..Len(s) - 1 : Tail(s)[i] = s[i + 1]
    OBVIOUS
  <1>2. Head(s) = s[1] /\ 1 \in DOMAIN s /\ DOMAIN s = 1..Len(s) /\ Len(s) \in Nat
    OBVIOUS
  <1>3. ASSUME NEW i \in DOMAIN s, i # 1 PROVE s[i] \in ToSet(Tail(s))
    <2>1. i - 1 \in DOMAIN Tail(s) /\ Tail(s)[i - 1] = s[i]
      BY <1>1, <1>2, <1>3
    <2> QED BY <2>1 DEF ToSet
  <1>4. ASSUME NEW i \in DOMAIN Tail(s) PROVE Tail(s)[i] \in ToSet(s)
    BY <1>1, <1>2 DEF ToSet
  <1> QED BY <1>2, <1>3, <1>4 DEF ToSet

LEMMA OrderedConcat ==
    ASSUME NEW s \in Seq(Message), NEW u \in Seq(Message), Ordered(s), Ordered(u),
           \A t \in Targets : Detach(t) \in ToSet(s) =>
               Attach(t) \notin ToSet(u) /\ Detach(t) \notin ToSet(u)
    PROVE  Ordered(s \o u)
  <1> SUFFICES ASSUME NEW i \in DOMAIN (s \o u), NEW j \in DOMAIN (s \o u), NEW t \in Targets,
                      (s \o u)[i] = Detach(t), (s \o u)[j] \in {Attach(t), Detach(t)},
                      i < j
               PROVE  FALSE
    BY DEF Ordered
  <1>1. CASE j <= Len(s)
    BY <1>1 DEF Ordered
  <1>2. CASE i <= Len(s) /\ j > Len(s)
    <2>1. s[i] = Detach(t) /\ i \in DOMAIN s
      BY <1>2
    <2>2. u[j - Len(s)] \in {Attach(t), Detach(t)} /\ j - Len(s) \in DOMAIN u
      BY <1>2
    <2> QED BY <2>1, <2>2 DEF ToSet
  <1>3. CASE i > Len(s)
    <2>1. u[i - Len(s)] = Detach(t) /\ i - Len(s) \in DOMAIN u
      BY <1>3
    <2>2. u[j - Len(s)] \in {Attach(t), Detach(t)} /\ j - Len(s) \in DOMAIN u
      BY <1>3
    <2> QED BY <2>1, <2>2 DEF Ordered
  <1> QED BY <1>1, <1>2, <1>3

LEMMA OrderedTail ==
    ASSUME NEW s \in Seq(Message), s # <<>>, Ordered(s)
    PROVE  /\ Ordered(Tail(s))
           /\ \A t \in Targets : Head(s) = Detach(t) =>
                  Attach(t) \notin ToSet(Tail(s)) /\ Detach(t) \notin ToSet(Tail(s))
  <1>1. DOMAIN Tail(s) = 1..Len(s) - 1 /\ \A i \in 1..Len(s) - 1 : Tail(s)[i] = s[i + 1]
    OBVIOUS
  <1>2. Head(s) = s[1] /\ 1 \in DOMAIN s /\ DOMAIN s = 1..Len(s) /\ Len(s) \in Nat
    OBVIOUS
  <1>3. Ordered(Tail(s))
    BY <1>1, <1>2 DEF Ordered
  <1>4. ASSUME NEW t \in Targets, Head(s) = Detach(t), NEW i \in DOMAIN Tail(s)
        PROVE  Tail(s)[i] \notin {Attach(t), Detach(t)}
    <2>1. i + 1 \in DOMAIN s /\ Tail(s)[i] = s[i + 1] /\ i \in Nat /\ i >= 1
      BY <1>1, <1>2
    <2> QED BY <1>2, <1>4, <2>1 DEF Ordered
  <1> QED BY <1>3, <1>4 DEF ToSet
-----------------------------------------------------------------------------
(* What Write adds to the inboxes. *)
LEMMA WriteFacts ==
    ASSUME TypeOK, NEW m, \A d \in Connections : m[d] \in Seq(Message), Write(m)
    PROVE  /\ inbox' \in [Connections -> Seq(Message)]
           /\ \A d \in Connections :
               /\ conn[d] = "open" => /\ inbox'[d] = inbox[d] \o m[d]
                                      /\ ToSet(inbox'[d]) = ToSet(inbox[d]) \cup ToSet(m[d])
               /\ conn[d] # "open" => inbox'[d] = inbox[d]
  <1>1. inbox \in [Connections -> Seq(Message)]
    BY DEF TypeOK
  <1>2. ASSUME NEW d \in Connections
        PROVE  /\ inbox[d] \o m[d] \in Seq(Message)
               /\ ToSet(inbox[d] \o m[d]) = ToSet(inbox[d]) \cup ToSet(m[d])
    BY <1>1, ToSetConcat
  <1> QED BY <1>1, <1>2 DEF Write

LEMMA RepliesAreNotPages ==
    \A r \in Reply, t \in Targets : r # Attach(t) /\ r # Detach(t)
  BY DEF Reply, Attach, Detach

(* The detaches of the sessions e has to the targets T. *)
LEMMA DetachesFacts ==
    ASSUME TypeOK, Sound, NEW e \in Connections, NEW T \in SUBSET Targets
    PROVE  /\ DetachesOf(e, T) \in Seq(Message)
           /\ ToSet(DetachesOf(e, T)) = {Detach(t) : t \in {u \in T : <<e, u>> \in attached}}
           /\ Ordered(DetachesOf(e, T))
           /\ \A r \in Reply : r \notin ToSet(DetachesOf(e, T))
  <1> DEFINE D == {u \in T : <<e, u>> \in attached}
             q == SetToSeq(D)
  <1>1. D \in SUBSET Born
    BY DEF Sound, Born
  <1>2. IsFiniteSet(D)
    BY <1>1, FS_Subset DEF Sound
  <1>3. q \in Seq(D) /\ ToSet(q) = D /\ \A i, j \in DOMAIN q : q[i] = q[j] => i = j
    BY <1>2, SetToSeqFacts
  <1>4. DetachesOf(e, T) = [n \in DOMAIN q |-> Detach(q[n])]
    BY DEF DetachesOf
  <1> HIDE DEF q
  <1>5. DOMAIN q = 1..Len(q) /\ Len(q) \in Nat /\ \A n \in DOMAIN q : q[n] \in D
    BY <1>3
  <1>6. \A t \in Targets : Detach(t) \in Message
    BY DEF Detach, Message
  <1>7. DetachesOf(e, T) \in [1..Len(q) -> Message]
    BY <1>4, <1>5, <1>6
  <1>8. DetachesOf(e, T) \in Seq(Message)
    BY <1>5, <1>7, SeqDef
  <1>9. ToSet(DetachesOf(e, T)) = {Detach(t) : t \in D}
    <2>1. D = {q[n] : n \in DOMAIN q}
      BY <1>3 DEF ToSet
    <2>2. ToSet(DetachesOf(e, T)) = {Detach(q[n]) : n \in DOMAIN q}
      BY <1>4 DEF ToSet
    <2> HIDE DEF D
    <2> QED BY <2>1, <2>2
  <1>10. Ordered(DetachesOf(e, T))
    BY <1>3, <1>4, <1>5 DEF Ordered, Attach, Detach
  <1>11. \A r \in Reply : r \notin ToSet(DetachesOf(e, T))
    <2>1. D \subseteq Targets
      OBVIOUS
    <2> HIDE DEF D
    <2> QED BY <1>9, <2>1, RepliesAreNotPages
  <1> QED BY <1>8, <1>9, <1>10, <1>11

(* The attaches of the targets T, as a connection joins. *)
LEMMA AttachesFacts ==
    ASSUME NEW T \in SUBSET Targets, IsFiniteSet(T)
    PROVE  LET q == SetToSeq(T)  a == [n \in DOMAIN q |-> Attach(q[n])]
           IN  /\ a \in Seq(Message)
               /\ ToSet(a) = {Attach(t) : t \in T}
               /\ Ordered(a)
  <1> DEFINE q == SetToSeq(T)
             a == [n \in DOMAIN q |-> Attach(q[n])]
  <1>1. q \in Seq(T) /\ ToSet(q) = T
    BY SetToSeqFacts
  <1> HIDE DEF q
  <1>2. DOMAIN q = 1..Len(q) /\ Len(q) \in Nat /\ \A n \in DOMAIN q : q[n] \in T
    BY <1>1
  <1>3. \A t \in Targets : Attach(t) \in Message
    BY DEF Attach, Message
  <1>4. a \in [1..Len(q) -> Message]
    BY <1>2, <1>3
  <1>5. a \in Seq(Message)
    BY <1>2, <1>4, SeqDef
  <1>6. ToSet(a) = {Attach(t) : t \in T}
    BY <1>1, <1>2 DEF ToSet
  <1>7. Ordered(a)
    BY <1>2 DEF Ordered, Attach, Detach
  <1> QED BY <1>5, <1>6, <1>7 DEF q

LEMMA OneLetter ==
    ASSUME NEW m \in Message
    PROVE  /\ <<m>> \in Seq(Message) /\ ToSet(<<m>>) = {m}
           /\ Ordered(<<m>>)
           /\ <<>> \in Seq(Message) /\ ToSet(<<>>) = {} /\ Ordered(<<>>)
  BY DEF ToSet, Ordered
-----------------------------------------------------------------------------
(* Mail(d) survives a write u that says what happened to the sessions of d. *)
LEMMA MailOpen ==
    ASSUME TypeOK, NEW d \in Connections, Mail(d), NEW u \in Seq(Message), Ordered(u),
           conn[d] = "open", conn'[d] = "open",
           inbox'[d] = inbox[d] \o u,
           shown'[d] = shown[d], foreign'[d] = foreign[d], toldGone'[d] = toldGone[d],
           Born \subseteq Born',
           \A t \in Targets :
               /\ <<d, t>> \in attached' => <<d, t>> \in attached \/ Attach(t) \in ToSet(u)
               /\ <<d, t>> \in attached => <<d, t>> \in attached' \/ Detach(t) \in ToSet(u)
               /\ Detach(t) \in ToSet(u) => <<d, t>> \in attached /\ t \in Born /\ <<d, t>> \notin attached'
               /\ Attach(t) \in ToSet(u) => <<d, t>> \in attached' /\ t \in Born' \ Born
    PROVE  Mail(d)'
  <1>1. inbox[d] \in Seq(Message)
    BY DEF TypeOK
  <1>2. ToSet(inbox'[d]) = ToSet(inbox[d]) \cup ToSet(u)
    BY <1>1, ToSetConcat
  <1>3. Ordered(inbox'[d])
    BY <1>1, OrderedConcat DEF Mail
  <1>4. (Ordered(inbox[d]))'
    BY <1>3 DEF Ordered, Attach, Detach
  <1>5. ASSUME NEW t \in Targets, Detach(t) \in ToSet(inbox'[d])
        PROVE  /\ <<d, t>> \notin attached' /\ t \in Born'
               /\ Attach(t) \in ToSet(inbox'[d]) \/ t \in shown[d] \cup foreign[d]
    BY <1>2, <1>5 DEF Mail
  <1>6. ASSUME NEW t \in Targets, Attach(t) \in ToSet(inbox'[d])
        PROVE  t \in Born' /\ (<<d, t>> \in attached' \/ Detach(t) \in ToSet(inbox'[d]))
    BY <1>2, <1>6 DEF Mail
  <1>7. ASSUME NEW t \in Targets, <<d, t>> \in attached'
        PROVE  Attach(t) \in ToSet(inbox'[d]) \/ t \in shown[d] \cup foreign[d]
    BY <1>2, <1>7 DEF Mail
  <1>8. foreign[d] \subseteq Targets
    BY DEF TypeOK
  <1>9. \A t \in foreign[d] : <<d, t>> \in attached' \/ Detach(t) \in ToSet(inbox'[d])
    BY <1>2, <1>8 DEF Mail
  <1>10. shown[d] \subseteq Born' /\ toldGone[d] \subseteq shown[d]
    BY DEF Mail
  <1> QED BY <1>4, <1>5, <1>6, <1>7, <1>9, <1>10 DEF Mail, ToSet, Attach, Detach

(* Nothing happened to it. *)
LEMMA MailSame ==
    ASSUME TypeOK, NEW d \in Connections, Mail(d),
           conn'[d] = conn[d], inbox'[d] = inbox[d],
           shown'[d] = shown[d], foreign'[d] = foreign[d], toldGone'[d] = toldGone[d],
           Born' = Born,
           \A t \in Targets : <<d, t>> \in attached' <=> <<d, t>> \in attached
    PROVE  Mail(d)'
  <1>1. foreign[d] \subseteq Targets
    BY DEF TypeOK
  <1>2. (Ordered(inbox[d]))' /\ ToSet(inbox[d])' = ToSet(inbox[d])
    BY DEF Mail, Ordered, ToSet, Attach, Detach
  <1>3. \A t \in Targets : (Attach(t))' = Attach(t) /\ (Detach(t))' = Detach(t)
    BY DEF Attach, Detach
  <1> QED BY <1>1, <1>2, <1>3 DEF Mail

(* A connection that reads nothing. *)
LEMMA MailShut ==
    ASSUME TypeOK, NEW d \in Connections, Mail(d),
           conn'[d] # "open", conn'[d] = "new" => conn[d] = "new",
           inbox'[d] = <<>>,
           shown'[d] = shown[d], foreign'[d] = foreign[d], toldGone'[d] = toldGone[d],
           Born \subseteq Born'
    PROVE  Mail(d)'
  <1>1. ToSet(inbox'[d]) = {} /\ Ordered(inbox'[d])
    BY DEF ToSet, Ordered
  <1> QED BY <1>1 DEF Mail, ToSet, Ordered, Attach, Detach

LEMMA DestroyFacts ==
    ASSUME TypeOK, Sound, NEW T \in SUBSET Targets, \A t \in T : alive[t] = "live", Destroy(T)
    PROVE  /\ Born' = Born
           /\ \A d \in Connections, t \in Targets :
                  <<d, t>> \in attached' <=> <<d, t>> \in attached /\ t \notin T
           /\ \A t \in Targets : alive'[t] = IF t \in T THEN "gone" ELSE alive[t]
  <1>1. \A t \in Targets : alive'[t] = IF t \in T THEN "gone" ELSE alive[t]
    BY DEF Destroy
  <1>2. Born' = Born
    BY <1>1 DEF Born
  <1>3. \A d \in Connections, t \in Targets :
            <<d, t>> \in attached' <=> <<d, t>> \in attached /\ t \notin T
    BY DEF Destroy, Without
  <1> QED BY <1>1, <1>2, <1>3

(* Targets go, and everyone attached to them is told. *)
LEMMA SoundDestroy ==
    ASSUME TypeOK, Sound, NEW T \in SUBSET Targets, \A t \in T : alive[t] = "live", Destroy(T),
           NEW m, \A e \in Connections :
               /\ m[e] \in Seq(Message) /\ Ordered(m[e])
               /\ \A t \in Targets : /\ Attach(t) \notin ToSet(m[e])
                                     /\ Detach(t) \in ToSet(m[e]) <=> t \in T /\ <<e, t>> \in attached,
           Write(m), UNCHANGED <<conn, shown, foreign, toldGone>>
    PROVE  Sound'
  <1>1. IsFiniteSet(Born')
    BY DestroyFacts DEF Sound
  <1>2. ASSUME NEW d \in Connections, NEW t \in Targets, <<d, t>> \in attached'
        PROVE  alive'[t] = "live" /\ conn'[d] \in {"open", "ending"}
    BY <1>2, DestroyFacts DEF Sound
  <1>3. ASSUME NEW d \in Connections
        PROVE  Mail(d)'
    <2>1. Mail(d) /\ m[d] \in Seq(Message) /\ Ordered(m[d])
      BY DEF Sound
    <2>2. Born \subseteq Born'
      BY DestroyFacts
    <2>3. CASE conn[d] = "open"
      <3>1. inbox'[d] = inbox[d] \o m[d]
        BY <2>3, WriteFacts
      <3>2. \A t \in Targets :
               /\ <<d, t>> \in attached' => <<d, t>> \in attached
               /\ <<d, t>> \in attached => <<d, t>> \in attached' \/ Detach(t) \in ToSet(m[d])
               /\ Detach(t) \in ToSet(m[d]) => <<d, t>> \in attached /\ t \in Born /\ <<d, t>> \notin attached'
               /\ Attach(t) \notin ToSet(m[d])
        BY DestroyFacts DEF Born
      <3> QED BY <2>1, <2>2, <2>3, <3>1, <3>2, MailOpen
    <2>4. CASE conn[d] # "open"
      <3>1. inbox'[d] = <<>>
        BY <2>1, <2>4, WriteFacts DEF Mail
      <3> QED BY <2>1, <2>2, <2>4, <3>1, MailShut
    <2> QED BY <2>3, <2>4
  <1> QED BY <1>1, <1>2, <1>3 DEF Sound, Born

(* A write of something else about no target. *)
LEMMA SoundWrite ==
    ASSUME TypeOK, Sound,
           NEW m, \A e \in Connections :
               /\ m[e] \in Seq(Message) /\ Ordered(m[e])
               /\ \A t \in Targets : Attach(t) \notin ToSet(m[e]) /\ Detach(t) \notin ToSet(m[e]),
           Write(m), UNCHANGED <<conn, shown, foreign, toldGone, alive, attached>>
    PROVE  Sound'
  <1>1. Born' = Born
    BY DEF Born
  <1>2. ASSUME NEW d \in Connections
        PROVE  Mail(d)'
    <2>1. Mail(d) /\ m[d] \in Seq(Message) /\ Ordered(m[d])
      BY DEF Sound
    <2>2. CASE conn[d] = "open"
      <3>1. inbox'[d] = inbox[d] \o m[d]
        BY <2>2, WriteFacts
      <3> QED BY <1>1, <2>1, <2>2, <3>1, MailOpen
    <2>3. CASE conn[d] # "open"
      <3>1. inbox'[d] = <<>>
        BY <2>1, <2>3, WriteFacts DEF Mail
      <3> QED BY <1>1, <2>1, <2>3, <3>1, MailShut
    <2> QED BY <2>2, <2>3
  <1> QED BY <1>1, <1>2 DEF Sound, Born

LEMMA ReplyLetters ==
    ASSUME NEW m \in Reply
    PROVE  /\ m \in Message /\ \A t \in Targets : m # Attach(t) /\ m # Detach(t)
           /\ m.of \in Contexts
           /\ m = Created(m.of) \/ m = Disposed(m.of)
  BY DEF Reply, Message, Attach, Detach, Created, Disposed

LEMMA LettersAreReplies ==
    ASSUME NEW x \in Contexts
    PROVE  /\ Created(x) \in Reply /\ Disposed(x) \in Reply
           /\ Created(x) \in Message /\ Disposed(x) \in Message
           /\ Created(x) # Disposed(x)
           /\ \A t \in Targets : Created(x) # Detach(t) /\ Created(x) # Attach(t)
           /\ \A t \in Targets : Disposed(x) # Detach(t) /\ Disposed(x) # Attach(t)
  BY DEF Reply, Message, Created, Disposed, Attach, Detach

(* A write of one letter to one connection. *)
LEMMA OneWrite ==
    ASSUME NEW d \in Connections, NEW x \in Message,
           NEW m, m = [e \in Connections |-> IF e = d THEN <<x>> ELSE <<>>]
    PROVE  \A e \in Connections : /\ m[e] \in Seq(Message) /\ Ordered(m[e])
                                  /\ ToSet(m[e]) = IF e = d THEN {x} ELSE {}
  BY OneLetter

(* A write of the detaches of T, and of one reply to one connection.       *)
Only(e, d, m) == IF e = d THEN <<m>> ELSE <<>>

LEMMA DisposeWrite ==
    ASSUME TypeOK, Sound, NEW d \in Connections, NEW x \in Contexts, NEW T \in SUBSET Targets,
           NEW e \in Connections, NEW m,
           m = DetachesOf(e, T) \o Only(e, d, Disposed(x))
    PROVE  /\ m \in Seq(Message) /\ Ordered(m)
           /\ \A t \in Targets : /\ Attach(t) \notin ToSet(m)
                                 /\ Detach(t) \in ToSet(m) => t \in T /\ <<e, t>> \in attached
                                 /\ t \in T /\ <<e, t>> \in attached => Detach(t) \in ToSet(m)
  <1> DEFINE f == DetachesOf(e, T)
             g == Only(e, d, Disposed(x))
             F == {Detach(t) : t \in {u \in T : <<e, u>> \in attached}}
             G == IF e = d THEN {Disposed(x)} ELSE {}
  <1>1. m = f \o g
    OBVIOUS
  <1>2. g \in Seq(Message) /\ Ordered(g) /\ ToSet(g) = G
    BY LettersAreReplies, OneLetter DEF Only
  <1>3. f \in Seq(Message) /\ Ordered(f) /\ ToSet(f) = F
    BY DetachesFacts
  <1>4. \A t \in Targets : Attach(t) \notin G /\ Detach(t) \notin G
    BY LettersAreReplies
  <1> HIDE DEF f, g, F, G
  <1>5. f \o g \in Seq(Message) /\ ToSet(f \o g) = F \cup G
    BY <1>2, <1>3, ToSetConcat
  <1>6. Ordered(f \o g)
    BY <1>2, <1>3, <1>4, OrderedConcat
  <1>7. m \in Seq(Message) /\ Ordered(m) /\ ToSet(m) = F \cup G
    BY <1>1, <1>5, <1>6
  <1>8. \A t \in Targets : /\ Attach(t) \notin F \cup G
                           /\ Detach(t) \in F \cup G <=> t \in T /\ <<e, t>> \in attached
    BY <1>4 DEF F, Attach, Detach
  <1> QED BY <1>7, <1>8

(* The detaches of T alone. *)
LEMMA DestroyWrite ==
    ASSUME TypeOK, Sound, NEW T \in SUBSET Targets,
           NEW m, m = [e \in Connections |-> DetachesOf(e, T)]
    PROVE  \A e \in Connections :
                /\ m[e] \in Seq(Message) /\ Ordered(m[e])
                /\ ToSet(m[e]) = {Detach(t) : t \in {u \in T : <<e, u>> \in attached}}
                /\ \A t \in Targets : /\ Attach(t) \notin ToSet(m[e])
                                      /\ Detach(t) \in ToSet(m[e]) <=> t \in T /\ <<e, t>> \in attached
  <1> SUFFICES ASSUME NEW e \in Connections
               PROVE  /\ m[e] \in Seq(Message) /\ Ordered(m[e])
                      /\ ToSet(m[e]) = {Detach(t) : t \in {u \in T : <<e, u>> \in attached}}
                      /\ \A t \in Targets :
                            /\ Attach(t) \notin ToSet(m[e])
                            /\ Detach(t) \in ToSet(m[e]) <=> t \in T /\ <<e, t>> \in attached
    OBVIOUS
  <1>1. /\ m[e] \in Seq(Message) /\ Ordered(m[e])
        /\ ToSet(m[e]) = {Detach(t) : t \in {u \in T : <<e, u>> \in attached}}
    BY DetachesFacts
  <1>2. \A t \in Targets : /\ Attach(t) \notin ToSet(m[e])
                           /\ Detach(t) \in ToSet(m[e]) <=> t \in T /\ <<e, t>> \in attached
    BY <1>1 DEF Attach, Detach
  <1> QED BY <1>1, <1>2

-----------------------------------------------------------------------------
LEMMA SoundStep == IInv /\ [Next]_vars => Sound'
  <1> SUFFICES ASSUME TypeOK, Sound, [Next]_vars
               PROVE  Sound'
    BY DEF IInv
  <1>1. ASSUME NEW d \in Connections, NEW x \in Contexts, ClientCreates(d, x)
        PROVE  Sound'
    <2> DEFINE m == [e \in Connections |-> IF e = d THEN <<Created(x)>> ELSE <<>>]
    <2>0. /\ m = [e \in Connections |-> IF e = d THEN <<Created(x)>> ELSE <<>>]
          /\ Created(x) \in Message
      BY LettersAreReplies
    <2>2. Write(m) /\ UNCHANGED <<conn, shown, foreign, toldGone, alive, attached>>
      BY <1>1 DEF ClientCreates
    <2> HIDE DEF m
    <2>3. \A e \in Connections : /\ m[e] \in Seq(Message) /\ Ordered(m[e])
                                 /\ ToSet(m[e]) = IF e = d THEN {Created(x)} ELSE {}
      BY <2>0, OneWrite
    <2>4. \A e \in Connections :
            /\ m[e] \in Seq(Message) /\ Ordered(m[e])
            /\ \A t \in Targets : Attach(t) \notin ToSet(m[e]) /\ Detach(t) \notin ToSet(m[e])
      BY <2>3, LettersAreReplies
    <2> QED BY <2>2, <2>4, SoundWrite
  <1>2. ASSUME NEW d \in Connections, NEW x \in Contexts, ClientDisposes(d, x)
        PROVE  Sound'
    <2> DEFINE T == LiveIn({x})
               m == [e \in Connections |-> DetachesOf(e, T) \o
                                              (IF e = d THEN <<Disposed(x)>> ELSE <<>>)]
    <2>1. T \in SUBSET Targets /\ \A t \in T : alive[t] = "live"
      BY DEF LiveIn
    <2>2. Destroy(T) /\ Write(m) /\ UNCHANGED <<conn, shown, foreign, toldGone>>
      BY <1>2 DEF ClientDisposes
    <2>0. \A e \in Connections :
              m[e] = DetachesOf(e, T) \o Only(e, d, Disposed(x))
      BY DEF Only
    <2> HIDE DEF T, m
    <2>3. ASSUME NEW e \in Connections
          PROVE  /\ m[e] \in Seq(Message) /\ Ordered(m[e])
                 /\ \A t \in Targets : /\ Attach(t) \notin ToSet(m[e])
                                       /\ Detach(t) \in ToSet(m[e]) <=> t \in T /\ <<e, t>> \in attached
      <3>1. m[e] = DetachesOf(e, T) \o Only(e, d, Disposed(x))
        BY <2>0
      <3>2. \A u : u = DetachesOf(e, T) \o Only(e, d, Disposed(x)) =>
                /\ u \in Seq(Message) /\ Ordered(u)
                /\ \A t \in Targets : /\ Attach(t) \notin ToSet(u)
                                      /\ Detach(t) \in ToSet(u) => t \in T /\ <<e, t>> \in attached
                                      /\ t \in T /\ <<e, t>> \in attached => Detach(t) \in ToSet(u)
        BY <2>1, DisposeWrite
      <3> QED BY <3>1, <3>2
    <2> QED BY <2>1, <2>2, <2>3, SoundDestroy
  <1>3. ASSUME NEW T \in SUBSET Targets, \A t \in T : alive[t] = "live", Destroy(T),
               Write([e \in Connections |-> DetachesOf(e, T)]),
               UNCHANGED <<conn, shown, foreign, toldGone>>
        PROVE  Sound'
    <2> DEFINE m == [e \in Connections |-> DetachesOf(e, T)]
    <2>1. \A e \in Connections :
            /\ m[e] \in Seq(Message) /\ Ordered(m[e])
            /\ \A t \in Targets : /\ Attach(t) \notin ToSet(m[e])
                                  /\ Detach(t) \in ToSet(m[e]) <=> t \in T /\ <<e, t>> \in attached
      BY DestroyWrite
    <2>2. Write(m)
      BY <1>3
    <2> HIDE DEF m
    <2> QED BY <1>3, <2>1, <2>2, SoundDestroy
  <1>4. ASSUME NEW d \in Connections, NEW x \in Contexts, PluginDisposes(d, x)
        PROVE  Sound'
    <2>1. LiveIn({x}) \in SUBSET Targets /\ \A t \in LiveIn({x}) : alive[t] = "live"
      BY DEF LiveIn
    <2> QED BY <1>3, <1>4, <2>1 DEF PluginDisposes
  <1>5. ASSUME NEW t \in Targets, Closes(t)
        PROVE  Sound'
    <2>1. {t} \in SUBSET Targets /\ \A u \in {t} : alive[u] = "live"
      BY <1>5 DEF Closes
    <2> QED BY <1>3, <1>5, <2>1 DEF Closes
  <1>6. CASE UNCHANGED <<conn, inbox, shown, foreign, toldGone, alive, attached>>
    BY <1>6 DEF Sound, Born, Mail, Ordered, Attach, Detach
  <1>7. ASSUME NEW d \in Connections,
               \/ \E x \in Contexts : PluginCreates(d, x)
               \/ \E m \in Reply : PluginReply(d, m)
               \/ \E t \in Targets : Resumes(d, t)
        PROVE  Sound'
    BY <1>6, <1>7 DEF PluginCreates, PluginReply, Resumes, proxy, browser
  <1>8. ASSUME NEW d \in Connections, NEW t \in Targets, Leaves(d, t)
        PROVE  Sound'
    <2> DEFINE m == [e \in Connections |-> IF e = d THEN <<Detach(t)>> ELSE <<>>]
    <2>1. Detach(t) \in Message
      BY DEF Detach, Message
    <2>2. \A e \in Connections : /\ m[e] \in Seq(Message) /\ Ordered(m[e])
                                 /\ ToSet(m[e]) = IF e = d THEN {Detach(t)} ELSE {}
      BY <2>1, OneWrite
    <2>3. Write(m) /\ UNCHANGED <<conn, shown, foreign, toldGone, alive>>
      BY <1>8 DEF Leaves
    <2> HIDE DEF m
    <2>4. <<d, t>> \in attached /\ attached' = attached \ {<<d, t>>}
      BY <1>8 DEF Leaves, TypeOK
    <2>5. Born' = Born
      BY <2>3 DEF Born
    <2>6. ASSUME NEW e \in Connections PROVE Mail(e)'
      <3>1. Mail(e) /\ m[e] \in Seq(Message) /\ Ordered(m[e])
        BY <2>2 DEF Sound
      <3>2. CASE conn[e] = "open"
        <4>1. inbox'[e] = inbox[e] \o m[e]
          BY <2>2, <2>3, <3>2, WriteFacts
        <4>2. t \in Born
          BY <2>4 DEF Sound, Born
        <4>3. \A r \in Targets :
               /\ <<e, r>> \in attached' => <<e, r>> \in attached
               /\ <<e, r>> \in attached => <<e, r>> \in attached' \/ Detach(r) \in ToSet(m[e])
               /\ Detach(r) \in ToSet(m[e]) => <<e, r>> \in attached /\ r \in Born /\ <<e, r>> \notin attached'
               /\ Attach(r) \notin ToSet(m[e])
          BY <2>2, <2>4, <4>2 DEF Attach, Detach
        <4> QED BY <2>3, <2>5, <3>1, <3>2, <4>1, <4>3, MailOpen
      <3>3. CASE conn[e] # "open"
        <4>1. inbox'[e] = <<>>
          BY <2>2, <2>3, <3>1, <3>3, WriteFacts DEF Mail
        <4> QED BY <2>3, <2>5, <3>1, <3>3, <4>1, MailShut
      <3> QED BY <3>2, <3>3
    <2> QED BY <2>3, <2>4, <2>5, <2>6 DEF Sound, Born
  <1>9. ASSUME NEW d \in Connections, NEW x \in Contexts \cup {Default}, NEW t \in Targets,
               Opens(d, x, t)
        PROVE  Sound'
    <2> DEFINE m == [e \in Connections |-> <<Attach(t)>>]
    <2>1. Attach(t) \in Message
      BY DEF Attach, Message
    <2>2. \A e \in Connections : /\ m[e] \in Seq(Message) /\ Ordered(m[e])
                                 /\ ToSet(m[e]) = {Attach(t)}
      BY <2>1, OneLetter
    <2>3. Write(m) /\ UNCHANGED <<conn, shown, foreign, toldGone>>
      BY <1>9 DEF Opens
    <2> HIDE DEF m
    <2>4. attached' = attached \cup ({e \in Connections : conn[e] \in {"open", "ending"}} \X {t})
      BY <1>9 DEF Opens
    <2>5. t \notin Born /\ Born' = Born \cup {t}
      BY <1>9 DEF Opens, Born, TypeOK
    <2>6. ASSUME NEW e \in Connections PROVE Mail(e)'
      <3>1. Mail(e) /\ m[e] \in Seq(Message) /\ Ordered(m[e])
        BY <2>2 DEF Sound
      <3>2. CASE conn[e] = "open"
        <4>1. inbox'[e] = inbox[e] \o m[e]
          BY <2>2, <2>3, <3>2, WriteFacts
        <4>2. \A r \in Targets :
               /\ <<e, r>> \in attached' => <<e, r>> \in attached \/ Attach(r) \in ToSet(m[e])
               /\ <<e, r>> \in attached => <<e, r>> \in attached'
               /\ Detach(r) \notin ToSet(m[e])
               /\ Attach(r) \in ToSet(m[e]) => <<e, r>> \in attached' /\ r \in Born' \ Born
          BY <2>2, <2>4, <2>5, <3>2 DEF Attach, Detach
        <4> QED BY <2>3, <2>5, <3>1, <3>2, <4>1, <4>2, MailOpen
      <3>3. CASE conn[e] # "open"
        <4>1. inbox'[e] = <<>>
          BY <2>2, <2>3, <3>1, <3>3, WriteFacts DEF Mail
        <4> QED BY <2>3, <2>5, <3>1, <3>3, <4>1, MailShut
      <3> QED BY <3>2, <3>3
    <2>7. IsFiniteSet(Born')
      BY <2>5, FS_AddElement DEF Sound
    <2>8. ASSUME NEW e \in Connections, NEW r \in Targets, <<e, r>> \in attached'
          PROVE  alive'[r] = "live" /\ conn'[e] \in {"open", "ending"}
      <3>1. alive' = [alive EXCEPT ![t] = "live"] /\ alive[t] = "none"
        BY <1>9 DEF Opens
      <3> QED BY <2>3, <2>4, <2>8, <3>1 DEF Sound, TypeOK
    <2> QED BY <2>6, <2>7, <2>8 DEF Sound, Born
  <1>10. ASSUME NEW d \in Connections, Join(d)
         PROVE  Sound'
    <2> DEFINE T == LiveIn(Contexts \cup {Default})
               q == SetToSeq(T)
               a == [n \in DOMAIN q |-> Attach(q[n])]
    <2>1. T \in SUBSET Born /\ T \subseteq Targets /\ \A t \in T : alive[t] = "live"
      BY DEF LiveIn, Born
    <2>2. IsFiniteSet(T)
      BY <2>1, FS_Subset DEF Sound
    <2>3. a \in Seq(Message) /\ ToSet(a) = {Attach(t) : t \in T} /\ Ordered(a)
      BY <2>1, <2>2, AttachesFacts
    <2>4. /\ inbox' = [inbox EXCEPT ![d] = a] /\ attached' = attached \cup ({d} \X T)
          /\ conn[d] = "new" /\ conn' = [conn EXCEPT ![d] = "open"]
          /\ UNCHANGED <<shown, foreign, toldGone, alive>>
      BY <1>10 DEF Join
    <2> HIDE DEF a, q, T
    <2>5. Born' = Born
      BY <2>4 DEF Born
    <2>6. \A t \in Targets : <<d, t>> \notin attached
      BY <2>4 DEF Sound
    <2>7. conn'[d] = "open" /\ inbox'[d] = a /\ foreign'[d] = {}
      BY <2>4 DEF Sound, Mail, TypeOK
    <2>8. Mail(d)'
      <3>1. (Ordered(inbox[d]))' /\ ToSet(inbox[d])' = {Attach(t) : t \in T}
        BY <2>3, <2>7 DEF Ordered, Attach, Detach, ToSet
      <3>2. \A t \in Targets : Detach(t) \notin ToSet(inbox'[d])
                               /\ (Attach(t) \in ToSet(inbox'[d]) <=> t \in T)
        BY <2>3, <2>7 DEF Attach, Detach
      <3>3. \A t \in Targets : <<d, t>> \in attached' <=> t \in T
        BY <2>4, <2>6
      <3>4. shown'[d] \subseteq Born' /\ toldGone'[d] \subseteq shown'[d]
        BY <2>4, <2>5 DEF Sound, Mail
      <3> QED BY <2>1, <2>5, <2>7, <3>1, <3>2, <3>3, <3>4 DEF Mail, ToSet, Attach, Detach
    <2>9. ASSUME NEW e \in Connections, e # d PROVE Mail(e)'
      <3>1. /\ conn'[e] = conn[e] /\ inbox'[e] = inbox[e]
            /\ \A t \in Targets : <<e, t>> \in attached' <=> <<e, t>> \in attached
        BY <2>4, <2>9 DEF TypeOK
      <3> QED BY <2>4, <2>5, <3>1, MailSame DEF Sound
    <2>10. ASSUME NEW e \in Connections, NEW r \in Targets, <<e, r>> \in attached'
           PROVE  alive'[r] = "live" /\ conn'[e] \in {"open", "ending"}
      BY <2>1, <2>4, <2>10 DEF Sound, TypeOK
    <2> QED BY <2>5, <2>8, <2>9, <2>10 DEF Sound, Born
  <1>11. ASSUME NEW d \in Connections, Reap(d)
         PROVE  Sound'
    <2>1. /\ conn[d] = "open" /\ conn' = [conn EXCEPT ![d] = "ending"]
          /\ inbox' = [inbox EXCEPT ![d] = <<>>]
          /\ UNCHANGED <<shown, foreign, toldGone, alive, attached>>
      BY <1>11 DEF Reap, browser
    <2>2. Born' = Born
      BY <2>1 DEF Born
    <2>3. Mail(d)'
      BY <2>1, <2>2, MailShut DEF Sound, TypeOK
    <2>4. ASSUME NEW e \in Connections, e # d PROVE Mail(e)'
      <3>1. conn'[e] = conn[e] /\ inbox'[e] = inbox[e]
        BY <2>1, <2>4 DEF TypeOK
      <3> QED BY <2>1, <2>2, <3>1, MailSame DEF Sound
    <2>5. ASSUME NEW e \in Connections, NEW r \in Targets, <<e, r>> \in attached'
          PROVE  alive'[r] = "live" /\ conn'[e] \in {"open", "ending"}
      BY <2>1, <2>5 DEF Sound, TypeOK
    <2> QED BY <2>2, <2>3, <2>4, <2>5 DEF Sound, Born
  <1>12. ASSUME NEW d \in Connections, ReapFinish(d)
         PROVE  Sound'
    <2> DEFINE X == {x \in Contexts : creator[x] = d /\ ctx[x] = "live"}
               T == LiveIn(X)
               m == [e \in Connections |-> DetachesOf(e, T)]
    <2>1. T \in SUBSET Targets /\ \A t \in T : alive[t] = "live"
      BY DEF LiveIn
    <2>2. /\ conn[d] = "ending" /\ conn' = [conn EXCEPT ![d] = "closed"]
          /\ alive' = [t \in Targets |-> IF t \in T THEN "gone" ELSE alive[t]]
          /\ attached' = {a \in Without(T) : a[1] # d}
          /\ Write(m) /\ UNCHANGED <<shown, foreign, toldGone>>
      BY <1>12 DEF ReapFinish
    <2> HIDE DEF X, T
    <2>3. \A e \in Connections :
            /\ m[e] \in Seq(Message) /\ Ordered(m[e])
            /\ \A t \in Targets : /\ Attach(t) \notin ToSet(m[e])
                                  /\ Detach(t) \in ToSet(m[e]) <=> t \in T /\ <<e, t>> \in attached
      BY <2>1, DestroyWrite
    <2> HIDE DEF m
    <2>4. Born' = Born
      BY <2>1, <2>2 DEF Born
    <2>5. \A e \in Connections, t \in Targets :
              <<e, t>> \in attached' <=> <<e, t>> \in attached /\ t \notin T /\ e # d
      BY <2>2 DEF Without
    <2>6. ASSUME NEW e \in Connections PROVE Mail(e)'
      <3>1. Mail(e) /\ m[e] \in Seq(Message) /\ Ordered(m[e])
        BY <2>3 DEF Sound
      <3>2. conn'[e] = IF e = d THEN "closed" ELSE conn[e]
        BY <2>2 DEF TypeOK
      <3>3. CASE conn[e] = "open"
        <4>1. inbox'[e] = inbox[e] \o m[e] /\ e # d
          BY <2>2, <2>3, <3>3, WriteFacts
        <4>2. \A r \in Targets :
               /\ <<e, r>> \in attached' => <<e, r>> \in attached
               /\ <<e, r>> \in attached => <<e, r>> \in attached' \/ Detach(r) \in ToSet(m[e])
               /\ Detach(r) \in ToSet(m[e]) => <<e, r>> \in attached /\ r \in Born /\ <<e, r>> \notin attached'
               /\ Attach(r) \notin ToSet(m[e])
          BY <2>1, <2>3, <2>5, <4>1 DEF Born
        <4> QED BY <2>2, <2>4, <3>1, <3>2, <3>3, <4>1, <4>2, MailOpen
      <3>4. CASE conn[e] # "open"
        <4>1. inbox'[e] = <<>>
          BY <2>2, <2>3, <3>1, <3>4, WriteFacts DEF Mail
        <4> QED BY <2>2, <2>4, <3>1, <3>2, <3>4, <4>1, MailShut
      <3> QED BY <3>3, <3>4
    <2>7. ASSUME NEW e \in Connections, NEW r \in Targets, <<e, r>> \in attached'
          PROVE  alive'[r] = "live" /\ conn'[e] \in {"open", "ending"}
      BY <2>2, <2>5, <2>7 DEF Sound, TypeOK
    <2> QED BY <2>4, <2>6, <2>7 DEF Sound, Born
  <1>13. ASSUME NEW d \in Connections, Handle(d)
         PROVE  Sound'
    <2> DEFINE q == inbox[d]
               m == Head(q)
    <2>1. /\ q # <<>> /\ inbox' = [inbox EXCEPT ![d] = Tail(q)]
          /\ UNCHANGED <<conn, alive, attached>> /\ conn[d] = "open"
      BY <1>13 DEF Handle
    <2>2. /\ m \in ToSet(q) /\ ToSet(q) \subseteq Message
          /\ Tail(q) \in Seq(Message) /\ ToSet(q) = {m} \cup ToSet(Tail(q))
      BY <2>1, ToSetTail DEF TypeOK
    <2>3. /\ Ordered(Tail(q))
          /\ \A t \in Targets : m = Detach(t) =>
                 Attach(t) \notin ToSet(Tail(q)) /\ Detach(t) \notin ToSet(Tail(q))
      BY <2>1, OrderedTail DEF TypeOK, Sound, Mail
    <2>4. inbox'[d] = Tail(q) /\ \A e \in Connections \ {d} : inbox'[e] = inbox[e]
      BY <2>1 DEF TypeOK
    <2>5. Born' = Born
      BY <2>1 DEF Born
    <2>6. Mail(d) /\ shown[d] \subseteq Targets /\ foreign[d] \subseteq Targets
      BY DEF Sound, TypeOK
    <2> HIDE DEF q, m
    <2>7. (Ordered(inbox[d]))' /\ ToSet(inbox[d])' = ToSet(Tail(q))
      BY <2>3, <2>4 DEF Ordered, Attach, Detach, ToSet
    <2>8. q = inbox[d] /\ conn'[d] = "open"
      BY <2>1 DEF q
    <2>9. \A t \in Targets :
            /\ Detach(t) \in {m} \cup ToSet(Tail(q)) =>
                   /\ <<d, t>> \notin attached /\ t \in Born
                   /\ Attach(t) \in {m} \cup ToSet(Tail(q)) \/ t \in shown[d] \cup foreign[d]
            /\ Attach(t) \in {m} \cup ToSet(Tail(q)) =>
                   t \in Born /\ (<<d, t>> \in attached \/ Detach(t) \in {m} \cup ToSet(Tail(q)))
            /\ <<d, t>> \in attached =>
                   Attach(t) \in {m} \cup ToSet(Tail(q)) \/ t \in shown[d] \cup foreign[d]
            /\ t \in foreign[d] => <<d, t>> \in attached \/ Detach(t) \in {m} \cup ToSet(Tail(q))
      BY <2>1, <2>2, <2>6, <2>8 DEF Mail
    <2>10. ASSUME NEW sh, sh = shown'[d], NEW fo, fo = foreign'[d], fo \subseteq Targets,
                  \A t \in Targets :
                    /\ Detach(t) \in ToSet(Tail(q)) =>
                           /\ <<d, t>> \notin attached /\ t \in Born
                           /\ Attach(t) \in ToSet(Tail(q)) \/ t \in sh \cup fo
                    /\ Attach(t) \in ToSet(Tail(q)) =>
                           t \in Born /\ (<<d, t>> \in attached \/ Detach(t) \in ToSet(Tail(q)))
                    /\ <<d, t>> \in attached =>
                           Attach(t) \in ToSet(Tail(q)) \/ t \in sh \cup fo
                    /\ t \in fo => <<d, t>> \in attached \/ Detach(t) \in ToSet(Tail(q)),
                  sh \subseteq Born, toldGone'[d] \subseteq sh
           PROVE  Mail(d)'
      <3>1. ToSet(inbox'[d]) = ToSet(Tail(q))
        BY <2>4
      <3> QED BY <2>1, <2>5, <2>7, <2>8, <2>10, <3>1 DEF Mail, Attach, Detach, ToSet
    <2>11. ASSUME Mail(d)',
                  \A e \in Connections \ {d} : /\ shown'[e] = shown[e] /\ foreign'[e] = foreign[e]
                                               /\ toldGone'[e] = toldGone[e]
           PROVE  Sound'
      <3>1. ASSUME NEW e \in Connections, e # d PROVE Mail(e)'
        BY <2>1, <2>4, <2>5, <2>11, <3>1, MailSame DEF Sound
      <3> QED BY <2>1, <2>5, <2>11, <3>1 DEF Sound
    <2>12. shown[d] \subseteq Born /\ toldGone[d] \subseteq shown[d]
      BY <2>6 DEF Mail
    <2>13. CASE ClientReply(d, m)
      <3>1. m \in Reply /\ UNCHANGED <<foreign, shown, toldGone>>
        BY <2>13 DEF ClientReply
      <3>2. \A t \in Targets : m # Attach(t) /\ m # Detach(t)
        BY <3>1, ReplyLetters
      <3>3. Mail(d)'
        BY <2>6, <2>9, <2>10, <2>12, <3>1, <3>2
      <3> QED BY <2>11, <3>1, <3>3
    <2>14. ASSUME NEW t \in Targets, m = Attach(t), Show(d, t) \/ Hide(d, t)
           PROVE  Sound'
      <3>1. /\ toldGone'[d] = toldGone[d]
            /\ shown[d] \subseteq shown'[d] /\ shown'[d] \subseteq shown[d] \cup {t}
            /\ foreign[d] \subseteq foreign'[d] /\ foreign'[d] \subseteq foreign[d] \cup {t}
            /\ t \in shown'[d] \cup foreign'[d]
            /\ \A e \in Connections \ {d} : /\ shown'[e] = shown[e] /\ foreign'[e] = foreign[e]
                                            /\ toldGone'[e] = toldGone[e]
        BY <2>14 DEF Show, Hide, TypeOK
      <3>2. \A r \in Targets : /\ m # Detach(r)
                               /\ m = Attach(r) => r = t
        BY <2>14 DEF Attach, Detach
      <3>3. t \in Born /\ (<<d, t>> \in attached \/ Detach(t) \in ToSet(Tail(q)))
        BY <2>9, <2>14, <3>2
      <3>4. Mail(d)'
        BY <2>6, <2>9, <2>10, <2>12, <3>1, <3>2, <3>3
      <3> QED BY <2>11, <3>1, <3>4
    <2>15. ASSUME NEW t \in Targets, m = Detach(t), Gone(d, t)
           PROVE  Sound'
      <3>1. /\ shown'[d] = shown[d] /\ foreign'[d] = foreign[d] \ {t}
            /\ toldGone'[d] = IF t \in foreign[d] THEN toldGone[d] ELSE toldGone[d] \cup {t}
            /\ \A e \in Connections \ {d} : /\ shown'[e] = shown[e] /\ foreign'[e] = foreign[e]
                                            /\ toldGone'[e] = toldGone[e]
        BY <2>15 DEF Gone, TypeOK
      <3>2. \A r \in Targets : /\ m # Attach(r)
                               /\ m = Detach(r) => r = t
        BY <2>15 DEF Attach, Detach
      <3>3. /\ Attach(t) \notin ToSet(Tail(q)) /\ Detach(t) \notin ToSet(Tail(q))
            /\ <<d, t>> \notin attached /\ t \in shown[d] \cup foreign[d]
        BY <2>3, <2>9, <2>15, <3>2
      <3>4. Mail(d)'
        <4>1. toldGone'[d] \subseteq shown[d]
          BY <2>12, <3>1, <3>3
        <4> QED BY <2>6, <2>9, <2>10, <2>12, <3>1, <3>2, <3>3, <4>1
      <3> QED BY <2>11, <3>1, <3>4
    <2>16. \/ ClientReply(d, m)
           \/ m.kind = "attach" /\ (Show(d, m.of) \/ Hide(d, m.of))
           \/ m.kind = "detach" /\ Gone(d, m.of)
      BY <1>13 DEF Handle, m, q
    <2>17. m \in Message
      BY <2>2
    <2>18. CASE m.kind = "attach" /\ (Show(d, m.of) \/ Hide(d, m.of))
      <3>1. m.of \in Targets /\ m = Attach(m.of)
        BY <2>17, <2>18 DEF Message, Reply, Attach
      <3> QED BY <2>14, <2>18, <3>1
    <2>19. CASE m.kind = "detach" /\ Gone(d, m.of)
      <3>1. m.of \in Targets /\ m = Detach(m.of)
        BY <2>17, <2>19 DEF Message, Reply, Detach
      <3> QED BY <2>15, <2>19, <3>1
    <2> QED BY <2>13, <2>16, <2>18, <2>19
  <1>14. CASE UNCHANGED vars
    BY <1>6, <1>14 DEF vars, proxy, browser
  <1> QED BY <1>1, <1>2, <1>4, <1>5, <1>7, <1>8, <1>9, <1>10, <1>11, <1>12, <1>13, <1>14
             DEF Next, Ask, Answer, Page, Session
-----------------------------------------------------------------------------
LEMMA PrimedQueue ==
    ASSUME NEW d \in Connections
    PROVE  /\ Queued(d)' = replies'[d] \cup ToSet(inbox'[d])
           /\ \A x : (Created(x))' = Created(x) /\ (Disposed(x))' = Disposed(x)
  BY DEF Queued, ToSet, Created, Disposed

(* A step that writes no reply, or reads none; and one that writes r to d.  *)
InboxKept ==
    /\ inbox' \in [Connections -> Seq(Message)]
    /\ \A e \in Connections, r \in Reply : /\ r \in ToSet(inbox'[e]) => r \in ToSet(inbox[e])
                                           /\ r \in ToSet(inbox[e]) => r \in ToSet(inbox'[e])

InboxGains(d, r) ==
    /\ inbox' \in [Connections -> Seq(Message)]
    /\ \A e \in Connections, s \in Reply :
           /\ s \in ToSet(inbox'[e]) => s \in ToSet(inbox[e]) \/ (s = r /\ e = d)
           /\ s \in ToSet(inbox[e]) => s \in ToSet(inbox'[e])
    /\ conn[d] = "open" => r \in ToSet(inbox'[d])

LEMMA WriteOther ==
    ASSUME TypeOK, NEW m, Write(m),
           \A e \in Connections : m[e] \in Seq(Message) /\ \A r \in Reply : r \notin ToSet(m[e])
    PROVE  InboxKept
  <1>1. \A e \in Connections :
          /\ conn[e] = "open" => ToSet(inbox'[e]) = ToSet(inbox[e]) \cup ToSet(m[e])
          /\ conn[e] # "open" => inbox'[e] = inbox[e]
    BY WriteFacts
  <1>2. inbox' \in [Connections -> Seq(Message)]
    BY WriteFacts
  <1> QED BY <1>1, <1>2 DEF InboxKept

LEMMA WriteReply ==
    ASSUME TypeOK, NEW m, Write(m), NEW d \in Connections, NEW r \in Reply,
           \A e \in Connections :
               /\ m[e] \in Seq(Message)
               /\ \A s \in Reply : s \in ToSet(m[e]) => s = r /\ e = d,
           conn[d] = "open" => r \in ToSet(m[d])
    PROVE  InboxGains(d, r)
  <1>1. \A e \in Connections :
          /\ conn[e] = "open" => ToSet(inbox'[e]) = ToSet(inbox[e]) \cup ToSet(m[e])
          /\ conn[e] # "open" => inbox'[e] = inbox[e]
    BY WriteFacts
  <1>2. inbox' \in [Connections -> Seq(Message)]
    BY WriteFacts
  <1> QED BY <1>1, <1>2 DEF InboxGains

LEMMA CreateInbox ==
    ASSUME TypeOK, NEW d \in Connections, NEW x \in Contexts, ClientCreates(d, x)
    PROVE  InboxGains(d, Created(x))
  <1> DEFINE m == [e \in Connections |-> IF e = d THEN <<Created(x)>> ELSE <<>>]
  <1>1. Created(x) \in Message /\ Created(x) \in Reply
    BY LettersAreReplies
  <1>2. m = [e \in Connections |-> IF e = d THEN <<Created(x)>> ELSE <<>>]
    OBVIOUS
  <1>3. Write(m)
    BY DEF ClientCreates
  <1> HIDE DEF m
  <1>4. \A e \in Connections : /\ m[e] \in Seq(Message)
                               /\ ToSet(m[e]) = IF e = d THEN {Created(x)} ELSE {}
    BY <1>1, <1>2, OneWrite
  <1>5. \A e \in Connections : \A s \in Reply : s \in ToSet(m[e]) => s = Created(x) /\ e = d
    BY <1>4
  <1>6. Created(x) \in ToSet(m[d])
    BY <1>4
  <1> QED BY <1>1, <1>3, <1>4, <1>5, <1>6, WriteReply

LEMMA DisposeInbox ==
    ASSUME TypeOK, Sound, NEW d \in Connections, NEW x \in Contexts, ClientDisposes(d, x)
    PROVE  InboxGains(d, Disposed(x))
  <1> DEFINE T == LiveIn({x})
             g(e) == IF e = d THEN <<Disposed(x)>> ELSE <<>>
             m == [e \in Connections |-> DetachesOf(e, T) \o g(e)]
  <1>1. Disposed(x) \in Message /\ Disposed(x) \in Reply
    BY LettersAreReplies
  <1>2. T \in SUBSET Targets
    BY DEF LiveIn
  <1>3. Write(m)
    BY DEF ClientDisposes
  <1>4. \A e \in Connections : m[e] = DetachesOf(e, T) \o g(e)
    OBVIOUS
  <1>5. \A e \in Connections : /\ g(e) \in Seq(Message)
                               /\ ToSet(g(e)) = IF e = d THEN {Disposed(x)} ELSE {}
    BY <1>1, OneLetter
  <1> HIDE DEF m, T, g
  <1>6. ASSUME NEW e \in Connections
        PROVE  /\ m[e] \in Seq(Message)
               /\ ToSet(m[e]) = ToSet(DetachesOf(e, T)) \cup ToSet(g(e))
    <2>1. DetachesOf(e, T) \in Seq(Message)
      BY <1>2, DetachesFacts
    <2>2. \A u \in Seq(Message) : /\ DetachesOf(e, T) \o u \in Seq(Message)
                                  /\ ToSet(DetachesOf(e, T) \o u) = ToSet(DetachesOf(e, T)) \cup ToSet(u)
      BY <2>1, ToSetConcat
    <2> QED BY <1>4, <1>5, <2>2
  <1>8. \A e \in Connections : \A s \in Reply : s \notin ToSet(DetachesOf(e, T))
    BY <1>2, DetachesFacts
  <1>9. \A e \in Connections : \A s \in Reply : s \in ToSet(m[e]) => s = Disposed(x) /\ e = d
    BY <1>5, <1>6, <1>8
  <1>10. Disposed(x) \in ToSet(m[d])
    BY <1>5, <1>6
  <1> QED BY <1>1, <1>3, <1>6, <1>9, <1>10, WriteReply

LEMMA DestroyInbox ==
    ASSUME TypeOK, Sound, NEW T \in SUBSET Targets, Write([e \in Connections |-> DetachesOf(e, T)])
    PROVE  InboxKept
  <1> DEFINE m == [e \in Connections |-> DetachesOf(e, T)]
  <1>1. \A e \in Connections : m[e] = DetachesOf(e, T)
    OBVIOUS
  <1>2. Write(m)
    OBVIOUS
  <1> HIDE DEF m
  <1>3. \A e \in Connections : DetachesOf(e, T) \in Seq(Message)
    BY DetachesFacts
  <1>4. \A e \in Connections : \A r \in Reply : r \notin ToSet(DetachesOf(e, T))
    BY DetachesFacts
  <1>5. \A e \in Connections : m[e] \in Seq(Message) /\ \A r \in Reply : r \notin ToSet(m[e])
    BY <1>1, <1>3, <1>4
  <1> QED BY <1>2, <1>5, WriteOther

LEMMA PageInbox ==
    ASSUME TypeOK, NEW t \in Targets, NEW m, Write(m),
           \A e \in Connections : m[e] \in {<<>>, <<Attach(t)>>, <<Detach(t)>>}
    PROVE  InboxKept
  <1>1. Attach(t) \in Message /\ Detach(t) \in Message
    BY DEF Attach, Detach, Message
  <1>2. \A e \in Connections : m[e] \in Seq(Message) /\ ToSet(m[e]) \in {{}, {Attach(t)}, {Detach(t)}}
    BY <1>1, OneLetter
  <1>3. \A e \in Connections : \A r \in Reply : r \notin ToSet(m[e])
    BY <1>2, RepliesAreNotPages
  <1> QED BY <1>2, <1>3, WriteOther

LEMMA JoinInbox ==
    ASSUME TypeOK, Sound, NEW d \in Connections, Join(d)
    PROVE  InboxKept
  <1> DEFINE T == LiveIn(Contexts \cup {Default})
             q == SetToSeq(T)
             a == [n \in DOMAIN q |-> Attach(q[n])]
  <1>1. T \in SUBSET Born /\ T \subseteq Targets
    BY DEF LiveIn, Born
  <1>2. IsFiniteSet(T)
    BY <1>1, FS_Subset DEF Sound
  <1>3. a \in Seq(Message) /\ ToSet(a) = {Attach(t) : t \in T}
    BY <1>1, <1>2, AttachesFacts
  <1>4. inbox' = [inbox EXCEPT ![d] = a] /\ conn[d] = "new"
    BY DEF Join
  <1> HIDE DEF a, q, T
  <1>5. inbox[d] = <<>>
    BY <1>4 DEF Sound, Mail
  <1>6. ToSet(inbox[d]) = {}
    BY <1>5 DEF ToSet
  <1>7. \A r \in Reply : r \notin ToSet(a)
    BY <1>1, <1>3, RepliesAreNotPages
  <1>8. inbox' \in [Connections -> Seq(Message)]
    BY <1>3, <1>4 DEF TypeOK
  <1>9. inbox'[d] = a /\ \A e \in Connections \ {d} : inbox'[e] = inbox[e]
    BY <1>4 DEF TypeOK
  <1> QED BY <1>6, <1>7, <1>8, <1>9 DEF InboxKept

(* The claims stand while contexts only go, and replies that claim neither *)
(* come nor are read.                                                      *)
LEMMA ClaimsKept ==
    ASSUME IInv, UNCHANGED <<conn, owners, late, creator>>,
           \A x \in Contexts : ctx'[x] = ctx[x] \/ (ctx[x] = "live" /\ ctx'[x] = "gone"),
           \A e \in Connections, x \in Contexts :
               /\ Created(x) \in replies'[e] => Created(x) \in replies[e]
               /\ Created(x) \in Queued(e)' => Created(x) \in Queued(e)
               /\ Created(x) \in Queued(e) => Created(x) \in Queued(e)'
               /\ Disposed(x) \in Queued(e)' => Disposed(x) \in Queued(e) \/ ctx'[x] = "gone",
           \A e \in Connections : conn[e] \in {"new", "closed"} => replies'[e] = {}
    PROVE  Letters' /\ Made' /\ Claimed' /\ ClaimsEndWithConnection'
  <1>1. \A x : (Created(x))' = Created(x) /\ (Disposed(x))' = Disposed(x)
    BY DEF Created, Disposed
  <1>2. Letters'
    BY <1>1 DEF IInv, Claims, Letters
  <1>3. Made'
    BY DEF IInv, Claims, Made
  <1>4. Claimed'
    BY <1>1 DEF IInv, Claims, Claimed, Made
  <1>5. ClaimsEndWithConnection'
    BY DEF IInv, ClaimsEndWithConnection
  <1> QED BY <1>2, <1>3, <1>4, <1>5
-----------------------------------------------------------------------------
(* What the first message of a chain is. *)
LEMMA HandleFacts ==
    ASSUME TypeOK, NEW d \in Connections, Handle(d)
    PROVE  \E m \in Message :
               /\ m \in ToSet(inbox[d])
               /\ inbox' \in [Connections -> Seq(Message)]
               /\ \A e \in Connections, r \in Reply :
                      /\ r \in ToSet(inbox'[e]) => r \in ToSet(inbox[e])
                      /\ r \in ToSet(inbox[e]) => r \in ToSet(inbox'[e]) \/ (r = m /\ e = d)
               /\ \/ ClientReply(d, m)
                  \/ m.kind = "attach" /\ m.of \in Targets /\ m \notin Reply
                         /\ (Show(d, m.of) \/ Hide(d, m.of))
                  \/ m.kind = "detach" /\ m.of \in Targets /\ m \notin Reply /\ Gone(d, m.of)
  <1> DEFINE q == inbox[d]
             m == Head(q)
  <1>1. q # <<>> /\ inbox' = [inbox EXCEPT ![d] = Tail(q)]
    BY DEF Handle
  <1>2. /\ m \in ToSet(q) /\ ToSet(q) \subseteq Message
        /\ Tail(q) \in Seq(Message) /\ ToSet(q) = {m} \cup ToSet(Tail(q))
    BY <1>1, ToSetTail DEF TypeOK
  <1>3. inbox' \in [Connections -> Seq(Message)]
    BY <1>1, <1>2 DEF TypeOK
  <1>4. inbox'[d] = Tail(q) /\ \A e \in Connections \ {d} : inbox'[e] = inbox[e]
    BY <1>1 DEF TypeOK
  <1>5. \/ ClientReply(d, m)
        \/ m.kind = "attach" /\ (Show(d, m.of) \/ Hide(d, m.of))
        \/ m.kind = "detach" /\ Gone(d, m.of)
    BY DEF Handle
  <1>6. q = inbox[d]
    OBVIOUS
  <1> HIDE DEF m, q
  <1>7. m.kind \in {"attach", "detach"} => m.of \in Targets /\ m \notin Reply
    BY <1>2 DEF Message, Reply
  <1>8. \A e \in Connections, r \in Reply :
              /\ r \in ToSet(inbox'[e]) => r \in ToSet(inbox[e])
              /\ r \in ToSet(inbox[e]) => r \in ToSet(inbox'[e]) \/ (r = m /\ e = d)
    BY <1>2, <1>4, <1>6
  <1>9. m \in Message /\ m \in ToSet(inbox[d])
    BY <1>2, <1>6
  <1> QED BY <1>3, <1>5, <1>7, <1>8, <1>9

(* The steps that write no reply. *)
LEMMA Quiet ==
    ASSUME TypeOK, Sound
    PROVE  /\ \A d \in Connections :
               /\ \A x \in Contexts : PluginDisposes(d, x) => InboxKept
               /\ \A x \in Contexts \cup {Default}, t \in Targets : Opens(d, x, t) => InboxKept
               /\ \A t \in Targets : Leaves(d, t) => InboxKept
               /\ Join(d) \/ ReapFinish(d) => InboxKept
           /\ \A t \in Targets : Closes(t) => InboxKept
           /\ UNCHANGED inbox => InboxKept
  <1>1. CASE UNCHANGED inbox
    BY <1>1 DEF TypeOK, InboxKept
  <1>2. ASSUME NEW d \in Connections, NEW x \in Contexts, PluginDisposes(d, x)
        PROVE  InboxKept
    <2>1. LiveIn({x}) \in SUBSET Targets
      BY DEF LiveIn
    <2> QED BY <1>2, <2>1, DestroyInbox DEF PluginDisposes
  <1>3. ASSUME NEW t \in Targets, Closes(t)
        PROVE  InboxKept
    BY <1>3, DestroyInbox DEF Closes
  <1>4. ASSUME NEW d \in Connections, ReapFinish(d)
        PROVE  InboxKept
    <2> DEFINE T == LiveIn({x \in Contexts : creator[x] = d /\ ctx[x] = "live"})
    <2>1. T \in SUBSET Targets
      BY DEF LiveIn
    <2>2. Write([e \in Connections |-> DetachesOf(e, T)])
      BY <1>4 DEF ReapFinish
    <2> HIDE DEF T
    <2> QED BY <2>1, <2>2, DestroyInbox
  <1>5. ASSUME NEW d \in Connections, NEW x \in Contexts \cup {Default}, NEW t \in Targets,
               Opens(d, x, t)
        PROVE  InboxKept
    <2> DEFINE m == [e \in Connections |-> <<Attach(t)>>]
    <2>1. Write(m) /\ \A e \in Connections : m[e] \in {<<>>, <<Attach(t)>>, <<Detach(t)>>}
      BY <1>5 DEF Opens
    <2> HIDE DEF m
    <2> QED BY <2>1, PageInbox
  <1>6. ASSUME NEW d \in Connections, NEW t \in Targets, Leaves(d, t)
        PROVE  InboxKept
    <2> DEFINE m == [e \in Connections |-> IF e = d THEN <<Detach(t)>> ELSE <<>>]
    <2>1. Write(m) /\ \A e \in Connections : m[e] \in {<<>>, <<Attach(t)>>, <<Detach(t)>>}
      BY <1>6 DEF Leaves
    <2> HIDE DEF m
    <2> QED BY <2>1, PageInbox
  <1>7. ASSUME NEW d \in Connections, Join(d)
        PROVE  InboxKept
    BY <1>7, JoinInbox
  <1> QED BY <1>1, <1>2, <1>3, <1>4, <1>5, <1>6, <1>7

LEMMA Inboxes ==
    ASSUME TypeOK, Sound, [Next]_vars
    PROVE  inbox' \in [Connections -> Seq(Message)]
  <1>1. ASSUME NEW d \in Connections, NEW x \in Contexts,
               ClientCreates(d, x) \/ ClientDisposes(d, x)
        PROVE  inbox' \in [Connections -> Seq(Message)]
    BY <1>1, CreateInbox, DisposeInbox DEF InboxGains
  <1>2. CASE InboxKept
    BY <1>2 DEF InboxKept
  <1>3. ASSUME NEW d \in Connections, Reap(d)
        PROVE  inbox' \in [Connections -> Seq(Message)]
    BY <1>3 DEF Reap, TypeOK
  <1>4. ASSUME NEW d \in Connections, Handle(d)
         PROVE  inbox' \in [Connections -> Seq(Message)]
    BY <1>4, HandleFacts
  <1> QED BY <1>1, <1>2, <1>3, <1>4, Quiet
             DEF Next, Ask, Answer, Page, Session, PluginCreates, Resumes, PluginReply, vars, proxy

-----------------------------------------------------------------------------
LEMMA TypeStep == IInv /\ [Next]_vars => TypeOK'
  <1> SUFFICES ASSUME IInv, [Next]_vars
               PROVE  TypeOK'
    OBVIOUS
  <1>1. TypeOK /\ Sound /\ inbox' \in [Connections -> Seq(Message)]
    BY Inboxes DEF IInv
  <1>2. ASSUME NEW d \in Connections, NEW x \in Contexts, ClientCreates(d, x)
        PROVE  TypeOK'
    BY <1>1, <1>2 DEF TypeOK, ClientCreates
  <1>3. ASSUME NEW d \in Connections, NEW x \in Contexts, PluginCreates(d, x)
        PROVE  TypeOK'
    BY <1>1, <1>3, LettersAreReplies DEF TypeOK, PluginCreates
  <1>4. ASSUME NEW d \in Connections, NEW x \in Contexts, ClientDisposes(d, x)
        PROVE  TypeOK'
    BY <1>1, <1>4 DEF TypeOK, ClientDisposes, Destroy, Without
  <1>5. ASSUME NEW d \in Connections, NEW x \in Contexts, PluginDisposes(d, x)
        PROVE  TypeOK'
    BY <1>1, <1>5, LettersAreReplies DEF TypeOK, PluginDisposes, Destroy, Without
  <1>6. ASSUME NEW d \in Connections, NEW x \in Contexts \cup {Default}, NEW t \in Targets,
               Opens(d, x, t)
        PROVE  TypeOK'
    BY <1>1, <1>6 DEF TypeOK, Opens
  <1>7. ASSUME NEW d \in Connections, NEW t \in Targets, Resumes(d, t)
        PROVE  TypeOK'
    BY <1>1, <1>7 DEF TypeOK, Resumes, proxy
  <1>8. ASSUME NEW d \in Connections, NEW t \in Targets, Leaves(d, t)
        PROVE  TypeOK'
    BY <1>1, <1>8 DEF TypeOK, Leaves
  <1>9. ASSUME NEW t \in Targets, Closes(t)
        PROVE  TypeOK'
    BY <1>1, <1>9 DEF TypeOK, Closes, Destroy, Without
  <1>10. ASSUME NEW d \in Connections, NEW m \in Reply, PluginReply(d, m)
         PROVE  TypeOK'
    BY <1>1, <1>10, ReplyLetters DEF TypeOK, PluginReply, Claim, browser
  <1>11. ASSUME NEW d \in Connections, Join(d)
         PROVE  TypeOK'
    BY <1>1, <1>11 DEF TypeOK, Join, LiveIn
  <1>12. ASSUME NEW d \in Connections, Reap(d)
         PROVE  TypeOK'
    BY <1>1, <1>12 DEF TypeOK, Reap, browser
  <1>13. ASSUME NEW d \in Connections, ReapFinish(d)
         PROVE  TypeOK'
    BY <1>1, <1>13 DEF TypeOK, ReapFinish, Without
  <1>14. ASSUME NEW d \in Connections, Handle(d)
         PROVE  TypeOK'
    <2>1. PICK m \in Message :
            \/ ClientReply(d, m)
            \/ m.of \in Targets /\ (Show(d, m.of) \/ Hide(d, m.of))
            \/ m.of \in Targets /\ Gone(d, m.of)
      BY <1>1, <1>14, HandleFacts
    <2>2. UNCHANGED <<conn, replies, late, ctx, creator, home, alive, attached>>
      BY <1>14 DEF Handle
    <2>3. CASE ClientReply(d, m)
      BY <1>1, <2>2, <2>3, ReplyLetters DEF TypeOK, ClientReply, Claim
    <2>4. CASE m.of \in Targets /\ Show(d, m.of)
      BY <1>1, <2>2, <2>4 DEF TypeOK, Show
    <2>5. CASE m.of \in Targets /\ Hide(d, m.of)
      BY <1>1, <2>2, <2>5 DEF TypeOK, Hide
    <2>6. CASE m.of \in Targets /\ Gone(d, m.of)
      BY <1>1, <2>2, <2>6 DEF TypeOK, Gone
    <2> QED BY <2>1, <2>3, <2>4, <2>5, <2>6
  <1>15. CASE UNCHANGED vars
    BY <1>1, <1>15 DEF TypeOK, vars, proxy, browser
  <1> QED BY <1>2, <1>3, <1>4, <1>5, <1>6, <1>7, <1>8, <1>9, <1>10, <1>11, <1>12, <1>13,
             <1>14, <1>15 DEF Next, Ask, Answer, Page, Session
-----------------------------------------------------------------------------
(* A step that only carries messages and pages about. *)
LEMMA ClaimsQuiet ==
    ASSUME IInv, InboxKept, UNCHANGED <<conn, owners, replies, late, ctx, creator>>
    PROVE  Letters' /\ Made' /\ Claimed' /\ ClaimsEndWithConnection'
  <1>1. \A e \in Connections, x \in Contexts :
            /\ Created(x) \in Queued(e)' => Created(x) \in Queued(e)
            /\ Created(x) \in Queued(e) => Created(x) \in Queued(e)'
            /\ Disposed(x) \in Queued(e)' => Disposed(x) \in Queued(e)
    BY PrimedQueue, LettersAreReplies DEF Queued, InboxKept
  <1> QED BY <1>1, ClaimsKept DEF IInv, Claims, Letters

LEMMA HousedKept ==
    ASSUME IInv, UNCHANGED <<conn, owners, creator, home>>,
           \A t \in Targets : alive[t] # "none" => alive'[t] # "none",
           \A x \in Contexts : ctx'[x] = ctx[x] \/ (ctx[x] = "live" /\ ctx'[x] = "gone")
    PROVE  Housed'
  BY DEF IInv, Claims, Housed, TypeOK

(* Reading the reply m, from either queue. *)
LEMMA ClaimsAnswered ==
    ASSUME IInv, NEW d \in Connections, conn[d] \in {"open", "ending"}, NEW m \in Reply, m \in Queued(d),
           conn[d] = "ending" => m \in replies[d],
           Claim(d, m), UNCHANGED <<conn, late, ctx, creator, home, alive>>,
           \A e \in Connections, r \in Reply :
               /\ r \in replies'[e] => r \in replies[e]
               /\ r \in Queued(e)' => r \in Queued(e)
               /\ r \in Queued(e) => r \in Queued(e)' \/ (r = m /\ e = d),
           \A e \in Connections : replies[e] = {} => replies'[e] = {}
    PROVE  Claims' /\ ClaimsEndWithConnection'
  <1>1. PICK x \in Contexts : x = m.of /\ (m = Created(x) \/ m = Disposed(x))
    BY ReplyLetters
  <1>2. TypeOK /\ Letters /\ Made /\ Claimed /\ Housed /\ ClaimsEndWithConnection
    BY DEF IInv, Claims
  <1>3. \A y : (Created(y))' = Created(y) /\ (Disposed(y))' = Disposed(y)
    BY DEF Created, Disposed
  <1>4. \A y \in Contexts : /\ Created(y) \in Reply /\ Disposed(y) \in Reply
                            /\ Created(y) = m => y = x
    <2>1. \A y : Created(y).of = y
      BY DEF Created
    <2> QED BY <1>1, <2>1, LettersAreReplies
  <1>5. CASE m = Created(x)
    <2>1. owners' = [owners EXCEPT ![x] = d] /\ creator[x] = d
      BY <1>1, <1>2, <1>5 DEF Claim, Created, Letters
    <2>2. Letters'
      BY <1>2, <1>3, <1>4 DEF Letters
    <2>3. Made'
      BY <1>2 DEF Made
    <2>4. Claimed'
      BY <1>2, <1>3, <1>4, <2>1 DEF Claimed, Made, TypeOK
    <2>5. Housed'
      BY <1>2, <2>1 DEF Housed, TypeOK
    <2>6. ClaimsEndWithConnection'
      BY <1>2, <1>5, <2>1 DEF ClaimsEndWithConnection, Letters, TypeOK
    <2> QED BY <2>2, <2>3, <2>4, <2>5, <2>6 DEF Claims
  <1>6. CASE m = Disposed(x)
    <2>1. owners' = [owners EXCEPT ![x] = Nobody] /\ ctx[x] = "gone"
      BY <1>1, <1>2, <1>6 DEF Claim, Disposed, Letters
    <2>2. Letters'
      BY <1>2, <1>3, <1>4 DEF Letters
    <2>3. Made'
      BY <1>2 DEF Made
    <2>4. Claimed'
      BY <1>2, <1>3, <1>4, <2>1 DEF Claimed, Made, TypeOK
    <2>5. Housed'
      BY <1>2, <2>1 DEF Housed, TypeOK
    <2>6. ClaimsEndWithConnection'
      BY <1>2, <2>1 DEF ClaimsEndWithConnection, TypeOK
    <2> QED BY <2>2, <2>3, <2>4, <2>5, <2>6 DEF Claims
  <1> QED BY <1>1, <1>5, <1>6

(* A context is made: by a command of the client's or of a plugin's. *)
LEMMA ClaimsCreated ==
    ASSUME IInv, NEW d \in Connections, NEW x \in Contexts, ctx[x] = "unused",
           conn[d] \in {"open", "ending"},
           ctx' = [ctx EXCEPT ![x] = "live"], creator' = [creator EXCEPT ![x] = d],
           UNCHANGED <<conn, owners, home, alive>>,
           late \subseteq late',
           \A e \in Connections, r \in Reply :
               /\ r \in replies'[e] => r \in replies[e] \/ (r = Created(x) /\ e = d)
               /\ r \in Queued(e)' => r \in Queued(e) \/ (r = Created(x) /\ e = d)
               /\ r \in Queued(e) => r \in Queued(e)',
           conn[d] = "open" => Created(x) \in Queued(d)',
           conn[d] = "ending" => x \in late',
           \A e \in Connections \ {d} : replies'[e] = replies[e]
    PROVE  Claims' /\ ClaimsEndWithConnection'
  <1>1. TypeOK /\ Letters /\ Made /\ Claimed /\ Housed /\ ClaimsEndWithConnection
    BY DEF IInv, Claims
  <1>2. \A y : (Created(y))' = Created(y) /\ (Disposed(y))' = Disposed(y)
    BY DEF Created, Disposed
  <1>3. \A y \in Contexts : /\ Created(y) \in Reply /\ Disposed(y) \in Reply
                            /\ Created(y) = Created(x) => y = x
                            /\ Disposed(y) # Created(x)
    BY LettersAreReplies DEF Created, Disposed
  <1>4. /\ \A y \in Contexts : /\ ctx'[y] = IF y = x THEN "live" ELSE ctx[y]
                               /\ creator'[y] = IF y = x THEN d ELSE creator[y]
    BY <1>1 DEF TypeOK
  <1>5. Letters'
    BY <1>1, <1>2, <1>3, <1>4 DEF Letters
  <1>6. Made'
    BY <1>1, <1>4 DEF Made
  <1>7. Claimed'
    BY <1>1, <1>2, <1>3, <1>4 DEF Claimed, Made
  <1>8. Housed'
    BY <1>1, <1>4 DEF Housed
  <1>9. ClaimsEndWithConnection'
    BY <1>1 DEF ClaimsEndWithConnection
  <1> QED BY <1>5, <1>6, <1>7, <1>8, <1>9 DEF Claims

LEMMA ClaimsStep == IInv /\ [Next]_vars => Claims' /\ ClaimsEndWithConnection'
  <1> SUFFICES ASSUME IInv, [Next]_vars
               PROVE  Claims' /\ ClaimsEndWithConnection'
    OBVIOUS
  <1>1. /\ TypeOK /\ Sound
        /\ Letters /\ Made /\ Claimed /\ Housed /\ ClaimsEndWithConnection
    BY DEF IInv, Claims
  <1>2. CASE /\ InboxKept /\ UNCHANGED <<conn, owners, replies, late, ctx, creator, home>>
             /\ \A t \in Targets : alive[t] # "none" => alive'[t] # "none"
    BY <1>2, ClaimsQuiet, HousedKept DEF Claims
  <1>3. ASSUME NEW d \in Connections, NEW x \in Contexts, ClientCreates(d, x)
        PROVE  Claims' /\ ClaimsEndWithConnection'
    <2>1. InboxGains(d, Created(x)) /\ Created(x) \in Reply
      BY <1>1, <1>3, CreateInbox, LettersAreReplies
    <2>2. /\ conn[d] = "open" /\ ctx[x] = "unused"
          /\ ctx' = [ctx EXCEPT ![x] = "live"] /\ creator' = [creator EXCEPT ![x] = d]
          /\ UNCHANGED <<conn, owners, replies, late, home, alive>>
      BY <1>3 DEF ClientCreates
    <2>3. /\ \A e \in Connections, r \in Reply :
                 /\ r \in Queued(e)' => r \in Queued(e) \/ (r = Created(x) /\ e = d)
                 /\ r \in Queued(e) => r \in Queued(e)'
          /\ Created(x) \in Queued(d)'
      BY <2>1, <2>2, PrimedQueue DEF Queued, InboxGains
    <2> QED BY <2>2, <2>3, ClaimsCreated
  <1>4. ASSUME NEW d \in Connections, NEW x \in Contexts, PluginCreates(d, x)
        PROVE  Claims' /\ ClaimsEndWithConnection'
    <2>1. /\ conn[d] \in {"open", "ending"} /\ ctx[x] = "unused"
          /\ ctx' = [ctx EXCEPT ![x] = "live"] /\ creator' = [creator EXCEPT ![x] = d]
          /\ UNCHANGED <<conn, owners, home, alive>>
          /\ replies' = [replies EXCEPT ![d] = @ \cup {Created(x)}]
          /\ late \subseteq late' /\ (conn[d] = "ending" => x \in late')
          /\ inbox' = inbox
      BY <1>4 DEF PluginCreates
    <2>2. \A e \in Connections :
              replies'[e] = IF e = d THEN replies[d] \cup {Created(x)} ELSE replies[e]
      BY <1>1, <2>1 DEF TypeOK
    <2>3. \A e \in Connections : Queued(e)' = replies'[e] \cup ToSet(inbox[e])
      BY <2>1, PrimedQueue
    <2>4. /\ \A e \in Connections, r \in Reply :
                 /\ r \in replies'[e] => r \in replies[e] \/ (r = Created(x) /\ e = d)
                 /\ r \in Queued(e)' => r \in Queued(e) \/ (r = Created(x) /\ e = d)
                 /\ r \in Queued(e) => r \in Queued(e)'
          /\ Created(x) \in Queued(d)'
      BY <2>2, <2>3 DEF Queued
    <2> QED BY <2>1, <2>2, <2>4, ClaimsCreated
  <1>5. ASSUME NEW d \in Connections, NEW x \in Contexts, ClientDisposes(d, x) \/ PluginDisposes(d, x)
        PROVE  Claims' /\ ClaimsEndWithConnection'
    <2>1. /\ conn[d] \in {"open", "ending"} /\ ctx[x] = "live" /\ ctx' = [ctx EXCEPT ![x] = "gone"]
          /\ UNCHANGED <<conn, owners, late, creator, home>>
          /\ Destroy(LiveIn({x}))
      BY <1>5 DEF ClientDisposes, PluginDisposes, Knows
    <2>2. \A e \in Connections, y \in Contexts :
               /\ Created(y) \in replies'[e] => Created(y) \in replies[e]
               /\ Created(y) \in Queued(e)' => Created(y) \in Queued(e)
               /\ Created(y) \in Queued(e) => Created(y) \in Queued(e)'
               /\ Disposed(y) \in Queued(e)' => Disposed(y) \in Queued(e) \/ ctx'[y] = "gone"
      <3>1. \A y \in Contexts : /\ Created(y) \in Reply /\ Disposed(y) \in Reply
                                /\ Created(y) # Disposed(x)
                                /\ Disposed(y) = Disposed(x) => y = x
        BY LettersAreReplies DEF Created, Disposed
      <3>2. ctx'[x] = "gone"
        BY <1>1, <2>1 DEF TypeOK
      <3>3. CASE ClientDisposes(d, x)
        <4>1. InboxGains(d, Disposed(x)) /\ replies' = replies
          BY <1>1, <3>3, DisposeInbox DEF ClientDisposes
        <4> QED BY <3>1, <3>2, <4>1, PrimedQueue DEF Queued, InboxGains
      <3>4. CASE PluginDisposes(d, x)
        <4>1. InboxKept /\ replies' = [replies EXCEPT ![d] = @ \cup {Disposed(x)}]
          BY <1>1, <3>4, Quiet DEF PluginDisposes
        <4>2. \A e \in Connections :
                  replies'[e] = IF e = d THEN replies[d] \cup {Disposed(x)} ELSE replies[e]
          BY <1>1, <4>1 DEF TypeOK
        <4> QED BY <3>1, <3>2, <4>1, <4>2, PrimedQueue DEF Queued, InboxKept
      <3> QED BY <1>5, <3>3, <3>4
    <2>3. \A e \in Connections : conn[e] \in {"new", "closed"} => replies'[e] = {}
      BY <1>1, <1>5, <2>1 DEF Letters, ClientDisposes, PluginDisposes, TypeOK
    <2>4. \A y \in Contexts : ctx'[y] = ctx[y] \/ (ctx[y] = "live" /\ ctx'[y] = "gone")
      BY <1>1, <2>1 DEF TypeOK
    <2>5. \A t \in Targets : alive[t] # "none" => alive'[t] # "none"
      BY <2>1 DEF Destroy
    <2>6. Letters' /\ Made' /\ Claimed' /\ ClaimsEndWithConnection'
      BY <2>1, <2>2, <2>3, <2>4, ClaimsKept
    <2>7. Housed'
      BY <2>1, <2>4, <2>5, HousedKept
    <2> QED BY <2>6, <2>7 DEF Claims
  <1>6. ASSUME NEW d \in Connections, NEW x \in Contexts \cup {Default}, NEW t \in Targets,
               Opens(d, x, t)
        PROVE  Claims' /\ ClaimsEndWithConnection'
    <2>1. /\ InboxKept /\ UNCHANGED <<conn, owners, replies, late, ctx, creator>>
          /\ alive' = [alive EXCEPT ![t] = "live"] /\ home' = [home EXCEPT ![t] = x]
      BY <1>1, <1>6, Quiet DEF Opens
    <2>2. Letters' /\ Made' /\ Claimed' /\ ClaimsEndWithConnection'
      BY <2>1, ClaimsQuiet
    <2>3. x \in Contexts => /\ ctx[x] # "unused"
                            /\ ctx[x] = "live" /\ conn[creator[x]] = "open" => owners[x] = creator[x]
      <3>1. CASE Knows(d, x)
        BY <1>1, <3>1 DEF Knows, Claimed, Queued
      <3>2. CASE LiveIn({x}) # {}
        BY <1>1, <3>2 DEF LiveIn, Housed
      <3> QED BY <1>6, <3>1, <3>2, NamesAreDistinct DEF Opens
    <2>4. Housed'
      BY <1>1, <2>1, <2>3 DEF Housed, TypeOK
    <2> QED BY <2>2, <2>4 DEF Claims
  <1>7. ASSUME NEW t \in Targets, \/ Closes(t)
                                  \/ \E d \in Connections : Leaves(d, t)
        PROVE  Claims' /\ ClaimsEndWithConnection'
    <2>1. InboxKept
      BY <1>1, <1>7, Quiet
    <2>2. /\ UNCHANGED <<conn, owners, replies, late, ctx, creator, home>>
          /\ \A u \in Targets : alive[u] # "none" => alive'[u] # "none"
      BY <1>7 DEF Closes, Leaves, Destroy
    <2> QED BY <1>2, <2>1, <2>2
  <1>8. ASSUME NEW d \in Connections, NEW t \in Targets, Resumes(d, t)
        PROVE  Claims' /\ ClaimsEndWithConnection'
    BY <1>1, <1>2, <1>8, Quiet DEF Resumes, proxy
  <1>9. ASSUME NEW d \in Connections, NEW m \in Reply, PluginReply(d, m)
        PROVE  Claims' /\ ClaimsEndWithConnection'
    <2>1. /\ m \in replies[d] /\ replies' = [replies EXCEPT ![d] = @ \ {m}]
          /\ Claim(d, m) /\ UNCHANGED <<conn, inbox, late, ctx, creator, home, alive>>
      BY <1>9 DEF PluginReply, browser
    <2>2. \A e \in Connections : replies'[e] = IF e = d THEN replies[d] \ {m} ELSE replies[e]
      BY <1>1, <2>1 DEF TypeOK
    <2>3. \A e \in Connections : Queued(e)' = replies'[e] \cup ToSet(inbox[e])
      BY <2>1, PrimedQueue
    <2>4. conn[d] \in {"open", "ending"}
      BY <1>1, <2>1 DEF Letters, TypeOK
    <2>5. \A e \in Connections, r \in Reply :
               /\ r \in replies'[e] => r \in replies[e]
               /\ r \in Queued(e)' => r \in Queued(e)
               /\ r \in Queued(e) => r \in Queued(e)' \/ (r = m /\ e = d)
      BY <2>2, <2>3 DEF Queued
    <2>6. m \in Queued(d)
      BY <2>1 DEF Queued
    <2> QED BY <2>1, <2>2, <2>4, <2>5, <2>6, ClaimsAnswered
  <1>10. ASSUME NEW d \in Connections, Join(d)
         PROVE  Claims' /\ ClaimsEndWithConnection'
    <2>1. /\ InboxKept /\ UNCHANGED <<owners, replies, late, ctx, creator, home, alive>>
          /\ conn[d] = "new" /\ conn' = [conn EXCEPT ![d] = "open"]
      BY <1>1, <1>10, Quiet DEF Join
    <2>2. \A e \in Connections, r \in Reply : /\ r \in Queued(e)' => r \in Queued(e)
                                              /\ r \in Queued(e) => r \in Queued(e)'
      BY <2>1, PrimedQueue DEF InboxKept, Queued
    <2>3. \A e \in Connections : conn'[e] = IF e = d THEN "open" ELSE conn[e]
      BY <1>1, <2>1 DEF TypeOK
    <2>4. \A y : (Created(y))' = Created(y) /\ (Disposed(y))' = Disposed(y)
      BY DEF Created, Disposed
    <2>5. \A y \in Contexts : Created(y) \in Reply /\ Disposed(y) \in Reply
      BY LettersAreReplies
    <2>6. Letters'
      BY <1>1, <2>1, <2>2, <2>3, <2>4, <2>5 DEF Letters
    <2>7. Made'
      BY <1>1, <2>1, <2>3 DEF Made
    <2>8. Claimed'
      BY <1>1, <2>1, <2>2, <2>3, <2>4, <2>5 DEF Claimed, Made
    <2>9. Housed'
      BY <1>1, <2>1, <2>3 DEF Housed, Made
    <2>10. ClaimsEndWithConnection'
      BY <1>1, <2>1, <2>3 DEF ClaimsEndWithConnection, TypeOK
    <2> QED BY <2>6, <2>7, <2>8, <2>9, <2>10 DEF Claims
  <1>11. ASSUME NEW d \in Connections, Reap(d)
         PROVE  Claims' /\ ClaimsEndWithConnection'
    <2>1. /\ conn[d] = "open" /\ conn' = [conn EXCEPT ![d] = "ending"]
          /\ inbox' = [inbox EXCEPT ![d] = <<>>] /\ replies' = [replies EXCEPT ![d] = {}]
          /\ owners' = [x \in Contexts |-> IF owners[x] = d THEN Nobody ELSE owners[x]]
          /\ UNCHANGED <<late, ctx, creator, home, alive>>
      BY <1>11 DEF Reap, browser
    <2>2. \A e \in Connections : /\ conn'[e] = IF e = d THEN "ending" ELSE conn[e]
                                 /\ replies'[e] = IF e = d THEN {} ELSE replies[e]
                                 /\ inbox'[e] = IF e = d THEN <<>> ELSE inbox[e]
      BY <1>1, <2>1 DEF TypeOK
    <2>3. ToSet(<<>>) = {}
      BY DEF ToSet
    <2>4. \A e \in Connections : /\ e = d => Queued(e)' = {}
                                 /\ e # d => Queued(e)' = Queued(e)
      BY <2>2, <2>3, PrimedQueue DEF Queued
    <2>5. \A y : (Created(y))' = Created(y) /\ (Disposed(y))' = Disposed(y)
      BY DEF Created, Disposed
    <2>6. Letters'
      BY <1>1, <2>1, <2>2, <2>4, <2>5 DEF Letters
    <2>7. Made'
      BY <1>1, <2>1, <2>2 DEF Made
    <2>8. Claimed'
      BY <1>1, <2>1, <2>2, <2>4, <2>5 DEF Claimed, Made
    <2>9. Housed'
      BY <1>1, <2>1, <2>2 DEF Housed, Made
    <2>10. ClaimsEndWithConnection'
      BY <1>1, <2>1, <2>2 DEF ClaimsEndWithConnection, TypeOK
    <2> QED BY <2>6, <2>7, <2>8, <2>9, <2>10 DEF Claims
  <1>12. ASSUME NEW d \in Connections, ReapFinish(d)
         PROVE  Claims' /\ ClaimsEndWithConnection'
    <2> DEFINE X == {x \in Contexts : creator[x] = d /\ ctx[x] = "live"}
    <2>1. /\ InboxKept
          /\ conn[d] = "ending" /\ conn' = [conn EXCEPT ![d] = "closed"]
          /\ replies' = [replies EXCEPT ![d] = {}]
          /\ ctx' = [x \in Contexts |-> IF x \in X THEN "gone" ELSE ctx[x]]
          /\ \A t \in Targets : alive[t] # "none" => alive'[t] # "none"
          /\ UNCHANGED <<owners, late, creator, home>>
      <3>1. InboxKept
        BY <1>1, <1>12, Quiet
      <3> QED BY <1>12, <3>1 DEF ReapFinish
    <2>2. \A e \in Connections : /\ conn'[e] = IF e = d THEN "closed" ELSE conn[e]
                                 /\ replies'[e] = IF e = d THEN {} ELSE replies[e]
      BY <1>1, <2>1 DEF TypeOK
    <2>3. \A y \in Contexts : /\ y \in X => creator[y] = d /\ ctx[y] = "live" /\ ctx'[y] = "gone"
                              /\ y \notin X => ctx'[y] = ctx[y]
      BY <2>1
    <2> HIDE DEF X
    <2>4. \A e \in Connections, r \in Reply :
              /\ r \in Queued(e)' => r \in Queued(e)
              /\ e # d /\ r \in Queued(e) => r \in Queued(e)'
      BY <2>1, <2>2, PrimedQueue DEF InboxKept, Queued
    <2>5. \A y : (Created(y))' = Created(y) /\ (Disposed(y))' = Disposed(y)
      BY DEF Created, Disposed
    <2>6. \A y \in Contexts : Created(y) \in Reply /\ Disposed(y) \in Reply
      BY LettersAreReplies
    <2>7. Letters'
      BY <1>1, <2>1, <2>2, <2>3, <2>4, <2>5, <2>6 DEF Letters
    <2>8. Made'
      BY <1>1, <2>1, <2>2, <2>3 DEF Made
    <2>9. Claimed'
      BY <1>1, <2>1, <2>2, <2>3, <2>4, <2>5, <2>6 DEF Claimed, Made
    <2>10. Housed'
      BY <1>1, <2>1, <2>2, <2>3 DEF Housed, Made
    <2>11. ClaimsEndWithConnection'
      BY <1>1, <2>1, <2>2 DEF ClaimsEndWithConnection, TypeOK
    <2> QED BY <2>7, <2>8, <2>9, <2>10, <2>11 DEF Claims
  <1>13. ASSUME NEW d \in Connections, Handle(d)
         PROVE  Claims' /\ ClaimsEndWithConnection'
    <2>1. PICK m \in Message :
            /\ m \in ToSet(inbox[d])
            /\ inbox' \in [Connections -> Seq(Message)]
            /\ \A e \in Connections, r \in Reply :
                   /\ r \in ToSet(inbox'[e]) => r \in ToSet(inbox[e])
                   /\ r \in ToSet(inbox[e]) => r \in ToSet(inbox'[e]) \/ (r = m /\ e = d)
            /\ \/ ClientReply(d, m)
               \/ m \notin Reply /\ (Show(d, m.of) \/ Hide(d, m.of) \/ Gone(d, m.of))
      BY <1>1, <1>13, HandleFacts
    <2>2. /\ conn[d] = "open"
          /\ UNCHANGED <<conn, replies, late, ctx, creator, home, alive>>
      BY <1>13 DEF Handle
    <2>3. CASE ClientReply(d, m)
      <3>1. m \in Reply /\ Claim(d, m) /\ m \in Queued(d)
        BY <2>1, <2>3 DEF ClientReply, Queued
      <3>2. \A e \in Connections, r \in Reply :
               /\ r \in replies'[e] => r \in replies[e]
               /\ r \in Queued(e)' => r \in Queued(e)
               /\ r \in Queued(e) => r \in Queued(e)' \/ (r = m /\ e = d)
        BY <2>1, <2>2, PrimedQueue DEF Queued
      <3> QED BY <2>2, <3>1, <3>2, ClaimsAnswered
    <2>4. CASE m \notin Reply /\ (Show(d, m.of) \/ Hide(d, m.of) \/ Gone(d, m.of))
      <3>1. InboxKept
        BY <2>1, <2>4 DEF InboxKept
      <3>2. UNCHANGED owners
        BY <2>4 DEF Show, Hide, Gone
      <3> QED BY <1>2, <2>2, <3>1, <3>2
    <2> QED BY <2>1, <2>3, <2>4
  <1>14. CASE UNCHANGED vars
    BY <1>1, <1>2, <1>14, Quiet DEF vars, proxy, browser
  <1> QED BY <1>3, <1>4, <1>5, <1>6, <1>7, <1>8, <1>9, <1>10, <1>11, <1>12, <1>13, <1>14
             DEF Next, Ask, Answer, Page, Session

LEMMA HiddenStep == IInv /\ [Next]_vars => HiddenWhileOwned'
  <1> SUFFICES ASSUME IInv, [Next]_vars
               PROVE  HiddenWhileOwned'
    OBVIOUS
  <1>1. /\ TypeOK /\ Made /\ Housed /\ HiddenWhileOwned
        /\ \A d \in Connections : shown[d] \subseteq Born
    BY DEF IInv, Claims, Sound, Mail
  <1>2. \A d \in Connections : \A t \in shown[d] : t \in Targets /\ alive[t] # "none"
    BY <1>1 DEF Born
  <1>3. ASSUME UNCHANGED shown,
               \A t \in Targets : alive[t] # "none" => home'[t] = home[t],
               \A x \in Contexts : ctx[x] # "unused" => creator'[x] = creator[x],
               \A x \in Contexts : ctx[x] = "gone" => ctx'[x] = "gone",
               \A d \in Connections : conn[d] \notin {"new", "open"} => conn'[d] # "open"
        PROVE  HiddenWhileOwned'
    <2> SUFFICES ASSUME NEW d \in Connections, NEW t \in shown[d],
                        home'[t] \in Contexts, creator'[home'[t]] # d
                 PROVE  conn'[creator'[home'[t]]] # "open" \/ ctx'[home'[t]] = "gone"
      BY <1>3 DEF HiddenWhileOwned
    <2> DEFINE x == home[t]
    <2>1. t \in Targets /\ home'[t] = x /\ x \in Contexts /\ ctx[x] # "unused"
      BY <1>1, <1>2, <1>3 DEF Housed
    <2>2. creator'[x] = creator[x] /\ creator[x] \in Connections /\ conn[creator[x]] # "new"
      BY <1>1, <1>3, <2>1 DEF Made
    <2>3. conn[creator[x]] # "open" \/ ctx[x] = "gone"
      BY <1>1, <2>1, <2>2 DEF HiddenWhileOwned
    <2> QED BY <1>3, <2>1, <2>2, <2>3
  <1>4. ASSUME NEW d \in Connections, Ask(d)
        PROVE  HiddenWhileOwned'
    BY <1>1, <1>3, <1>4 DEF Ask, ClientCreates, PluginCreates, ClientDisposes, PluginDisposes, TypeOK
  <1>5. ASSUME NEW d \in Connections, Page(d) \/ Answer(d) \/ Session(d)
        PROVE  HiddenWhileOwned'
    <2>1. CASE Page(d)
      BY <1>1, <1>3, <2>1 DEF Page, Opens, Resumes, Leaves, TypeOK, proxy
    <2>2. CASE Answer(d)
      BY <1>1, <1>3, <2>2 DEF Answer, PluginReply, browser
    <2>3. CASE Session(d)
      BY <1>1, <1>3, <2>3 DEF Session, Join, Reap, ReapFinish, TypeOK, browser
    <2> QED BY <1>5, <2>1, <2>2, <2>3
  <1>6. ASSUME NEW t \in Targets, Closes(t)
        PROVE  HiddenWhileOwned'
    BY <1>1, <1>3, <1>6 DEF Closes
  <1>7. ASSUME NEW d \in Connections, Handle(d)
        PROVE  HiddenWhileOwned'
    <2>1. PICK m \in Message :
            \/ UNCHANGED shown
            \/ m.of \in Targets /\ Show(d, m.of)
      BY <1>1, <1>7, HandleFacts DEF ClientReply, Hide, Gone
    <2>2. UNCHANGED <<conn, ctx, creator, home>> /\ conn[d] = "open"
      BY <1>7 DEF Handle
    <2>3. CASE UNCHANGED shown
      BY <1>3, <2>2, <2>3
    <2>4. ASSUME NEW t \in Targets, Show(d, t)
          PROVE  HiddenWhileOwned'
      <3>1. \A e \in Connections : shown'[e] = IF e = d THEN shown[e] \cup {t} ELSE shown[e]
        BY <1>1, <2>4 DEF Show, TypeOK
      <3>2. home[t] \in Contexts /\ creator[home[t]] # d
                => conn[creator[home[t]]] # "open" \/ ctx[home[t]] = "gone"
        <4> SUFFICES ASSUME home[t] \in Contexts, creator[home[t]] # d,
                            conn[creator[home[t]]] = "open", ctx[home[t]] # "gone"
                     PROVE  FALSE
          OBVIOUS
        <4>1. ctx[home[t]] = "live"
          BY <1>1 DEF Housed, TypeOK
        <4>2. owners[home[t]] = creator[home[t]] /\ creator[home[t]] \in Connections
          BY <1>1, <4>1 DEF Housed, Made
        <4> QED BY <2>4, <4>2, NamesAreDistinct DEF Show, OwnedElsewhere
      <3> QED BY <1>1, <2>2, <3>1, <3>2 DEF HiddenWhileOwned
    <2> QED BY <2>1, <2>3, <2>4
  <1>8. CASE UNCHANGED vars
    BY <1>3, <1>8 DEF vars, proxy, browser
  <1> QED BY <1>4, <1>5, <1>6, <1>7, <1>8 DEF Next, Ask
-----------------------------------------------------------------------------
LEMMA Start == Init => IInv
  <1> SUFFICES ASSUME Init
               PROVE  IInv
    OBVIOUS
  <1>1. \A d \in Connections : inbox[d] = <<>> /\ ToSet(inbox[d]) = {}
    BY DEF Init, ToSet
  <1>2. TypeOK
    BY DEF Init, TypeOK
  <1>3. Born = {}
    BY DEF Init, Born
  <1>4. Sound
    <2>1. \A d \in Connections : Ordered(inbox[d])
      BY <1>1 DEF Ordered
    <2>2. ASSUME NEW d \in Connections
          PROVE  Mail(d)
      BY <1>1, <1>3, <2>1 DEF Mail, Init
    <2> QED BY <1>3, <2>2, FS_EmptySet DEF Sound, Init
  <1>5. Letters
    BY <1>1 DEF Letters, Queued, Init
  <1>6. Made /\ Claimed
    BY DEF Made, Claimed, Init
  <1>7. Housed
    BY NamesAreDistinct DEF Housed, Init
  <1>8. HiddenWhileOwned /\ ClaimsEndWithConnection
    BY DEF Init, HiddenWhileOwned, ClaimsEndWithConnection
  <1> QED BY <1>2, <1>4, <1>5, <1>6, <1>7, <1>8 DEF IInv, Claims

LEMMA Inductive == Spec => []IInv
  <1>1. IInv /\ [Next]_vars => IInv'
    BY TypeStep, SoundStep, ClaimsStep, HiddenStep DEF IInv
  <1> QED BY Start, <1>1, PTL DEF Spec

(* The variables of Ownership keep their types.                             *)
THEOREM TypeSafety == Spec => []TypeOK
  <1>1. IInv => TypeOK
    BY DEF IInv
  <1> QED BY <1>1, Inductive, PTL

(* However the replies and announcements of any number of connections are   *)
(* delayed against each other, #isForeign shows no client a target of a    *)
(* context whose creator is connected and keeps it: the claim that #claim   *)
(* makes precedes every page of the context, and a page that was shown for *)
(* want of a claim is one whose creator has gone.                          *)
THEOREM Isolation == Spec => []HiddenWhileOwned
  <1>1. IInv => HiddenWhileOwned
    BY DEF IInv
  <1> QED BY <1>1, Inductive, PTL

(* #forwardBrowserMessage passes a detachedFromTarget on only for a target *)
(* whose attachedToTarget it has passed on: what arrives between the two   *)
(* never makes #isForeign forget a session too early or too late.           *)
THEOREM DetachAfterAttach == Spec => []DetachMatchesAttach
  <1>1. IInv => DetachMatchesAttach
    BY DEF IInv, Sound, Mail, DetachMatchesAttach
  <1> QED BY <1>1, Inductive, PTL

(* #foreignSessions holds a session only while the browser has it or its   *)
(* detach is waiting in the root chain.                                    *)
THEOREM ForeignDrains == Spec => []HiddenSessionsDrain
  <1>1. IInv => HiddenSessionsDrain
    BY DEF IInv, Sound, Mail, HiddenSessionsDrain
  <1> QED BY <1>1, Inductive, PTL

(* #reap leaves no claim in the shared map, except on a context that its   *)
(* own onSessionEnd hooks asked for.                                       *)
THEOREM ClaimsReleased == Spec => []ClaimsEndWithConnection
  <1>1. IInv => ClaimsEndWithConnection
    BY DEF IInv
  <1> QED BY <1>1, Inductive, PTL
================================================================================
