----------------------------- MODULE SessionsProofs -----------------------------
(***************************************************************************)
(* Theorems about Sessions for every set of tokens, slots and clients: the *)
(* ceiling, the life of a session's browser, and which browser a client is *)
(* sent to.                                                                *)
(***************************************************************************)
EXTENDS Sessions, FiniteSetTheorems, WellFoundedInduction, TLAPS

Counted == {c \in Clients : Served(c) /\ client[c].token # Anonymous}

(* The counters count, and what is counted has a record. *)
Counts ==
    /\ active = Cardinality(Counted) /\ active <= MaxConcurrent
    /\ \A t \in Tokens : connections[t] = Cardinality(Serving(t))
    /\ \A c \in Clients : Served(c) =>
           client[c].token = Anonymous \/ client[c].token \in known

(* Where the session t belongs. *)
Place(t) == IF t \in Pooled THEN Fits[t] ELSE {t}

(* How far the call of register has come, and what the pool holds for it.  *)
Held ==
    \A t \in Tokens :
        /\ call[t] = "unasked" => t \notin known
        /\ process[t] = "running" <=> t \in reserved
        /\ t \in reserved => call[t] \in {"returned", "failed"}
        /\ call[t] = "planning" => t \notin Pooled
        /\ call[t] = "reserving" => t \notin Pooled
        /\ call[t] \in {"planning", "reserving"} \/ t \in reserved =>
               t \in known \/ t \in outrun
        /\ call[t] = "returned" /\ t \in known /\ shutdown # "done" =>
               /\ sticky[t] \in Place(t)
               /\ t \notin Pooled => t \in reserved

(* What a client has been told agrees with the pool as long as its token is *)
(* good: a token that has been forgotten is never known again.             *)
Pinned(t) == IF t = Anonymous THEN Slots[1] ELSE sticky[t]

Told ==
    \A c \in Clients :
        /\ client[c].token \in Tokens => call[client[c].token] = "returned"
        /\ client[c].found # None \/ client[c].at \in {"asking", "open", "ending"}
               => client[c].token # None
        /\ shutdown = "no" /\ client[c].token \in known \cup {Anonymous} =>
               /\ client[c].at = "asking" => client[c].upstream = Pinned(client[c].token)
               /\ client[c].found # None => client[c].found = Pinned(client[c].token)
        /\ Served(c) /\ client[c].token = Anonymous => client[c].upstream \in InPool

(* Shutdown waits for the connections it found open. *)
Closing ==
    /\ shutdown # "no" => \A c \in Clients :
           client[c].at # "open" /\ (client[c].at = "ending" => c \in awaited \cup reaping)
    /\ shutdown = "done" => awaited = {}

IInv == TypeOK /\ Counts /\ Held /\ Told /\ Closing /\ PromotedIsAlone /\ DialsWhatItFound
-----------------------------------------------------------------------------
LEMMA Least ==
    ASSUME NEW S \in SUBSET Nat, S # {}
    PROVE  \E n \in S : \A m \in S : n <= m
  <1>1. PICK n \in S : \A m \in S : ~ (<<m, n>> \in OpToRel(<, Nat))
    BY NatLessThanWellFounded, WFMin
  <1>2. \A m \in S : ~ (m < n)
    BY <1>1 DEF OpToRel
  <1> QED BY <1>2

LEMMA SlotsFacts ==
    /\ Len(Slots) \in Nat \ {0} /\ DOMAIN Slots = 1..Len(Slots)
    /\ \A i \in 1..Len(Slots) : Slots[i] \in InPool
    /\ \A u \in InPool : \E i \in 1..Len(Slots) : Slots[i] = u
    /\ InPool \cap Tokens = {} /\ None \notin Upstream \cup {Anonymous} /\ Anonymous \notin Tokens
  <1>1. Len(Slots) \in Nat \ {0} /\ DOMAIN Slots = 1..Len(Slots)
    BY SessionsAssumption
  <1>2. \A i \in 1..Len(Slots) : Slots[i] \in InPool
    BY DEF InPool
  <1>3. \A u \in InPool : \E i \in 1..Len(Slots) : Slots[i] = u
    BY DEF InPool
  <1>4. InPool \cap Tokens = {} /\ None \notin Upstream \cup {Anonymous} /\ Anonymous \notin Tokens
    BY SessionsAssumption DEF Upstream
  <1> QED BY <1>1, <1>2, <1>3, <1>4

LEMMA Modulo ==
    ASSUME NEW n \in Nat \ {0}, NEW a \in Nat
    PROVE  a % n \in 0..n - 1
  OBVIOUS

(* The turn of the slot k comes when it is k - cursor places on. *)
LEMMA Turn ==
    ASSUME NEW n \in Nat \ {0}, NEW a \in 0..n - 1, NEW k \in 0..n - 1
    PROVE  \E i \in 0..n - 1 : (a + i) % n = k
  <1>1. CASE a <= k
    <2>1. (a + (k - a)) % n = k /\ k - a \in 0..n - 1
      BY <1>1
    <2> QED BY <2>1
  <1>2. CASE a > k
    <2>1. a + (k + n - a) = k + n /\ (k + n) % n = k /\ k + n - a \in 0..n - 1
      BY <1>2
    <2>2. PICK i \in 0..n - 1 : i = k + n - a
      BY <2>1
    <2> QED BY <2>1, <2>2
  <1> QED BY <1>1, <1>2

LEMMA SlotAtType ==
    ASSUME cursor \in 0..Len(Slots) - 1, NEW i \in Nat
    PROVE  SlotAt(i) \in InPool
  <1> DEFINE n == Len(Slots)
  <1>1. n \in Nat \ {0}
    BY SlotsFacts
  <1>2. SlotAt(i) = Slots[((cursor + i) % n) + 1]
    BY DEF SlotAt
  <1> HIDE DEF n
  <1>3. (cursor + i) % n \in 0..n - 1
    <2>1. cursor + i \in Nat
      BY <1>1 DEF n
    <2> QED BY <1>1, <2>1, Modulo
  <1>4. ((cursor + i) % n) + 1 \in 1..n
    BY <1>1, <1>3
  <1> QED BY <1>2, <1>4, SlotsFacts DEF n

(* place finds a slot that answers. *)
LEMMA Placed ==
    ASSUME cursor \in 0..Len(Slots) - 1, NEW t \in Pooled
    PROVE  Skipped(t) \in 0..Len(Slots) - 1 /\ SlotAt(Skipped(t)) \in Fits[t]
  <1> DEFINE S == {i \in 0..Len(Slots) - 1 : SlotAt(i) \in Fits[t]}
  <1>1. Fits[t] # {} /\ Fits[t] \subseteq InPool
    BY SessionsAssumption DEF Pooled
  <1>2. PICK k \in 1..Len(Slots) : Slots[k] \in Fits[t]
    BY <1>1, SlotsFacts
  <1>3. PICK i \in 0..Len(Slots) - 1 : (cursor + i) % Len(Slots) = k - 1
    BY SlotsFacts, Turn, k - 1 \in 0..Len(Slots) - 1
  <1>4. SlotAt(i) = Slots[k]
    BY <1>2, <1>3, SlotsFacts DEF SlotAt
  <1>5. S \in SUBSET Nat /\ S # {}
    BY <1>2, <1>4, SlotsFacts
  <1>6. PICK n \in S : \A m \in S : n <= m
    BY <1>5, Least
  <1>7. \A j \in 0..n - 1 : SlotAt(j) \notin Fits[t]
    BY <1>6, SlotsFacts
  <1>8. \E m \in 0..Len(Slots) - 1 :
            SlotAt(m) \in Fits[t] /\ \A j \in 0..m - 1 : SlotAt(j) \notin Fits[t]
    BY <1>6, <1>7
  <1> QED BY <1>8 DEF Skipped

LEMMA UpstreamType ==
    ASSUME TypeOK, NEW t \in Tokens \cup {Anonymous}
    PROVE  /\ UpstreamFor(t) \in Upstream
           /\ Pin(t) => sticky' \in [Tokens -> Upstream \cup {None}] /\ cursor' \in 0..Len(Slots) - 1
  <1>1. SlotAt(0) \in InPool /\ Slots[1] \in InPool
    BY SlotAtType, SlotsFacts DEF TypeOK
  <1>2. (cursor + 1) % Len(Slots) \in 0..Len(Slots) - 1
    <2>1. cursor + 1 \in Nat
      BY SlotsFacts DEF TypeOK
    <2> QED BY <2>1, SlotsFacts, Modulo
  <1> QED BY <1>1, <1>2 DEF UpstreamFor, Pin, TypeOK, Upstream

Record == [at : {"new", "asking", "open", "ending", "gone"}, token : Tokens \cup {None, Anonymous},
           upstream : Upstream \cup {None}, found : Upstream \cup {None}]

(* One client is updated. *)
LEMMA Updated ==
    ASSUME TypeOK, NEW c \in Clients, NEW r \in Record, client' = [client EXCEPT ![c] = r]
    PROVE  /\ client' \in [Clients -> Record]
           /\ client'[c] = r /\ \A k \in Clients \ {c} : client'[k] = client[k]
  BY DEF TypeOK, Record

LEMMA Records ==
    ASSUME TypeOK, NEW c \in Clients
    PROVE  /\ client[c] \in Record /\ Left("gone") \in Record
           /\ \A t \in Tokens \cup {Anonymous}, u \in Upstream :
                  /\ [client[c] EXCEPT !.at = "asking", !.token = t, !.upstream = u] \in Record
                  /\ [client[c] EXCEPT !.at = "open", !.token = t, !.upstream = u] \in Record
           /\ [client[c] EXCEPT !.at = "ending"] \in Record
           /\ \A u \in Upstream \cup {None} : [client[c] EXCEPT !.at = "new", !.found = u] \in Record
  BY DEF TypeOK, Record, Left

LEMMA TypeStep == TypeOK /\ Held /\ [Next]_vars => TypeOK'
  <1> SUFFICES ASSUME TypeOK, Held, [Next]_vars
               PROVE  TypeOK'
    OBVIOUS
  <1>1. ASSUME NEW t \in Tokens, Register(t)
        PROVE  TypeOK'
    <2>1. cursor' \in 0..Len(Slots) - 1 /\ sticky' \in [Tokens -> Upstream \cup {None}]
      <3>1. CASE t \in Pooled /\ call'[t] = "returned"
        <4>1. Skipped(t) \in Nat /\ SlotAt(Skipped(t)) \in InPool
          BY <3>1, Placed, SlotAtType, SlotsFacts DEF TypeOK
        <4>2. cursor + Skipped(t) + 1 \in Nat
          BY <4>1, SlotsFacts DEF TypeOK
        <4>3. (cursor + Skipped(t) + 1) % Len(Slots) \in 0..Len(Slots) - 1
          BY <4>2, SlotsFacts, Modulo
        <4>4. /\ sticky' = [r \in Tokens |-> IF r \in Expired THEN None
                                             ELSE [sticky EXCEPT ![t] = SlotAt(Skipped(t))][r]]
              /\ cursor' = (cursor + Skipped(t) + 1) % Len(Slots)
          BY <1>1, <3>1 DEF Register, ReleaseToken, TypeOK
        <4> QED BY <4>1, <4>3, <4>4 DEF TypeOK, Upstream
      <3>2. CASE ~(t \in Pooled /\ call'[t] = "returned")
        BY <1>1, <3>2 DEF Register, ReleaseToken, TypeOK
      <3> QED BY <3>1, <3>2
    <2>2. process' \in [Tokens -> {"none", "starting", "running", "closing", "gone"}]
          /\ reserved' \subseteq {r \in Tokens : process'[r] = "running"}
          /\ call' \in [Tokens -> {"unasked", "planning", "reserving", "returned", "failed"}]
      BY <1>1 DEF Register, ReleaseToken, TypeOK
    <2>3. known' \subseteq Tokens /\ outrun' \subseteq Tokens
      BY <1>1 DEF Register, Enrol, TypeOK, Expired
    <2> QED BY <1>1, <2>1, <2>2, <2>3 DEF Register, TypeOK
  <1>2. ASSUME NEW t \in Tokens, RefuseRegistration(t) \/ Age(t)
        PROVE  TypeOK'
    BY <1>2 DEF RefuseRegistration, Age, TypeOK, registry, pool
  <1>3. ASSUME NEW t \in Tokens, Plan(t) \/ Reserve(t) \/ Exit(t)
        PROVE  TypeOK'
    <2>1. UNCHANGED <<registry, cursor, client, awaited, reaping, outrun, shutdown>>
      BY <1>3 DEF Plan, Reserve, Exit
    <2>2. /\ process' \in [Tokens -> {"none", "starting", "running", "closing", "gone"}]
          /\ call' \in [Tokens -> {"unasked", "planning", "reserving", "returned", "failed"}]
          /\ sticky' \in [Tokens -> Upstream \cup {None}]
      BY <1>3 DEF Plan, Reserve, Exit, TypeOK, Upstream
    <2>3. reserved' \subseteq {r \in Tokens : process'[r] = "running"}
      BY <1>3 DEF Plan, Reserve, Exit, TypeOK, Held
    <2> QED BY <2>1, <2>2, <2>3 DEF TypeOK, registry
  <1>4. ASSUME NEW c \in Clients, NEW t \in Tokens \cup {Anonymous}, Discover(c, t)
        PROVE  TypeOK'
    <2>1. client' \in [Clients -> Record]
      BY <1>4, UpstreamType, Records, Updated DEF Discover
    <2> QED BY <1>4, <2>1, UpstreamType DEF Discover, TypeOK, registry, Record
  <1>5. ASSUME NEW c \in Clients, NEW t \in Tokens \cup {Anonymous}, Connect(c, t)
        PROVE  TypeOK'
    <2>1. CASE Refuse(c, t)
      <3>1. client' \in [Clients -> Record]
        BY <2>1, Records, Updated DEF Refuse
      <3> QED BY <1>5, <2>1, <3>1 DEF Connect, Refuse, ReleaseToken, Expired, TypeOK, Record
    <2>2. CASE ~ Refuse(c, t)
      <3>1. /\ Accept(c, t) \/ AcceptAnonymous(t)
            /\ client' = [client EXCEPT ![c] =
                              [@ EXCEPT !.at = "open", !.token = t, !.upstream = UpstreamFor(t)]]
            /\ sticky' \in [Tokens -> Upstream \cup {None}] /\ cursor' \in 0..Len(Slots) - 1
            /\ UNCHANGED <<old, call, awaited, reaping, outrun, shutdown>>
        BY <1>5, <2>2, UpstreamType DEF Connect, OnSocket
      <3>2. client' \in [Clients -> Record]
        BY <3>1, UpstreamType, Records, Updated
      <3>3. known' \subseteq Tokens /\ connections' \in [Tokens -> Nat] /\ active' \in Nat
            /\ UNCHANGED <<reserved, process>>
        BY <3>1 DEF Accept, AcceptAnonymous, TypeOK
      <3> QED BY <3>1, <3>2, <3>3 DEF TypeOK, Record
    <2> QED BY <2>1, <2>2
  <1>6. ASSUME NEW c \in Clients, NotFound(c) \/ Drop(c)
        PROVE  TypeOK'
    <2>1. client' \in [Clients -> Record]
      BY <1>6, Records, Updated DEF NotFound, Drop
    <2> QED BY <1>6, <2>1 DEF NotFound, Drop, TypeOK, registry, pool, Record
  <1>7. ASSUME NEW c \in Clients, Discovered(c)
        PROVE  TypeOK'
    <2>1. client' \in [Clients -> Record]
      <3>1. PICK u \in Upstream \cup {None} :
               client' = [client EXCEPT ![c] = [@ EXCEPT !.at = "new", !.found = u]]
        <4>1. client[c].found \in Upstream \cup {None} /\ client[c].upstream \in Upstream \cup {None}
          BY DEF TypeOK
        <4>2. PICK u \in {client[c].found} \cup {v \in {client[c].upstream} : Up(v)} :
                client' = [client EXCEPT ![c] = [@ EXCEPT !.at = "new", !.found = u]]
          BY <1>7 DEF Discovered
        <4> QED BY <4>1, <4>2
      <3> QED BY <3>1, Records, Updated
    <2> QED BY <1>7, <2>1 DEF Discovered, TypeOK, registry, pool, Record
  <1>8. ASSUME NEW c \in Clients, Closed(c)
        PROVE  TypeOK'
    <2>1. /\ client' = [client EXCEPT ![c] = Left("gone")] /\ awaited' = awaited \ {c}
          /\ Release(client[c].token) /\ UNCHANGED <<cursor, old, call, reaping, outrun, shutdown>>
      BY <1>8 DEF Closed
    <2>4. client' \in [Clients -> Record]
      BY <2>1, Records, Updated
    <2>2. CASE client[c].token \in known
      <3> DEFINE t == client[c].token
      <3>1. /\ active' \in Nat /\ connections' \in [Tokens -> Nat] /\ known' \subseteq known
            /\ ReleaseToken(known \ known', sticky)
        <4>1. /\ active' = (IF active = 0 THEN 0 ELSE active - 1)
              /\ connections' = [connections EXCEPT ![t] = IF @ = 0 THEN 0 ELSE @ - 1]
              /\ known' = (IF connections'[t] = 0 THEN known \ {t} ELSE known)
              /\ ReleaseToken(known \ known', sticky)
          BY <2>1, <2>2 DEF Release
        <4> HIDE DEF t
        <4>2. active' \in Nat
          BY <4>1 DEF TypeOK
        <4>3. connections' \in [Tokens -> Nat]
          <5>1. connections \in [Tokens -> Nat] /\ t \in Tokens
            BY <2>2 DEF TypeOK, t
          <5> DEFINE n == IF connections[t] = 0 THEN 0 ELSE connections[t] - 1
          <5>2. n \in Nat /\ connections' = [connections EXCEPT ![t] = n]
            BY <4>1, <5>1
          <5> HIDE DEF n
          <5> QED BY <5>1, <5>2
        <4>4. known' \subseteq known
          BY <4>1
        <4> QED BY <4>1, <4>2, <4>3, <4>4
      <3> HIDE DEF t
      <3>2. /\ sticky' \in [Tokens -> Upstream \cup {None}]
            /\ process' \in [Tokens -> {"none", "starting", "running", "closing", "gone"}]
            /\ reserved' \subseteq {r \in Tokens : process'[r] = "running"}
        BY <3>1 DEF ReleaseToken, TypeOK
      <3> QED BY <2>1, <2>4, <3>1, <3>2 DEF TypeOK, Record
    <2>3. CASE client[c].token \notin known
      BY <2>1, <2>3, <2>4 DEF Release, TypeOK, Record
    <2> QED BY <2>2, <2>3
  <1>9. CASE ShutDown
    BY <1>9 DEF ShutDown, TypeOK, registry, pool
  <1>10. CASE ClosePool
    BY <1>10 DEF ClosePool, TypeOK, registry
  <1>11. CASE UNCHANGED vars
    BY <1>11 DEF vars, registry, pool, TypeOK
  <1> QED BY <1>1, <1>2, <1>3, <1>4, <1>5, <1>6, <1>7, <1>8, <1>9, <1>10, <1>11
             DEF Next, Session, Client, Route
-----------------------------------------------------------------------------
LEMMA FiniteClients ==
    IsFiniteSet(Counted) /\ \A t : IsFiniteSet(Serving(t))
  <1>1. Counted \in SUBSET Clients /\ \A t : Serving(t) \in SUBSET Clients
    BY DEF Counted, Serving
  <1> QED BY <1>1, FS_Subset, SessionsAssumption

(* A token that expires, or has no connection, serves nobody. *)
LEMMA UnusedServesNobody ==
    ASSUME Counts, NEW t \in Tokens, connections[t] = 0
    PROVE  \A c \in Clients : Served(c) => client[c].token # t
  <1>1. Serving(t) = {}
    BY FS_EmptySet, FiniteClients DEF Counts
  <1> QED BY <1>1 DEF Serving

(* A step that begins and ends no connection. *)
LEMMA CountsKept ==
    ASSUME TypeOK, Counts, UNCHANGED <<connections, active>>,
           \A c \in Clients : /\ Served(c)' => Served(c) /\ client'[c].token = client[c].token
                              /\ Served(c) => Served(c)' /\ client'[c].token = client[c].token,
           \A t \in known \ known' : connections[t] = 0
    PROVE  Counts'
  <1>1. Counted' = Counted /\ \A t : Serving(t)' = Serving(t)
    BY DEF Counted, Serving
  <1>2. \A c \in Clients : Served(c) => client[c].token = Anonymous \/ client[c].token \in known'
    BY UnusedServesNobody DEF Counts, TypeOK
  <1> QED BY <1>1, <1>2 DEF Counts

LEMMA CountsStep == TypeOK /\ Counts /\ Told /\ [Next]_vars => Counts'
  <1> SUFFICES ASSUME TypeOK, Counts, Told, [Next]_vars
               PROVE  Counts'
    OBVIOUS
  <1>1. CASE UNCHANGED <<connections, active, client, known>>
    BY <1>1, CountsKept DEF Served
  <1>2. ASSUME NEW t \in Tokens, Session(t)
        PROVE  Counts'
    <2>1. CASE Register(t)
      BY <2>1, CountsKept DEF Register, Enrol, Expired, Served
    <2> QED BY <1>1, <1>2, <2>1 DEF Session, RefuseRegistration, Plan, Reserve, Age, Exit, registry
  <1>3. CASE ShutDown
    BY <1>3, CountsKept DEF ShutDown, Served, TypeOK, registry
  <1>4. CASE ClosePool
    BY <1>1, <1>4 DEF ClosePool, registry
  <1>5. ASSUME NEW c \in Clients, Discovered(c) \/ NotFound(c) \/ Drop(c)
        PROVE  Counts'
    <2>1. UNCHANGED <<connections, active, known>>
      BY <1>5 DEF Discovered, NotFound, Drop, registry
    <2>2. \A k \in Clients : /\ Served(k)' => Served(k) /\ client'[k].token = client[k].token
                             /\ Served(k) => Served(k)' /\ client'[k].token = client[k].token
      <3>1. \A k \in Clients \ {c} : client'[k] = client[k]
        BY <1>5 DEF Discovered, NotFound, Drop, TypeOK
      <3>2. CASE Drop(c)
        <4>1. /\ client[c].at = "open" /\ client'[c].at = "ending"
              /\ client'[c].token = client[c].token
          BY <3>2 DEF Drop, TypeOK
        <4> QED BY <3>1, <4>1 DEF Served
      <3>3. CASE Discovered(c)
        <4>1. client[c].at = "asking" /\ client'[c].at = "new"
          BY <3>3 DEF Discovered, TypeOK
        <4> QED BY <3>1, <4>1 DEF Served
      <3>4. CASE NotFound(c)
        <4>1. client[c].at = "new" /\ client'[c].at = "gone"
          BY <3>4 DEF NotFound, TypeOK, Left
        <4> QED BY <3>1, <4>1 DEF Served
      <3> QED BY <1>5, <3>2, <3>3, <3>4
    <2> QED BY <2>1, <2>2, CountsKept
  <1>6. ASSUME NEW c \in Clients, NEW t \in Tokens \cup {Anonymous}, Discover(c, t)
        PROVE  Counts'
    BY <1>6, CountsKept DEF Discover, Carries, Served, TypeOK, registry
  <1>7. ASSUME NEW c \in Clients, NEW t \in Tokens \cup {Anonymous}, Connect(c, t)
        PROVE  Counts'
    <2>1. client[c].at = "new"
      BY <1>7 DEF Connect, Carries
    <2>2. CASE Refuse(c, t)
      BY <2>1, <2>2, CountsKept DEF Refuse, Expired, Served, TypeOK, Left
    <2>3. CASE ~ Refuse(c, t)
      <3>1. /\ Accept(c, t) \/ AcceptAnonymous(t)
            /\ client' = [client EXCEPT ![c] =
                              [@ EXCEPT !.at = "open", !.token = t, !.upstream = UpstreamFor(t)]]
        BY <1>7, <2>3 DEF Connect, OnSocket
      <3>2. /\ client'[c].at = "open" /\ client'[c].token = t
            /\ \A k \in Clients \ {c} : client'[k] = client[k]
        BY <3>1 DEF TypeOK
      <3>3. /\ Served(c)' /\ ~ Served(c)
            /\ \A k \in Clients \ {c} : Served(k)' <=> Served(k)
        BY <2>1, <3>2 DEF Served
      <3>4. CASE AcceptAnonymous(t)
        <4>1. Counted' = Counted /\ \A s \in Tokens : Serving(s)' = Serving(s)
          BY <3>2, <3>3, <3>4, SlotsFacts DEF Counted, Serving, AcceptAnonymous
        <4> QED BY <3>2, <3>3, <3>4, <4>1 DEF Counts, AcceptAnonymous
      <3>5. CASE Accept(c, t)
        <4>1. /\ t \in known /\ t \in Tokens /\ active < MaxConcurrent /\ t # Anonymous
              /\ active' = active + 1 /\ known' = known
              /\ connections' = [connections EXCEPT ![t] = @ + 1]
          BY <3>5, SlotsFacts DEF Accept, TypeOK
        <4>2. c \notin Counted /\ Counted' = Counted \cup {c}
          BY <3>2, <3>3, <4>1 DEF Counted
        <4>3. c \notin Serving(t) /\ Serving(t)' = Serving(t) \cup {c}
              /\ \A s \in Tokens \ {t} : Serving(s)' = Serving(s)
          BY <3>2, <3>3, <4>1 DEF Serving
        <4>4. Cardinality(Counted') = active + 1
          BY <4>2, FS_AddElement, FiniteClients DEF Counts
        <4>5. Cardinality(Serving(t)') = connections[t] + 1
          BY <4>1, <4>3, FS_AddElement, FiniteClients DEF Counts
        <4>6. \A s \in Tokens : connections'[s] = Cardinality(Serving(s)')
          BY <4>1, <4>3, <4>5 DEF Counts, TypeOK
        <4>7. active' <= MaxConcurrent
          BY <4>1, SessionsAssumption DEF TypeOK
        <4>8. \A k \in Clients : Served(k)' =>
                 client'[k].token = Anonymous \/ client'[k].token \in known'
          BY <3>2, <3>3, <4>1 DEF Counts
        <4> QED BY <4>1, <4>4, <4>6, <4>7, <4>8 DEF Counts
      <3> QED BY <3>1, <3>4, <3>5
    <2> QED BY <2>2, <2>3
  <1>8. ASSUME NEW c \in Clients, Closed(c)
        PROVE  Counts'
    <2>0. PICK t \in Tokens \cup {None, Anonymous} : t = client[c].token
      BY DEF TypeOK
    <2>1. /\ client[c].at = "ending" /\ client' = [client EXCEPT ![c] = Left("gone")]
          /\ Release(t)
      BY <1>8, <2>0 DEF Closed
    <2>2. /\ ~ Served(c)' /\ Served(c)
          /\ \A k \in Clients \ {c} : client'[k] = client[k] /\ (Served(k)' <=> Served(k))
      BY <2>1 DEF Served, TypeOK, Left
    <2>3. CASE t = Anonymous
      <3>1. t \notin known
        BY <2>3, SlotsFacts DEF TypeOK
      <3>2. UNCHANGED <<known, connections, active>>
        BY <2>1, <3>1 DEF Release
      <3>3. Counted' = Counted
        BY <2>0, <2>2, <2>3 DEF Counted
      <3>4. ASSUME NEW s \in Tokens PROVE Serving(s)' = Serving(s)
        <4>1. client[c].token # s
          BY <2>0, <2>3, SlotsFacts
        <4> QED BY <2>2, <4>1 DEF Serving
      <3> QED BY <2>2, <3>2, <3>3, <3>4 DEF Counts
    <2>4. CASE t # Anonymous
      <3>1. t \in known /\ t \in Tokens
        BY <2>0, <2>2, <2>4 DEF Counts, TypeOK
      <3>2. c \in Counted /\ Counted' = Counted \ {c}
        BY <2>0, <2>2, <2>4 DEF Counted
      <3>3. c \in Serving(t) /\ Serving(t)' = Serving(t) \ {c}
            /\ \A s \in Tokens \ {t} : Serving(s)' = Serving(s)
        BY <2>0, <2>2 DEF Serving
      <3>4. Cardinality(Counted') = active - 1
        BY <3>2, FS_RemoveElement, FiniteClients DEF Counts
      <3>5. Cardinality(Serving(t)') = connections[t] - 1
        BY <3>1, <3>3, FS_RemoveElement, FiniteClients DEF Counts
      <3>6. Cardinality(Counted') \in Nat /\ Cardinality(Serving(t)') \in Nat
        BY <3>2, <3>3, FS_RemoveElement, FS_CardinalityType, FiniteClients
      <3>7. active' = active - 1
        BY <2>1, <3>1, <3>4, <3>6 DEF Release, TypeOK
      <3>8. connections' = [connections EXCEPT ![t] = connections[t] - 1]
        BY <2>1, <3>1, <3>5, <3>6 DEF Release, TypeOK
      <3>9. known' = IF connections'[t] = 0 THEN known \ {t} ELSE known
        BY <2>1, <3>1 DEF Release
      <3>10. \A s \in Tokens : connections'[s] = Cardinality(Serving(s)')
        BY <3>1, <3>3, <3>5, <3>8 DEF Counts, TypeOK
      <3>11. \A k \in Clients : Served(k)' =>
                 client'[k].token = Anonymous \/ client'[k].token \in known'
        <4>1. CASE connections'[t] = 0
          <5>1. Serving(t)' = {}
            BY <3>1, <3>3, <3>10, <4>1, FS_EmptySet, FS_RemoveElement, FiniteClients
          <5>2. \A k \in Clients : Served(k)' => client'[k].token # t
            BY <5>1 DEF Serving
          <5> QED BY <2>2, <3>9, <4>1, <5>2 DEF Counts
        <4>2. CASE connections'[t] # 0
          BY <2>2, <3>9, <4>2 DEF Counts
        <4> QED BY <4>1, <4>2
      <3>12. active' <= MaxConcurrent
        BY <3>7, SessionsAssumption DEF Counts, TypeOK
      <3> QED BY <3>4, <3>7, <3>10, <3>11, <3>12 DEF Counts
    <2> QED BY <2>3, <2>4
  <1>9. CASE UNCHANGED vars
    BY <1>1, <1>9 DEF vars, registry
  <1> QED BY <1>2, <1>3, <1>4, <1>5, <1>6, <1>7, <1>8, <1>9 DEF Next, Client, Route
-----------------------------------------------------------------------------
(* The tokens T are forgotten. *)
LEMMA HeldReleased ==
    ASSUME TypeOK, Held, NEW T \in SUBSET known, known' = known \ T,
           \A t \in T : call[t] = "returned",
           ReleaseToken(T, sticky), UNCHANGED <<call, outrun, shutdown>>
    PROVE  Held'
  <1>1. \A t \in Tokens :
          /\ process'[t] = IF t \in T \cap reserved THEN "closing" ELSE process[t]
          /\ sticky'[t] = IF t \in T THEN None ELSE sticky[t]
    BY DEF ReleaseToken
  <1>2. reserved' = reserved \ T
    BY DEF ReleaseToken
  <1>3. \A t \in Tokens : Place(t)' = Place(t)
    BY DEF Place
  <1> QED BY <1>1, <1>2, <1>3 DEF Held

LEMMA HeldStep == TypeOK /\ Held /\ Told /\ [Next]_vars => Held'
  <1> SUFFICES ASSUME TypeOK, Held, Told, [Next]_vars
               PROVE  Held'
    OBVIOUS
  <1>1. CASE UNCHANGED <<known, call, process, reserved, outrun, sticky, shutdown>>
    BY <1>1 DEF Held, Place
  <1>2. ASSUME NEW t \in Tokens, Register(t)
        PROVE  Held'
    <2>1. /\ call[t] = "unasked" /\ t \notin known /\ t \notin reserved
          /\ known' = (known \ Expired) \cup {t} /\ shutdown' = shutdown
          /\ outrun' = outrun \cup {r \in Expired : call[r] \in {"planning", "reserving"}}
      BY <1>2 DEF Register, Enrol, Held
    <2>2. Expired \subseteq known
      BY DEF Expired
    <2>3. reserved' = reserved \ Expired
          /\ \A r \in Tokens : process'[r] = IF r \in Expired \cap reserved THEN "closing" ELSE process[r]
      BY <1>2 DEF Register, ReleaseToken
    <2>4. /\ \A r \in Tokens \ {t} : sticky'[r] = IF r \in Expired THEN None ELSE sticky[r]
          /\ \A r \in Tokens \ {t} : call'[r] = call[r]
          /\ call'[t] = "returned" => t \in Pooled /\ sticky'[t] \in Fits[t]
          /\ call'[t] \notin {"returned", "failed"} => t \notin Pooled /\ call'[t] = "planning"
      <3>1. CASE t \in Pooled /\ call'[t] = "returned"
        <4>1. SlotAt(Skipped(t)) \in Fits[t]
          BY <3>1, Placed DEF TypeOK
        <4>2. /\ sticky' = [r \in Tokens |-> IF r \in Expired THEN None
                                             ELSE [sticky EXCEPT ![t] = SlotAt(Skipped(t))][r]]
              /\ call' = [call EXCEPT ![t] = "returned"]
          BY <1>2, <3>1 DEF Register, ReleaseToken, TypeOK
        <4> QED BY <2>1, <2>2, <3>1, <4>1, <4>2 DEF TypeOK
      <3>2. CASE ~(t \in Pooled /\ call'[t] = "returned")
        <4>1. /\ sticky' = [r \in Tokens |-> IF r \in Expired THEN None ELSE sticky[r]]
              /\ \/ t \notin Pooled /\ call' = [call EXCEPT ![t] = "planning"]
                 \/ call' = [call EXCEPT ![t] = "failed"]
          BY <1>2, <3>2 DEF Register, ReleaseToken, TypeOK
        <4> QED BY <3>2, <4>1 DEF TypeOK
      <3> QED BY <3>1, <3>2
    <2> HIDE DEF Expired
    <2>5. /\ call'[t] # "unasked" /\ process'[t] = process[t] /\ t \notin reserved'
          /\ process[t] # "running" /\ t \in known'
          /\ call'[t] = "returned" => t \in Pooled /\ sticky'[t] \in Place(t)
          /\ call'[t] \in {"planning", "reserving"} => t \notin Pooled
      BY <2>1, <2>2, <2>3, <2>4 DEF Held, Place
    <2>6. ASSUME NEW r \in Tokens
          PROVE  /\ call'[r] = "unasked" => r \notin known'
                 /\ process'[r] = "running" <=> r \in reserved'
                 /\ r \in reserved' => call'[r] \in {"returned", "failed"}
                 /\ call'[r] = "planning" => r \notin Pooled
                 /\ call'[r] = "reserving" => r \notin Pooled
                 /\ call'[r] \in {"planning", "reserving"} \/ r \in reserved' =>
                        r \in known' \/ r \in outrun'
                 /\ call'[r] = "returned" /\ r \in known' /\ shutdown' # "done" =>
                        /\ sticky'[r] \in Place(r)
                        /\ r \notin Pooled => r \in reserved'
      <3>1. CASE r = t
        BY <2>5, <3>1
      <3>2. CASE r # t
        BY <2>1, <2>2, <2>3, <2>4, <3>2 DEF Held
      <3> QED BY <3>1, <3>2
    <2> QED BY <2>6 DEF Held, Place
  <1>3. ASSUME NEW t \in Tokens, RefuseRegistration(t)
        PROVE  Held'
    BY <1>3 DEF RefuseRegistration, registry, pool, Held, Place, TypeOK
  <1>4. ASSUME NEW t \in Tokens, Plan(t)
        PROVE  Held'
    BY <1>4 DEF Plan, registry, Held, Place, TypeOK
  <1>5. ASSUME NEW t \in Tokens, Reserve(t)
        PROVE  Held'
    BY <1>5 DEF Reserve, registry, Held, Place, TypeOK
  <1>6. ASSUME NEW t \in Tokens, Age(t)
        PROVE  Held'
    BY <1>1, <1>6 DEF Age, pool
  <1>7. ASSUME NEW t \in Tokens, Exit(t)
        PROVE  Held'
    BY <1>7 DEF Exit, registry, Held, Place, TypeOK
  <1>8. ASSUME NEW c \in Clients, NEW t \in Tokens \cup {Anonymous}, Carries(c, t), Pin(t),
               UNCHANGED <<known, call, process, reserved, outrun, shutdown>>
        PROVE  Held'
    <2>1. \A r \in Tokens : r # t \/ sticky[r] # None => sticky'[r] = sticky[r]
      BY <1>8 DEF Pin, TypeOK
    <2>2. \A r \in Tokens : None \notin Place(r)
      BY SlotsFacts, SessionsAssumption DEF Place, Upstream
    <2>3. \A r \in Tokens : sticky[r] \in Place(r) => sticky'[r] = sticky[r]
      BY <1>8, <2>1, <2>2 DEF Pin
    <2>4. \A r \in Tokens : Place(r)' = Place(r)
      BY DEF Place
    <2> QED BY <1>8, <2>3, <2>4 DEF Held
  <1>9. ASSUME NEW c \in Clients, NEW t \in Tokens \cup {Anonymous}, Discover(c, t)
        PROVE  Held'
    BY <1>8, <1>9 DEF Discover, registry
  <1>10. ASSUME NEW c \in Clients, NEW t \in Tokens \cup {Anonymous}, Connect(c, t)
         PROVE  Held'
    <2>1. CASE Refuse(c, t)
      <3>1. Expired \cap {t} \in SUBSET known /\ known' = known \ (Expired \cap {t})
        BY <2>1 DEF Refuse, Expired
      <3>2. \A r \in Expired \cap {t} : call[r] = "returned"
        BY <1>10, SlotsFacts DEF Connect, Carries, Expired, TypeOK
      <3> QED BY <1>10, <2>1, <3>1, <3>2, HeldReleased DEF Connect, Refuse
    <2>2. CASE (Accept(c, t) \/ AcceptAnonymous(t)) /\ Pin(t)
      BY <1>8, <1>10, <2>2 DEF Connect, Accept, AcceptAnonymous
    <2> QED BY <1>10, <2>1, <2>2 DEF Connect, OnSocket
  <1>11. ASSUME NEW c \in Clients, Discovered(c) \/ NotFound(c) \/ Drop(c)
         PROVE  Held'
    BY <1>1, <1>11 DEF Discovered, NotFound, Drop, registry, pool
  <1>12. ASSUME NEW c \in Clients, Closed(c)
         PROVE  Held'
    <2>1. Release(client[c].token) /\ UNCHANGED <<call, outrun, shutdown>>
      BY <1>12 DEF Closed
    <2>2. CASE client[c].token \notin known
      BY <1>1, <2>1, <2>2 DEF Release
    <2>3. CASE client[c].token \in known
      <3>1. known' \subseteq known /\ ReleaseToken(known \ known', sticky)
            /\ \A r \in known \ known' : call[r] = "returned"
        BY <2>1, <2>3 DEF Release, Told, TypeOK
      <3>2. known' = known \ (known \ known') /\ known \ known' \in SUBSET known
        BY <3>1
      <3> QED BY <2>1, <3>1, <3>2, HeldReleased
    <2> QED BY <2>2, <2>3
  <1>13. CASE ShutDown
    BY <1>13 DEF ShutDown, registry, pool, Held, Place
  <1>14. CASE ClosePool
    BY <1>14 DEF ClosePool, registry, Held, Place, TypeOK
  <1>15. CASE UNCHANGED vars
    BY <1>1, <1>15 DEF vars, registry, pool
  <1> QED BY <1>2, <1>3, <1>4, <1>5, <1>6, <1>7, <1>9, <1>10, <1>11, <1>12, <1>13, <1>14, <1>15
             DEF Next, Session, Client, Route
-----------------------------------------------------------------------------
(* A session that has been registered keeps its pin as long as it is known, *)
(* and is never known again.                                               *)
LEMMA Stable ==
    ASSUME TypeOK, Held, [Next]_vars,
           NEW r \in Tokens, call[r] = "returned"
    PROVE  /\ call'[r] = "returned"
           /\ r \in known' => r \in known
           /\ shutdown' = "no" => shutdown = "no"
           /\ r \in known' /\ shutdown' = "no" => sticky'[r] = sticky[r]
  <1> DEFINE Goal == /\ call'[r] = "returned"
                     /\ r \in known' => r \in known
                     /\ shutdown' = "no" => shutdown = "no"
                     /\ r \in known' /\ shutdown' = "no" => sticky'[r] = sticky[r]
  <1> SUFFICES Goal
    OBVIOUS
  <1>1. CASE UNCHANGED <<call, known, shutdown, sticky>>
    BY <1>1
  <1>2. ASSUME NEW t \in Tokens, Register(t)
        PROVE  Goal
    <2>1. t # r /\ known' = (known \ Expired) \cup {t} /\ shutdown' = shutdown
      BY <1>2 DEF Register, Enrol
    <2>2. /\ \/ sticky' = [k \in Tokens |-> IF k \in Expired THEN None
                                             ELSE [sticky EXCEPT ![t] = SlotAt(Skipped(t))][k]]
             \/ sticky' = [k \in Tokens |-> IF k \in Expired THEN None ELSE sticky[k]]
          /\ \E w \in {"returned", "planning", "failed"} : call' = [call EXCEPT ![t] = w]
      BY <1>2 DEF Register, ReleaseToken
    <2> QED BY <2>1, <2>2 DEF TypeOK
  <1>3. ASSUME NEW t \in Tokens,
               RefuseRegistration(t) \/ Plan(t) \/ Reserve(t) \/ Age(t) \/ Exit(t)
        PROVE  Goal
    BY <1>3 DEF RefuseRegistration, Plan, Reserve, Age, Exit, registry, pool, TypeOK
  <1>4. ASSUME NEW T \in SUBSET known, known' = known \ T, ReleaseToken(T, sticky),
               UNCHANGED <<call, shutdown>>
        PROVE  Goal
    BY <1>4 DEF ReleaseToken
  <1>5. ASSUME NEW t \in Tokens \cup {Anonymous}, Pin(t), UNCHANGED <<call, known, shutdown>>
        PROVE  Goal
    <2>1. r # t \/ sticky[r] # None => sticky'[r] = sticky[r]
      BY <1>5 DEF Pin, TypeOK
    <2>2. r \in known /\ shutdown = "no" => sticky[r] # None
      <3>1. None \notin Place(r)
        BY SlotsFacts, SessionsAssumption DEF Place, Upstream
      <3> QED BY <3>1 DEF Held
    <2> QED BY <1>5, <2>1, <2>2
  <1>6. ASSUME NEW c \in Clients, NEW t \in Tokens \cup {Anonymous}, Discover(c, t) \/ Connect(c, t)
        PROVE  Goal
    <2>1. CASE Discover(c, t)
      BY <1>5, <2>1 DEF Discover, registry
    <2>2. CASE Connect(c, t)
      <3>1. CASE Refuse(c, t)
        <4>1. Expired \cap {t} \in SUBSET known /\ known' = known \ (Expired \cap {t})
          BY <3>1 DEF Refuse, Expired
        <4> QED BY <1>4, <2>2, <3>1, <4>1 DEF Connect, Refuse
      <3>2. CASE (Accept(c, t) \/ AcceptAnonymous(t)) /\ Pin(t)
        BY <1>5, <2>2, <3>2 DEF Connect, Accept, AcceptAnonymous
      <3> QED BY <2>2, <3>1, <3>2 DEF Connect, OnSocket
    <2> QED BY <1>6, <2>1, <2>2
  <1>7. ASSUME NEW c \in Clients, Discovered(c) \/ NotFound(c) \/ Drop(c)
        PROVE  Goal
    BY <1>1, <1>7 DEF Discovered, NotFound, Drop, registry, pool
  <1>8. ASSUME NEW c \in Clients, Closed(c)
        PROVE  Goal
    <2>1. Release(client[c].token) /\ UNCHANGED <<call, shutdown>>
      BY <1>8 DEF Closed
    <2>2. CASE client[c].token \notin known
      BY <1>1, <2>1, <2>2 DEF Release
    <2>3. CASE client[c].token \in known
      <3>1. known' \subseteq known /\ ReleaseToken(known \ known', sticky)
        BY <2>1, <2>3 DEF Release
      <3>2. known' = known \ (known \ known') /\ known \ known' \in SUBSET known
        BY <3>1
      <3> QED BY <1>4, <2>1, <3>1, <3>2
    <2> QED BY <2>2, <2>3
  <1>9. CASE ShutDown
    BY <1>9 DEF ShutDown, registry, pool
  <1>10. CASE ClosePool
    BY <1>10 DEF ClosePool, registry
  <1>11. CASE UNCHANGED vars
    BY <1>1, <1>11 DEF vars, registry, pool
  <1> HIDE DEF Goal
  <1> QED BY <1>2, <1>3, <1>6, <1>7, <1>8, <1>9, <1>10, <1>11 DEF Next, Session, Client, Route

(* What is true of the record r of one client. *)
Honest(r) ==
    /\ r.token \in Tokens => call[r.token] = "returned"
    /\ r.found # None \/ r.at \in {"asking", "open", "ending"} => r.token # None
    /\ shutdown = "no" /\ r.token \in known \cup {Anonymous} =>
           /\ r.at = "asking" => r.upstream = Pinned(r.token)
           /\ r.found # None => r.found = Pinned(r.token)
    /\ r.at \in {"open", "ending"} /\ r.token = Anonymous => r.upstream \in InPool

LEMMA ToldHonest == Told <=> \A c \in Clients : Honest(client[c])
  BY DEF Told, Honest, Served

LEMMA HonestKept ==
    ASSUME TypeOK, Held, [Next]_vars, NEW r \in Record, Honest(r)
    PROVE  Honest(r)'
  <1>1. r.token \in Tokens \cup {None, Anonymous}
    BY DEF Record
  <1>2. CASE r.token \in Tokens
    <2>1. call[r.token] = "returned"
      BY <1>2 DEF Honest
    <2>2. /\ call'[r.token] = "returned"
          /\ r.token \in known' => r.token \in known
          /\ shutdown' = "no" => shutdown = "no"
          /\ r.token \in known' /\ shutdown' = "no" => sticky'[r.token] = sticky[r.token]
      BY <1>2, <2>1, Stable
    <2> QED BY <1>2, <2>2, SlotsFacts DEF Honest, Pinned
  <1>3. CASE r.token \notin Tokens
    <2>1. shutdown' = "no" => shutdown = "no"
      BY DEF Next, Session, Register, RefuseRegistration, Plan, Reserve, Age, Exit, Client, Route,
             Discover, Connect, NotFound, Discovered, Drop, Closed, ShutDown, ClosePool, vars
    <2>2. known \subseteq Tokens
      BY DEF TypeOK
    <2>3. r.token \notin known'
      BY <1>3, TypeStep DEF TypeOK
    <2> QED BY <1>3, <2>1, <2>3 DEF Honest, Pinned
  <1> QED BY <1>1, <1>2, <1>3

LEMMA ToldStep == TypeOK /\ Held /\ Told /\ [Next]_vars => Told'
  <1> SUFFICES ASSUME TypeOK, Held, Told, [Next]_vars, NEW c \in Clients
               PROVE  Honest(client[c])'
    BY DEF Told, Honest, Served
  <1>0. TypeOK'
    BY TypeStep
  <1>1. PICK r \in Record : r = client[c]
    BY Records
  <1>2. PICK q \in Record : q = client'[c]
    BY <1>0 DEF TypeOK, Record
  <1>3. Honest(r) /\ Honest(r)'
    BY <1>1, ToldHonest, HonestKept
  <1> SUFFICES Honest(q)'
    BY <1>2 DEF Honest
  <1>4. CASE q = r
    BY <1>3, <1>4
  <1>5. CASE q = Left("gone")
    <2>1. q.token = None /\ q.found = None /\ q.at = "gone"
      BY <1>5 DEF Left
    <2>2. None \notin Tokens /\ None \notin known' /\ None # Anonymous
      BY <1>0, SlotsFacts, SessionsAssumption DEF TypeOK, Upstream
    <2> QED BY <2>1, <2>2 DEF Honest
  <1>6. ASSUME NEW t \in Tokens \cup {Anonymous}, Carries(c, t), Pin(t), call' = call
        PROVE  /\ t \in Tokens => call'[t] = "returned"
               /\ t # None /\ UpstreamFor(t) = Pinned(t)'
               /\ t = Anonymous => UpstreamFor(t) \in InPool
    BY <1>6, SlotsFacts, SessionsAssumption DEF Carries, Pin, UpstreamFor, Pinned, TypeOK
  <1>7. ASSUME NEW t \in Tokens \cup {Anonymous}, Discover(c, t)
        PROVE  Honest(q)'
    <2>1. /\ q.at = "asking" /\ q.token = t /\ q.upstream = UpstreamFor(t) /\ q.found = None
      BY <1>1, <1>2, <1>7 DEF Discover, TypeOK, Record
    <2> QED BY <1>6, <1>7, <2>1 DEF Discover, Honest
  <1>8. ASSUME NEW t \in Tokens \cup {Anonymous}, Connect(c, t)
        PROVE  Honest(q)'
    <2>1. CASE Refuse(c, t)
      <3>1. q = Left("gone")
        BY <1>2, <2>1 DEF Refuse, TypeOK
      <3> QED BY <1>5, <3>1
    <2>2. CASE ~ Refuse(c, t)
      <3>1. q.at = "open" /\ q.token = t /\ q.upstream = UpstreamFor(t) /\ q.found = r.found
        <4>1. client' = [client EXCEPT ![c] =
                             [@ EXCEPT !.at = "open", !.token = t, !.upstream = UpstreamFor(t)]]
          BY <1>8, <2>2 DEF Connect, OnSocket
        <4>2. q = [r EXCEPT !.at = "open", !.token = t, !.upstream = UpstreamFor(t)]
          BY <1>1, <1>2, <4>1 DEF TypeOK
        <4> QED BY <4>2 DEF Record
      <3>2. q.found # None => r.token = t
        BY <1>1, <1>3, <1>8, <3>1 DEF Connect, Carries, Honest
      <3> QED BY <1>3, <1>6, <1>8, <2>2, <3>1, <3>2 DEF Connect, OnSocket, Honest
    <2> QED BY <2>1, <2>2
  <1>9. CASE Discovered(c)
    <2>1. /\ r.at = "asking" /\ q.at = "new" /\ q.token = r.token
          /\ q.found \in {r.found, r.upstream}
      BY <1>1, <1>2, <1>9 DEF Discovered, TypeOK, Record
    <2> QED BY <1>3, <2>1 DEF Honest
  <1>10. CASE q.token = r.token /\ q.found = r.found /\ q.upstream = r.upstream
              /\ q.at = "ending" /\ r.at = "open"
    BY <1>3, <1>10 DEF Honest
  <1>11. CASE Drop(c)
    BY <1>1, <1>2, <1>10, <1>11 DEF Drop, TypeOK, Record
  <1>12. CASE ShutDown
    BY <1>1, <1>2, <1>4, <1>10, <1>12 DEF ShutDown, TypeOK, Record
  <1>13. CASE NotFound(c) \/ Closed(c)
    BY <1>2, <1>5, <1>13 DEF NotFound, Closed, TypeOK
  <1>14. ASSUME NEW k \in Clients \ {c}, Client(k)
         PROVE  q = r
    <2>1. \E v : client' = [client EXCEPT ![k] = v]
      BY <1>14 DEF Client, Route, Discover, Connect, OnSocket, Refuse, NotFound, Discovered, Drop, Closed
    <2> QED BY <1>1, <1>2, <2>1 DEF TypeOK
  <1>15. CASE (\E t \in Tokens : Session(t)) \/ ClosePool \/ UNCHANGED vars
    <2>1. client' = client
      BY <1>15 DEF Session, Register, RefuseRegistration, Plan, Reserve, Age, Exit, ClosePool, vars
    <2> QED BY <1>1, <1>2, <1>4, <2>1
  <1> QED BY <1>4, <1>7, <1>8, <1>9, <1>11, <1>12, <1>13, <1>14, <1>15 DEF Next, Client, Route

LEMMA NewOrGone ==
    ASSUME TypeOK, NEW c \in Clients, Discovered(c) \/ NotFound(c) \/ Closed(c)
    PROVE  client'[c].at \in {"new", "gone"}
  <1>1. CASE Discovered(c)
    <2>1. PICK found : client' = [client EXCEPT ![c] = [@ EXCEPT !.at = "new", !.found = found]]
      BY <1>1 DEF Discovered
    <2>2. client'[c] = [client[c] EXCEPT !.at = "new", !.found = found]
      BY <2>1 DEF TypeOK
    <2> QED BY <2>2 DEF TypeOK
  <1>2. CASE NotFound(c) \/ Closed(c)
    BY <1>2 DEF NotFound, Closed, Left, TypeOK
  <1> QED BY <1>1, <1>2

LEMMA ClosingStep == TypeOK /\ Closing /\ [Next]_vars => Closing'
  <1> SUFFICES ASSUME TypeOK, Closing, [Next]_vars
               PROVE  Closing'
    OBVIOUS
  <1>1. CASE UNCHANGED <<client, awaited, reaping, shutdown>>
    BY <1>1 DEF Closing
  <1>2. ASSUME NEW t \in Tokens, Session(t)
        PROVE  Closing'
    BY <1>1, <1>2 DEF Session, Register, RefuseRegistration, Plan, Reserve, Age, Exit
  <1>3. ASSUME NEW c \in Clients, NEW t \in Tokens \cup {Anonymous}, Discover(c, t) \/ Connect(c, t)
        PROVE  Closing'
    BY <1>3 DEF Discover, Connect, Closing
  <1>4. ASSUME NEW c \in Clients, Discovered(c) \/ NotFound(c) \/ Drop(c) \/ Closed(c)
        PROVE  Closing'
    <2>1. PICK v : client' = [client EXCEPT ![c] = v]
      BY <1>4 DEF Discovered, NotFound, Drop, Closed
    <2>2. CASE Drop(c)
      BY <2>2 DEF Drop, Closing, TypeOK
    <2>3. CASE Discovered(c) \/ NotFound(c)
      <3>1. client'[c].at \in {"new", "gone"} /\ UNCHANGED <<awaited, reaping, shutdown>>
        BY <2>3, NewOrGone DEF Discovered, NotFound
      <3> QED BY <2>1, <3>1 DEF Closing, TypeOK
    <2>4. CASE Closed(c)
      <3>1. client'[c].at = "gone" /\ awaited' = awaited \ {c} /\ UNCHANGED <<reaping, shutdown>>
        BY <2>4 DEF Closed, Left, TypeOK
      <3> QED BY <2>1, <3>1 DEF Closing, TypeOK
    <2> QED BY <1>4, <2>2, <2>3, <2>4
  <1>5. CASE ShutDown
    BY <1>5 DEF ShutDown, Closing, TypeOK
  <1>6. CASE ClosePool
    BY <1>6 DEF ClosePool, Closing
  <1>7. CASE UNCHANGED vars
    BY <1>1, <1>7 DEF vars
  <1> QED BY <1>2, <1>3, <1>4, <1>5, <1>6, <1>7 DEF Next, Client, Route

(* A connection is served by the browser it was sent to, from beginning to  *)
(* end.                                                                    *)
LEMMA ServedStep ==
    ASSUME TypeOK, [Next]_vars, NEW c \in Clients, Served(c)'
    PROVE  \/ /\ Served(c)
              /\ client'[c].token = client[c].token /\ client'[c].upstream = client[c].upstream
              /\ client'[c].found = client[c].found
           \/ \E t \in Tokens \cup {Anonymous} :
                 /\ shutdown = "no" /\ Carries(c, t)
                 /\ t = Anonymous \/ t \in known
                 /\ client'[c].token = t /\ client'[c].upstream = UpstreamFor(t)
                 /\ client'[c].found = client[c].found
  <1> DEFINE Same == /\ Served(c)
                     /\ client'[c].token = client[c].token
                     /\ client'[c].upstream = client[c].upstream
                     /\ client'[c].found = client[c].found
             New(t) == /\ shutdown = "no" /\ Carries(c, t)
                       /\ t = Anonymous \/ t \in known
                       /\ client'[c].token = t /\ client'[c].upstream = UpstreamFor(t)
                       /\ client'[c].found = client[c].found
  <1> SUFFICES Same \/ \E t \in Tokens \cup {Anonymous} : New(t)
    OBVIOUS
  <1>1. ASSUME client'[c] = client[c]
        PROVE  Same
    BY <1>1 DEF Served
  <1>2. ASSUME NEW k \in Clients \ {c}, Client(k)
        PROVE  Same
    <2>1. \E v : client' = [client EXCEPT ![k] = v]
      BY <1>2 DEF Client, Route, Discover, Connect, OnSocket, Refuse, NotFound, Discovered, Drop, Closed
    <2> QED BY <1>1, <2>1 DEF TypeOK
  <1>3. ASSUME NEW t \in Tokens \cup {Anonymous}, Discover(c, t)
        PROVE  FALSE
    BY <1>3 DEF Discover, TypeOK, Served
  <1>4. ASSUME NEW t \in Tokens \cup {Anonymous}, Connect(c, t)
        PROVE  New(t)
    <2>1. CASE Refuse(c, t)
      BY <1>4, <2>1 DEF Refuse, Left, TypeOK, Served
    <2>2. CASE ~ Refuse(c, t)
      <3>1. client' = [client EXCEPT ![c] =
                           [@ EXCEPT !.at = "open", !.token = t, !.upstream = UpstreamFor(t)]]
        BY <1>4, <2>2 DEF Connect, OnSocket
      <3>2. client'[c] = [client[c] EXCEPT !.at = "open", !.token = t, !.upstream = UpstreamFor(t)]
        BY <3>1 DEF TypeOK
      <3>3. client'[c].token = t /\ client'[c].upstream = UpstreamFor(t)
            /\ client'[c].found = client[c].found
        BY <3>2 DEF TypeOK
      <3> QED BY <1>4, <2>2, <3>3 DEF Connect, OnSocket, Accept, AcceptAnonymous
    <2> QED BY <2>1, <2>2
  <1>5. CASE Discovered(c) \/ NotFound(c) \/ Closed(c)
    <2>1. client'[c].at \in {"new", "gone"}
      BY <1>5, NewOrGone
    <2> QED BY <2>1 DEF Served
  <1>6. CASE Drop(c)
    BY <1>6 DEF Drop, TypeOK, Served
  <1>7. CASE ShutDown
    BY <1>7 DEF ShutDown, TypeOK, Served
  <1>8. CASE (\E t \in Tokens : Session(t)) \/ ClosePool \/ UNCHANGED vars
    <2>1. client' = client
      BY <1>8 DEF Session, Register, RefuseRegistration, Plan, Reserve, Age, Exit, ClosePool, vars
    <2> QED BY <1>1, <2>1
  <1> HIDE DEF Same, New
  <1> QED BY <1>2, <1>3, <1>4, <1>5, <1>6, <1>7, <1>8 DEF Next, Client, Route

LEMMA PromotedStep ==
    TypeOK /\ Held /\ Told /\ PromotedIsAlone /\ [Next]_vars => PromotedIsAlone'
  <1> SUFFICES ASSUME TypeOK, Held, Told, PromotedIsAlone, [Next]_vars,
                      NEW c \in Clients, Served(c)', client'[c].token # Anonymous
               PROVE  client'[c].upstream \in Place(client'[c].token)
    BY DEF PromotedIsAlone, Place
  <1>1. CASE Served(c) /\ client'[c].token = client[c].token /\ client'[c].upstream = client[c].upstream
    BY <1>1 DEF PromotedIsAlone, Place
  <1>2. ASSUME NEW t \in Tokens, shutdown = "no", Carries(c, t), t \in known,
               client'[c].token = t, client'[c].upstream = UpstreamFor(t)
        PROVE  client'[c].upstream \in Place(client'[c].token)
    <2>1. sticky[t] \in Place(t) /\ t # Anonymous
      BY <1>2, SlotsFacts DEF Carries, Held
    <2>2. None \notin Place(t)
      BY SlotsFacts, SessionsAssumption DEF Place, Upstream
    <2> QED BY <1>2, <2>1, <2>2 DEF UpstreamFor
  <1> QED BY <1>1, <1>2, ServedStep

LEMMA DialStep ==
    TypeOK /\ Held /\ Told /\ DialsWhatItFound /\ [Next]_vars => DialsWhatItFound'
  <1> SUFFICES ASSUME TypeOK, Held, Told, DialsWhatItFound, [Next]_vars,
                      NEW c \in Clients, Served(c)', client'[c].found # None
               PROVE  client'[c].upstream = client'[c].found
    BY DEF DialsWhatItFound
  <1>1. CASE Served(c) /\ client'[c].found = client[c].found /\ client'[c].upstream = client[c].upstream
    BY <1>1 DEF DialsWhatItFound
  <1>2. ASSUME NEW t \in Tokens \cup {Anonymous}, shutdown = "no", Carries(c, t),
               t = Anonymous \/ t \in known,
               client'[c].upstream = UpstreamFor(t), client'[c].found = client[c].found
        PROVE  client'[c].upstream = client'[c].found
    <2>1. client[c].token = t
      BY <1>2 DEF Told, Carries
    <2>2. client[c].found = Pinned(t)
      BY <1>2, <2>1 DEF Told
    <2> QED BY <1>2, <2>2 DEF UpstreamFor, Pinned
  <1> QED BY <1>1, <1>2, ServedStep

LEMMA Start == Init => IInv
  <1> SUFFICES ASSUME Init
               PROVE  IInv
    OBVIOUS
  <1>1. TypeOK
    BY SlotsFacts DEF Init, TypeOK, Left
  <1>2. Counted = {} /\ \A t : Serving(t) = {}
    BY DEF Init, Counted, Serving, Served, Left
  <1>3. Counts
    <2>1. active = 0 /\ (\A t \in Tokens : connections[t] = 0) /\ \A c \in Clients : ~ Served(c)
      BY DEF Init, Served, Left
    <2>2. Cardinality(Counted) = 0 /\ \A t : Cardinality(Serving(t)) = 0
      BY <1>2, FS_EmptySet
    <2>3. 0 <= MaxConcurrent
      BY SessionsAssumption
    <2> QED BY <2>1, <2>2, <2>3 DEF Counts
  <1>4. Held /\ Told
    BY SlotsFacts, SessionsAssumption DEF Init, Held, Told, Served, Left, Upstream
  <1>5. Closing /\ PromotedIsAlone /\ DialsWhatItFound
    BY DEF Init, Closing, PromotedIsAlone, DialsWhatItFound, Served, Left
  <1> QED BY <1>1, <1>3, <1>4, <1>5 DEF IInv

LEMMA Inductive == IInv /\ [Next]_vars => IInv'
  BY TypeStep, CountsStep, HeldStep, ToldStep, ClosingStep, PromotedStep, DialStep DEF IInv

LEMMA Invariance == Spec => []IInv
  BY Start, Inductive, PTL DEF Spec

(* The registry, the pool and the clients stay in the states the code can  *)
(* name.                                                                   *)
THEOREM TypeSafety == Spec => []TypeOK
  <1>1. IInv => TypeOK
    BY DEF IInv
  <1> QED BY <1>1, Invariance, PTL

(* #active and the connections field of every record count the connections *)
(* there are, and #maxConcurrent bounds them (session-manager.ts).         *)
THEOREM Ceiling == Spec => []SlotsAreCounted
  <1>1. IInv => SlotsAreCounted
    BY DEF IInv, SlotsAreCounted, Counts, Counted, TypeOK
  <1> QED BY <1>1, Invariance, PTL

(* The browser of a session outlives its connections, but for those that   *)
(* shutdown did not wait for (#forget, ShutdownManager.#run).              *)
THEOREM Outlives == Spec => []BrowserOutlivesConnections
  <1>1. ASSUME IInv, NEW c \in Clients, Served(c)
        PROVE  Up(client[c].upstream) \/ (shutdown = "done" /\ c \in reaping)
    <2>1. CASE shutdown = "done"
      BY <1>1, <2>1 DEF IInv, Closing, Served
    <2>2. CASE shutdown # "done" /\ client[c].token = Anonymous
      BY <1>1, <2>2, SlotsFacts DEF IInv, Told, Up
    <2>3. CASE shutdown # "done" /\ client[c].token # Anonymous
      <3>1. /\ client[c].token \in known /\ client[c].token \in Tokens
            /\ call[client[c].token] = "returned"
            /\ client[c].upstream \in Place(client[c].token)
        BY <1>1, <2>3 DEF IInv, Counts, Told, TypeOK, PromotedIsAlone, Place
      <3>2. CASE client[c].token \in Pooled
        <4>1. client[c].upstream \in InPool
          BY <3>1, <3>2, SessionsAssumption DEF Place
        <4> QED BY <2>3, <4>1, SlotsFacts DEF Up
      <3>3. CASE client[c].token \notin Pooled
        <4>1. process[client[c].token] = "running"
          BY <1>1, <2>3, <3>1, <3>3 DEF IInv, Held
        <4> QED BY <3>1, <3>3, <4>1 DEF Place, Up
      <3> QED BY <3>2, <3>3
    <2> QED BY <2>1, <2>2, <2>3
  <1>2. IInv => BrowserOutlivesConnections
    BY <1>1 DEF BrowserOutlivesConnections
  <1> QED BY <1>2, Invariance, PTL

(* A promoted session has its browser to itself and a pooled one is on a   *)
(* slot that answers for it (place, reserve, upstreamFor).                 *)
THEOREM Alone == Spec => []PromotedIsAlone
  <1>1. IInv => PromotedIsAlone
    BY DEF IInv
  <1> QED BY <1>1, Invariance, PTL

(* A client that follows a /json reply reaches the browser that wrote it   *)
(* (upstreamFor).                                                          *)
THEOREM Discovery == Spec => []DialsWhatItFound
  <1>1. IInv => DialsWhatItFound
    BY DEF IInv
  <1> QED BY <1>1, Invariance, PTL

(* A process without a session is one that was still planned or launched   *)
(* when its token was swept (#forget, #plan, reserve).                     *)
THEOREM Strays == Spec => []StraysWereOutrun
  <1>1. IInv => StraysWereOutrun
    BY DEF IInv, Held, StraysWereOutrun
  <1> QED BY <1>1, Invariance, PTL
================================================================================
