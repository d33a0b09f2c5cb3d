------------------------------ MODULE ProcessProofs ------------------------------
(***************************************************************************)
(* Theorems about what a process leaves to the one after it.  Fleet, for   *)
(* every size of the pool, number of proxies, launches and shutdowns: no   *)
(* browser is left to itself on a port, and a proxy serves the browsers    *)
(* that it launched.  Corpus, for every corpus and number of sessions and  *)
(* crashes: what the burn file loses, and what is drawn in spite of it.    *)
(***************************************************************************)
EXTENDS Fleet, Corpus, SequenceTheorems, FiniteSetTheorems, TLAPS

Stages == {"none", "looking", "killing", "spawning", "asking", "listening", "serving", "failed"}
Opens  == {"looking", "killing", "spawning"}

LaunchType == [at : {"new", "waiting", "ready", "failed"}, proxy : Proxies \cup {None}]
StopType   == [at : {"new", "running", "closing", "finishing", "done"}, proxy : Proxies \cup {None}]

TypeOK ==
    /\ signals \in BOOLEAN /\ exited \in BOOLEAN /\ overlap \in BOOLEAN
    /\ shared \in Proxies \cup {None} /\ starting \in Proxies \cup {None}
    /\ stage \in [Proxies -> Stages] /\ slot \in [Proxies -> Slots]
    /\ held \in [Proxies -> SUBSET Slots]
    /\ server \in [Proxies -> {"off", "on", "finished"}]
    /\ shutting \subseteq Proxies /\ hasty \subseteq Proxies
    /\ ending \in [Proxies -> [Slots -> {"no", "looking", "killing"}]]
    /\ victim \in [Proxies -> [Slots -> Proxies \cup {None}]]
    /\ alive \subseteq Proxies \X Slots /\ on \in [Slots -> Proxies \cup {None}]
    /\ launch \in [Launchers -> LaunchType] /\ stop \in [Stoppers -> StopType]

(* What holds of each proxy, whatever is asked of it at a time.            *)
Each ==
    /\ \A i \in Slots : on[i] # None => <<on[i], i>> \in alive
    /\ \A g \in Proxies : stage[g] = "none" => g \notin shutting /\ slot[g] = 1
    /\ \A g \in shutting \ hasty : stage[g] = "serving"
    /\ shared # None => stage[shared] = "serving"
    /\ signals => starting = 1 /\ shared = None /\ stage[1] # "none"
    /\ ~signals => hasty = {} /\ ~exited

(* Without overlapping shutdowns one proxy at a time has processes and is  *)
(* stopped, by one caller.                                                 *)
Active(d) == stop[d].at \in {"running", "closing", "finishing"}

OneAtATime ==
    /\ shared # None => shared = starting
    /\ \A g \in Proxies \ {starting} :
        /\ stage[g] = "none" \/ (stage[g] = "serving" /\ g \in shutting)
        /\ \A i \in Slots : <<g, i>> \notin alive /\ ending[g][i] = "no"
    /\ \A g \in Proxies \ shutting, i \in Slots : ending[g][i] = "no"
    /\ \A d \in Stoppers : Active(d) =>
        starting \in shutting /\ stop[d].proxy = starting /\ Target = starting
    /\ \A d, e \in Stoppers : Active(d) /\ Active(e) => d = e

(* As far as its start has come, the slots are the pool's own; and as far  *)
(* as its stop has, they are empty.                                        *)
Opened(g) ==
    /\ stage[g] \in {"listening", "serving"} => held[g] = Slots /\ \A i \in Slots : on[i] = g
    /\ stage[g] \in Opens \cup {"asking"} => \A i \in Slots :
        /\ i < slot[g] => i \in held[g] /\ on[i] = g
        /\ i > slot[g] => on[i] = None
    /\ stage[g] \in Opens => on[slot[g]] = None
    /\ stage[g] = "killing" => victim[g][slot[g]] = None
    /\ stage[g] = "asking" => on[slot[g]] = g

Emptied ==
    /\ \A d \in Stoppers : starting \notin hasty =>
        /\ stop[d].at = "running" => held[starting] = Slots
        /\ stop[d].at \in {"closing", "finishing"} => \A i \in Slots : <<starting, i>> \notin alive
    /\ \A d \in Stoppers : stop[d].at = "finishing" => \A i \in Slots : ending[starting][i] = "no"
    /\ exited /\ starting \notin hasty => alive = {}

Quieter ==
    /\ OneAtATime
    /\ starting # None /\ starting \notin shutting => Opened(starting)
    /\ Emptied

Calm == ~overlap => Quieter

IInv == TypeOK /\ Each /\ Calm
-----------------------------------------------------------------------------
LEMMA Numbers ==
    /\ None \notin Proxies /\ 1 \in Proxies /\ 1 \in Slots /\ Size \in Slots
    /\ \A i \in Slots : i \in Nat /\ i >= 1 /\ i <= Size
    /\ \A i \in Slots : i # Size => i + 1 \in Slots
  BY FleetAssumption DEF None, Proxies, Slots

LEMMA Begins == Init => IInv
  <1> SUFFICES ASSUME Init
               PROVE  IInv
    OBVIOUS
  <1>1. TypeOK
    <2>1. [at |-> "new", proxy |-> None] \in LaunchType /\ [at |-> "new", proxy |-> None] \in StopType
      BY DEF LaunchType, StopType
    <2>2. launch \in [Launchers -> LaunchType] /\ stop \in [Stoppers -> StopType]
      BY <2>1 DEF Init
    <2>3. stage \in [Proxies -> Stages] /\ starting \in Proxies \cup {None}
      BY Numbers DEF Init, Stages
    <2> QED BY <2>2, <2>3, Numbers DEF Init, TypeOK
  <1>2. Each
    BY Numbers DEF Init, Each
  <1>3. Calm
    <2>1. OneAtATime
      BY Numbers DEF Init, OneAtATime, Active
    <2>2. starting # None => Opened(starting)
      <3>1. starting # None => starting \in Proxies /\ slot[starting] = 1 /\ stage[starting] = "looking"
        BY Numbers DEF Init
      <3>2. \A i \in Slots : on[i] = None /\ ~ (i < 1)
        BY Numbers DEF Init
      <3> QED BY <3>1, <3>2, Numbers DEF Opened, Opens
    <2>3. Emptied
      BY DEF Init, Emptied
    <2> QED BY <2>1, <2>2, <2>3 DEF Calm, Quieter
  <1> QED BY <1>1, <1>2, <1>3 DEF IInv

LEMMA KilledType ==
    ASSUME TypeOK, NEW P, Killed(P)
    PROVE  alive' \subseteq Proxies \X Slots /\ on' \in [Slots -> Proxies \cup {None}]
  BY DEF TypeOK, Killed

LEMMA TypeStep == TypeOK /\ [Next]_vars => TypeOK'
  <1> SUFFICES ASSUME TypeOK, [Next]_vars
               PROVE  TypeOK'
    OBVIOUS
  <1> USE Numbers DEF starts, stops, os
  <1>1. ASSUME NEW l \in Launchers, Launch(l)
        PROVE  TypeOK'
    <2>1. CASE UNCHANGED <<stage, starting>>
      <3>1. launch' \in [Launchers -> LaunchType]
        <4>1. \A g \in Proxies \cup {None} : [at |-> "ready", proxy |-> g] \in LaunchType
                                             /\ [at |-> "waiting", proxy |-> g] \in LaunchType
          BY DEF LaunchType
        <4>2. \E t \in LaunchType : launch' = [launch EXCEPT ![l] = t]
          <5>1. shared \in Proxies \cup {None} /\ starting \in Proxies \cup {None}
            BY DEF TypeOK
          <5>2. CASE NewProxy(l)
            BY <4>1, <5>2 DEF NewProxy
          <5> QED BY <1>1, <4>1, <5>1, <5>2 DEF Launch
        <4> QED BY <4>2 DEF TypeOK
      <3> QED BY <1>1, <2>1, <3>1 DEF Launch, TypeOK
    <2>2. CASE NewProxy(l)
      <3>1. PICK g \in Proxies : /\ stage' = [stage EXCEPT ![g] = "looking"] /\ starting' = g
                                 /\ launch' = [launch EXCEPT ![l] = [at |-> "waiting", proxy |-> g]]
        BY <2>2 DEF NewProxy
      <3>2. "looking" \in Stages
        BY DEF Stages
      <3>3. UNCHANGED <<signals, exited, shared, slot, held, server, shutting, ending, victim, alive, on,
                        stop, hasty, overlap>>
        BY <1>1 DEF Launch
      <3>4. [at |-> "waiting", proxy |-> g] \in LaunchType
        BY DEF LaunchType
      <3> QED BY <3>1, <3>2, <3>3, <3>4 DEF TypeOK
    <2> QED BY <1>1, <2>1, <2>2 DEF Launch
  <1>2. ASSUME NEW l \in Launchers, Launched(l)
        PROVE  TypeOK'
    <2>1. launch[l] \in LaunchType
      BY DEF TypeOK
    <2>2. [launch[l] EXCEPT !.at = "ready"] \in LaunchType /\ [launch[l] EXCEPT !.at = "failed"] \in LaunchType
      BY <2>1 DEF LaunchType
    <2>3. launch' \in [Launchers -> LaunchType]
      BY <1>2, <2>2 DEF Launched, TypeOK
    <2> QED BY <1>2, <2>3 DEF Launched, TypeOK
  <1>3. ASSUME NEW g \in Proxies, StartLooks(g) \/ StartKills(g) \/ Spawn(g)
        PROVE  TypeOK'
    <2>1. CASE StartLooks(g)
      <3>1. "killing" \in Stages /\ on[slot[g]] \in Proxies \cup {None}
        BY DEF Stages, TypeOK
      <3> QED BY <2>1, <3>1 DEF StartLooks, TypeOK
    <2>2. CASE StartKills(g)
      <3>1. alive' \subseteq Proxies \X Slots /\ on' \in [Slots -> Proxies \cup {None}]
        BY <2>2, KilledType DEF StartKills
      <3>2. "spawning" \in Stages
        BY DEF Stages
      <3> QED BY <2>2, <3>1, <3>2 DEF StartKills, TypeOK
    <2>3. CASE Spawn(g)
      <3>1. alive' \subseteq Proxies \X Slots /\ on' \in [Slots -> Proxies \cup {None}]
        <4>1. slot[g] \in Slots /\ <<g, slot[g]>> \in Proxies \X Slots
          BY DEF TypeOK
        <4>2. CASE Spawned(g)
          <5>1. alive' = alive \cup {<<g, slot[g]>>}
            BY <4>2 DEF Spawned
          <5>2. on' \in [Slots -> Proxies \cup {None}]
            BY <4>1, <4>2 DEF Spawned, TypeOK
          <5> QED BY <4>1, <5>1, <5>2 DEF TypeOK
        <4>3. CASE UNCHANGED <<alive, on>>
          BY <4>3 DEF TypeOK
        <4> QED BY <2>3, <4>2, <4>3 DEF Spawn
      <3>2. stage' \in [Proxies -> Stages]
        BY <2>3 DEF Spawn, Stages, TypeOK
      <3> QED BY <2>3, <3>1, <3>2 DEF Spawn, TypeOK
    <2> QED BY <1>3, <2>1, <2>2, <2>3
  <1>4. ASSUME NEW g \in Proxies, Ask(g)
        PROVE  TypeOK'
    <2>1. slot[g] \in Slots /\ (slot[g] # Size => slot[g] + 1 \in Slots)
          /\ {"listening", "looking", "failed"} \subseteq Stages
      BY DEF TypeOK, Stages
    <2>2. slot' \in [Proxies -> Slots]
      <3>1. \E t \in Slots : slot' = [slot EXCEPT ![g] = t] \/ slot' = slot
        BY <1>4, <2>1 DEF Ask
      <3>2. slot \in [Proxies -> Slots]
        BY DEF TypeOK
      <3> QED BY <3>1, <3>2
    <2>3. held' \in [Proxies -> SUBSET Slots]
      <3>1. held' = [held EXCEPT ![g] = held[g] \cup {slot[g]}] \/ held' = held
        BY <1>4 DEF Ask
      <3>2. held \in [Proxies -> SUBSET Slots] /\ held[g] \cup {slot[g]} \in SUBSET Slots
        BY <2>1 DEF TypeOK
      <3> QED BY <3>1, <3>2
    <2>4. stage' \in [Proxies -> Stages]
      BY <1>4, <2>1 DEF Ask, TypeOK
    <2> QED BY <1>4, <2>2, <2>3, <2>4 DEF Ask, TypeOK
  <1>5. ASSUME NEW g \in Proxies, Listen(g)
        PROVE  TypeOK'
    <2>1. {"serving", "failed"} \subseteq Stages
      BY DEF Stages
    <2>2. stage' \in [Proxies -> Stages] /\ server' \in [Proxies -> {"off", "on", "finished"}]
      <3>1. stage' = [stage EXCEPT ![g] = "serving"] \/ stage' = [stage EXCEPT ![g] = "failed"]
        BY <1>5 DEF Listen
      <3>2. server' = [server EXCEPT ![g] = "on"] \/ server' = server
        BY <1>5 DEF Listen
      <3>3. stage \in [Proxies -> Stages] /\ server \in [Proxies -> {"off", "on", "finished"}]
        BY DEF TypeOK
      <3>4. stage' \in [Proxies -> Stages]
        BY <2>1, <3>1, <3>3
      <3>5. server' \in [Proxies -> {"off", "on", "finished"}]
        BY <3>2, <3>3
      <3> QED BY <3>4, <3>5
    <2>3. shared' \in Proxies \cup {None}
      BY <1>5 DEF Listen, TypeOK
    <2> QED BY <1>5, <2>2, <2>3 DEF Listen, TypeOK
  <1>6. ASSUME NEW d \in Stoppers, Stop(d)
        PROVE  TypeOK'
    <2>1. Target \in Proxies \cup {None}
      BY DEF Target, TypeOK
    <2>2. stop[d] \in StopType
      BY DEF TypeOK
    <2>3. [stop[d] EXCEPT !.at = "done"] \in StopType
          /\ \A k \in {"finishing", "running"} : [at |-> k, proxy |-> Target] \in StopType
      BY <2>1, <2>2 DEF StopType
    <2>4. stop' \in [Stoppers -> StopType]
      BY <1>6, <2>3 DEF Stop, TypeOK
    <2>5. shutting' \subseteq Proxies /\ hasty' \subseteq Proxies /\ overlap' \in BOOLEAN
      BY <1>6, <2>1 DEF Stop, TypeOK
    <2> QED BY <1>6, <2>4, <2>5 DEF Stop, TypeOK
  <1>7. ASSUME NEW d \in Stoppers, ClosePool(d)
        PROVE  TypeOK'
    <2>1. PICK g : g = stop[d].proxy
      OBVIOUS
    <2>2. alive' \subseteq Proxies \X Slots /\ on' \in [Slots -> Proxies \cup {None}]
      BY <1>7, KilledType DEF ClosePool
    <2>3. ending' \in [Proxies -> [Slots -> {"no", "looking", "killing"}]]
      <3>1. /\ ending' = [ending EXCEPT ![g] = [i \in Slots |-> IF i \in held[g] THEN "looking" ELSE ending[g][i]]]
            /\ g \in Proxies \cup {None}
        <4>1. stop[d] \in StopType
          BY DEF TypeOK
        <4> QED BY <1>7, <2>1, <4>1 DEF ClosePool, StopType
      <3> QED BY <3>1 DEF TypeOK
    <2>4. stop' \in [Stoppers -> StopType]
      <3>1. stop[d] \in StopType
        BY DEF TypeOK
      <3>2. [stop[d] EXCEPT !.at = "closing"] \in StopType
        BY <3>1 DEF StopType
      <3> QED BY <1>7, <3>2 DEF ClosePool, TypeOK
    <2> QED BY <1>7, <2>2, <2>3, <2>4 DEF ClosePool, TypeOK
  <1>8. ASSUME NEW g \in Proxies, NEW i \in Slots, CloseLooks(g, i) \/ CloseKills(g, i)
        PROVE  TypeOK'
    <2>1. CASE CloseLooks(g, i)
      BY <2>1 DEF CloseLooks, TypeOK
    <2>2. CASE CloseKills(g, i)
      <3>1. alive' \subseteq Proxies \X Slots /\ on' \in [Slots -> Proxies \cup {None}]
        BY <2>2, KilledType DEF CloseKills
      <3> QED BY <2>2, <3>1 DEF CloseKills, TypeOK
    <2> QED BY <1>8, <2>1, <2>2
  <1>9. ASSUME NEW d \in Stoppers, PoolClosed(d) \/ Finished(d)
        PROVE  TypeOK'
    <2>1. stop' \in [Stoppers -> StopType]
      <3>1. stop[d] \in StopType
        BY DEF TypeOK
      <3>2. [stop[d] EXCEPT !.at = "finishing"] \in StopType /\ [stop[d] EXCEPT !.at = "done"] \in StopType
        BY <3>1 DEF StopType
      <3> QED BY <1>9, <3>2 DEF PoolClosed, Finished, Forget, TypeOK
    <2>2. CASE PoolClosed(d)
      <3>1. held' \in [Proxies -> SUBSET Slots]
        BY <2>2 DEF PoolClosed, TypeOK
      <3> QED BY <2>1, <2>2, <3>1 DEF PoolClosed, TypeOK
    <2>3. CASE Finished(d)
      BY <2>1, <2>3 DEF Finished, Forget, TypeOK
    <2> QED BY <1>9, <2>2, <2>3
  <1>10. ASSUME NEW g \in Proxies, ServerFinishes(g)
         PROVE  TypeOK'
    BY <1>10 DEF ServerFinishes, TypeOK
  <1>11. CASE UNCHANGED vars
    BY <1>11 DEF vars, TypeOK
  <1> QED BY <1>1, <1>2, <1>3, <1>4, <1>5, <1>6, <1>7, <1>8, <1>9, <1>10, <1>11
          DEF Next, Start, Close, Stops, Settles
-----------------------------------------------------------------------------
(* Only a start changes the stage of its proxy, and it never leaves        *)
(* "serving".                                                              *)
LEMMA StageStep ==
    ASSUME TypeOK, [Next]_vars
    PROVE  /\ \A g \in Proxies : stage[g] # "none" => stage'[g] # "none"
           /\ \A g \in Proxies : stage[g] = "serving" => stage'[g] = "serving"
           /\ \A g \in Proxies : stage'[g] = "none" => slot'[g] = slot[g]
  <1> USE DEF starts, stops, os
  <1>0. stage \in [Proxies -> Stages] /\ slot \in [Proxies -> Slots]
    BY DEF TypeOK
  <1>1. ASSUME UNCHANGED <<stage, slot>>
        PROVE  /\ \A g \in Proxies : stage[g] # "none" => stage'[g] # "none"
               /\ \A g \in Proxies : stage[g] = "serving" => stage'[g] = "serving"
               /\ \A g \in Proxies : stage'[g] = "none" => slot'[g] = slot[g]
    BY <1>1
  <1>2. ASSUME NEW h \in Proxies, NEW t \in Stages \ {"none"}, stage' = [stage EXCEPT ![h] = t],
               stage[h] # "serving", \A g \in Proxies : g # h => slot'[g] = slot[g]
        PROVE  /\ \A g \in Proxies : stage[g] # "none" => stage'[g] # "none"
               /\ \A g \in Proxies : stage[g] = "serving" => stage'[g] = "serving"
               /\ \A g \in Proxies : stage'[g] = "none" => slot'[g] = slot[g]
    BY <1>0, <1>2
  <1>3. ASSUME NEW l \in Launchers, Launch(l)
        PROVE  \/ UNCHANGED <<stage, slot>>
               \/ \E h \in Proxies : /\ stage' = [stage EXCEPT ![h] = "looking"]
                                     /\ stage[h] # "serving" /\ slot' = slot
    BY <1>3 DEF Launch, NewProxy
  <1>4. ASSUME NEW g \in Proxies, Start(g)
        PROVE  /\ stage[g] # "serving" /\ \A h \in Proxies : h # g => slot'[h] = slot[h]
               /\ \E t \in Stages \ {"none"} : stage' = [stage EXCEPT ![g] = t]
    <2>1. {"killing", "spawning", "asking", "looking", "listening", "serving", "failed"}
              \subseteq Stages \ {"none"}
      BY DEF Stages
    <2>2. CASE StartLooks(g) \/ StartKills(g) \/ Spawn(g)
      BY <2>1, <2>2 DEF StartLooks, StartKills, Spawn
    <2>3. CASE Ask(g)
      <3>1. stage[g] # "serving" /\ \A h \in Proxies : h # g => slot'[h] = slot[h]
        BY <1>0, <2>3 DEF Ask
      <3>2. \E t \in {"listening", "looking", "failed"} : stage' = [stage EXCEPT ![g] = t]
        BY <2>3 DEF Ask
      <3> QED BY <2>1, <3>1, <3>2
    <2>4. CASE Listen(g)
      BY <2>1, <2>4 DEF Listen
    <2> QED BY <1>4, <2>2, <2>3, <2>4 DEF Start
  <1>5. ASSUME \/ \E g \in Proxies : Close(g)
               \/ \E d \in Stoppers : Stops(d) \/ Stop(d)
               \/ \E l \in Launchers : Launched(l)
               \/ UNCHANGED vars
        PROVE  UNCHANGED <<stage, slot>>
    BY <1>5 DEF Close, ServerFinishes, CloseLooks, CloseKills, Stops, ClosePool, PoolClosed, Finished,
                Stop, Launched, vars
  <1>6. "looking" \in Stages \ {"none"}
    BY DEF Stages
  <1>7. CASE UNCHANGED <<stage, slot>>
    BY <1>1, <1>7
  <1>8. ASSUME NEW l \in Launchers, Launch(l)
        PROVE  /\ \A g \in Proxies : stage[g] # "none" => stage'[g] # "none"
               /\ \A g \in Proxies : stage[g] = "serving" => stage'[g] = "serving"
               /\ \A g \in Proxies : stage'[g] = "none" => slot'[g] = slot[g]
    BY <1>1, <1>2, <1>3, <1>6, <1>8
  <1>9. ASSUME NEW g \in Proxies, Start(g)
        PROVE  /\ \A h \in Proxies : stage[h] # "none" => stage'[h] # "none"
               /\ \A h \in Proxies : stage[h] = "serving" => stage'[h] = "serving"
               /\ \A h \in Proxies : stage'[h] = "none" => slot'[h] = slot[h]
    BY <1>2, <1>4, <1>9
  <1> QED BY <1>5, <1>7, <1>8, <1>9 DEF Next, Settles

LEMMA PortsStep ==
    ASSUME TypeOK, [Next]_vars, \A i \in Slots : on[i] # None => <<on[i], i>> \in alive
    PROVE  \A i \in Slots : on'[i] # None => <<on'[i], i>> \in alive'
  <1> USE DEF starts, stops, os
  <1>1. ASSUME NEW P, Killed(P)
        PROVE  \A i \in Slots : on'[i] # None => <<on'[i], i>> \in alive'
    BY <1>1 DEF Killed
  <1>2. ASSUME NEW g \in Proxies, Spawned(g)
        PROVE  \A i \in Slots : on'[i] # None => <<on'[i], i>> \in alive'
    <2>1. /\ alive' = alive \cup {<<g, slot[g]>>} /\ slot[g] \in Slots
          /\ \A i \in Slots : on'[i] = IF i = slot[g] /\ on[i] = None THEN g ELSE on[i]
      BY <1>2 DEF Spawned, TypeOK
    <2> QED BY <2>1
  <1>3. \/ UNCHANGED <<alive, on>>
        \/ \E P : Killed(P)
        \/ \E g \in Proxies : Spawned(g)
    BY DEF Next, Start, StartLooks, StartKills, Spawn, Ask, Listen, Close, ServerFinishes, CloseLooks,
           CloseKills, Stops, ClosePool, PoolClosed, Finished, Stop, Settles, Launch, Launched, vars
  <1> QED BY <1>1, <1>2, <1>3

LEMMA EachStep == TypeOK /\ Each /\ [Next]_vars => Each'
  <1> SUFFICES ASSUME TypeOK, Each, [Next]_vars
               PROVE  Each'
    OBVIOUS
  <1> USE Numbers DEF starts, stops, os
  <1>1. \A i \in Slots : on'[i] # None => <<on'[i], i>> \in alive'
    BY PortsStep DEF Each
  <1>2. /\ \A g \in Proxies : stage[g] # "none" => stage'[g] # "none"
        /\ \A g \in Proxies : stage[g] = "serving" => stage'[g] = "serving"
        /\ \A g \in Proxies : stage'[g] = "none" => slot'[g] = slot[g]
    BY StageStep
  <1>3. \/ UNCHANGED <<shutting, hasty>>
        \/ /\ Target \in Proxies /\ stage[Target] # "none"
           /\ shutting' = shutting \cup {Target}
           /\ hasty' = IF stage[Target] = "serving" THEN hasty ELSE hasty \cup {Target}
           /\ ~signals => stage[Target] = "serving"
    <2>1. ASSUME NEW d \in Stoppers, Stop(d), Target # None
          PROVE  /\ Target \in Proxies /\ stage[Target] # "none"
                 /\ shutting' = shutting \cup {Target}
                 /\ hasty' = IF stage[Target] = "serving" THEN hasty ELSE hasty \cup {Target}
                 /\ ~signals => stage[Target] = "serving"
      BY <2>1 DEF Stop, Target, Each, TypeOK
    <2>2. ASSUME NEW d \in Stoppers, Stop(d), Target = None
          PROVE  UNCHANGED <<shutting, hasty>>
      BY <2>2 DEF Stop
    <2>3. (\E d \in Stoppers : Stop(d)) \/ UNCHANGED <<shutting, hasty>>
      BY DEF Next, Start, StartLooks, StartKills, Spawn, Ask, Listen, Close, ServerFinishes, CloseLooks,
             CloseKills, Stops, ClosePool, PoolClosed, Finished, Forget, Settles, Launch, Launched, vars
    <2> QED BY <2>1, <2>2, <2>3
  <1>4. \A g \in Proxies : stage'[g] = "none" => g \notin shutting' /\ slot'[g] = 1
    <2>1. \A g \in Proxies : stage'[g] = "none" => stage[g] = "none" /\ slot'[g] = 1
      BY <1>2 DEF Each
    <2> QED BY <1>3, <2>1 DEF Each
  <1>5. \A g \in shutting' \ hasty' : stage'[g] = "serving"
    BY <1>2, <1>3 DEF Each, TypeOK
  <1>6. signals' = signals
    BY DEF Next, Start, StartLooks, StartKills, Spawn, Ask, Listen, Close, ServerFinishes, CloseLooks,
           CloseKills, Stops, ClosePool, PoolClosed, Finished, Stop, Settles, Launch, Launched, vars
  <1>7. ~signals' => hasty' = {} /\ ~exited'
    <2>1. ~signals => exited' = exited
      BY DEF Next, Start, StartLooks, StartKills, Spawn, Ask, Listen, Close, ServerFinishes, CloseLooks,
             CloseKills, Stops, ClosePool, PoolClosed, Finished, Forget, Stop, Settles, Launch, Launched, vars
    <2> QED BY <1>3, <1>6, <2>1 DEF Each
  <1>8. shared' # None => stage'[shared'] = "serving"
    <2>1. \/ shared' = shared
          \/ shared' = None
          \/ \E g \in Proxies : shared' = g /\ stage' = [stage EXCEPT ![g] = "serving"]
      BY DEF Next, Start, StartLooks, StartKills, Spawn, Ask, Listen, Close, ServerFinishes, CloseLooks,
             CloseKills, Stops, ClosePool, PoolClosed, Finished, Forget, Stop, Settles, Launch, Launched, vars
    <2>2. CASE shared' = shared
      BY <1>2, <2>2 DEF Each, TypeOK
    <2>3. ASSUME NEW g \in Proxies, shared' = g, stage' = [stage EXCEPT ![g] = "serving"]
          PROVE  stage'[shared'] = "serving"
      BY <2>3 DEF TypeOK
    <2> QED BY <2>1, <2>2, <2>3
  <1>9. signals' => starting' = 1 /\ shared' = None /\ stage'[1] # "none"
    <2>1. signals => UNCHANGED <<starting, shared>>
      BY DEF Next, Start, StartLooks, StartKills, Spawn, Ask, Listen, Close, ServerFinishes, CloseLooks,
             CloseKills, Stops, ClosePool, PoolClosed, Finished, Forget, Stop, Settles, Launch, Launched, vars
    <2> QED BY <1>2, <1>6, <2>1 DEF Each
  <1> QED BY <1>1, <1>4, <1>5, <1>7, <1>8, <1>9 DEF Each
-----------------------------------------------------------------------------
LEMMA CalmKept ==
    ASSUME Quieter,
           UNCHANGED <<signals, exited, shared, starting, stage, slot, held, shutting, ending, victim,
                       alive, on, stop, hasty>>
    PROVE  Quieter'
  BY DEF Quieter, OneAtATime, Opened, Emptied, Active, Target

LEMMA CalmLaunch ==
    ASSUME IInv, Quieter, NEW l \in Launchers, ~exited, Launch(l)
    PROVE  Quieter'
  <1> USE Numbers DEF starts, stops, os
  <1>1. CASE UNCHANGED <<stage, starting>>
    BY <1>1, CalmKept DEF Launch
  <1>2. CASE starting = None /\ shared = None /\ NewProxy(l)
    <2>1. PICK g \in Proxies : /\ stage[g] = "none" /\ stage' = [stage EXCEPT ![g] = "looking"]
                               /\ starting' = g
      BY <1>2 DEF NewProxy
    <2>2. UNCHANGED <<signals, exited, shared, slot, held, shutting, ending, victim, alive, on, stop, hasty>>
      BY <1>2 DEF Launch
    <2>3. ~signals /\ \A d \in Stoppers : ~ Active(d) /\ ~ Active(d)'
      BY <1>2, <2>2 DEF Launch, Quieter, OneAtATime, Active, IInv, TypeOK
    <2>4. \A i \in Slots : on[i] = None
      <3> TAKE i \in Slots
      <3>1. on[i] \in Proxies \cup {None}
        BY DEF IInv, TypeOK
      <3>2. on[i] # None => <<on[i], i>> \in alive
        BY DEF IInv, Each
      <3>3. \A h \in Proxies : h # starting => <<h, i>> \notin alive
        BY DEF Quieter, OneAtATime
      <3> QED BY <1>2, <3>1, <3>2, <3>3
    <2>5. OneAtATime'
      <3>1. \A h \in Proxies : h # g => stage'[h] = stage[h]
        BY <2>1 DEF IInv, TypeOK
      <3>2. \A h \in Proxies : h # starting
        BY <1>2
      <3> QED BY <1>2, <2>1, <2>2, <2>3, <3>1, <3>2 DEF Quieter, OneAtATime
    <2>6. Opened(starting)'
      <3>1. stage'[g] = "looking" /\ slot'[g] = 1 /\ \A i \in Slots : ~ (i < 1) /\ on'[i] = None
        BY <2>1, <2>2, <2>4 DEF IInv, TypeOK, Each
      <3> QED BY <2>1, <3>1 DEF Opened, Opens
    <2>7. Emptied'
      BY <1>2, <2>2, <2>3 DEF Emptied, Active
    <2> QED BY <2>5, <2>6, <2>7 DEF Quieter
  <1> QED BY <1>1, <1>2 DEF Launch

(* A start that goes on is that of the one proxy; if it is being stopped   *)
(* it was stopped hastily.                                                 *)
LEMMA CalmStart ==
    ASSUME IInv, Quieter, NEW g \in Proxies, Start(g)
    PROVE  Quieter'
  <1> USE Numbers DEF starts, stops, os
  <1>1. /\ ~exited /\ UNCHANGED <<signals, exited, starting, shutting, ending, stop, hasty>>
        /\ stage[g] \in Opens \cup {"asking", "listening"}
        /\ \A h \in Proxies : h # g => stage'[h] = stage[h]
        /\ \A p \in alive' : p \in alive \/ p = <<g, slot[g]>>
    <2>1. stage \in [Proxies -> Stages]
      BY DEF IInv, TypeOK
    <2>2. CASE StartLooks(g)
      BY <2>1, <2>2 DEF Start, StartLooks, Opens
    <2>3. CASE StartKills(g)
      BY <2>1, <2>3 DEF Start, StartKills, Killed, Opens
    <2>4. CASE Spawn(g)
      BY <2>1, <2>4 DEF Start, Spawn, Spawned, Opens
    <2>5. CASE Ask(g)
      BY <2>1, <2>5 DEF Start, Ask, Opens
    <2>6. CASE Listen(g)
      BY <2>1, <2>6 DEF Start, Listen, Opens
    <2>7. ~exited
      BY DEF Start
    <2> QED BY <2>2, <2>3, <2>4, <2>5, <2>6, <2>7 DEF Start
  <1>2. g = starting /\ starting' = g
    BY <1>1 DEF Quieter, OneAtATime, Opens
  <1>3. g \notin shutting => \A d \in Stoppers : ~ Active(d)
    BY <1>2 DEF Quieter, OneAtATime
  <1>4. g \in shutting => g \in hasty
    BY <1>1 DEF IInv, Each, Opens
  <1>5. shared' = shared \/ (shared' = g /\ ~signals)
    BY DEF Start, StartLooks, StartKills, Spawn, Ask, Listen
  <1>6. \A d : Active(d)' <=> Active(d)
    BY <1>1 DEF Active
  <1>7. OneAtATime'
    <2>1. shared' # None => shared' = starting'
      BY <1>2, <1>5 DEF Quieter, OneAtATime
    <2>2. ASSUME NEW h \in Proxies \ {g}
          PROVE  /\ stage'[h] = "none" \/ (stage'[h] = "serving" /\ h \in shutting')
                 /\ \A i \in Slots : <<h, i>> \notin alive' /\ ending'[h][i] = "no"
      BY <1>1, <1>2 DEF Quieter, OneAtATime
    <2>3. \A d \in Stoppers : Active(d) =>
              starting' \in shutting' /\ stop'[d].proxy = starting' /\ Target' = starting'
      BY <1>1, <1>2, <1>5 DEF Quieter, OneAtATime, Target
    <2> QED BY <1>1, <1>2, <1>6, <2>1, <2>2, <2>3 DEF Quieter, OneAtATime
  <1>8. Emptied'
    BY <1>1, <1>2, <1>3, <1>4 DEF Quieter, Emptied, Active
  <1>9. ASSUME g \notin shutting
        PROVE  Opened(g)'
    <2>1. Opened(g)
      BY <1>2, <1>9 DEF Quieter
    <2>2. /\ stage \in [Proxies -> Stages] /\ slot \in [Proxies -> Slots] /\ held \in [Proxies -> SUBSET Slots]
          /\ victim \in [Proxies -> [Slots -> Proxies \cup {None}]] /\ on \in [Slots -> Proxies \cup {None}]
          /\ slot[g] \in Slots /\ g # None
      BY DEF IInv, TypeOK
    <2>3. CASE StartLooks(g)
      <3>1. /\ stage[g] = "looking" /\ stage'[g] = "killing" /\ UNCHANGED <<slot, held, on>>
            /\ victim'[g][slot[g]] = on[slot[g]]
        BY <2>2, <2>3 DEF StartLooks
      <3> QED BY <2>1, <3>1 DEF Opened, Opens
    <2>4. CASE StartKills(g)
      <3>1. /\ stage[g] = "killing" /\ stage'[g] = "spawning" /\ UNCHANGED <<slot, held>>
            /\ Killed({<<victim[g][slot[g]], slot[g]>>})
        BY <2>2, <2>4 DEF StartKills
      <3>2. victim[g][slot[g]] = None
        BY <2>1, <3>1 DEF Opened
      <3>3. \A i \in Slots : on'[i] = on[i]
        BY <3>1, <3>2 DEF Killed
      <3> QED BY <2>1, <2>2, <3>1, <3>3 DEF Opened, Opens
    <2>5. CASE Spawn(g)
      <3>1. CASE stage'[g] = "failed"
        BY <3>1 DEF Opened, Opens
      <3>2. CASE stage' = [stage EXCEPT ![g] = "asking"] /\ Spawned(g)
        <4>1. stage[g] = "spawning" /\ stage'[g] = "asking" /\ UNCHANGED <<slot, held>>
          BY <2>2, <2>5, <3>2 DEF Spawn
        <4>2. on[slot[g]] = None
          BY <2>1, <4>1 DEF Opened, Opens
        <4>3. \A i \in Slots : on'[i] = IF i = slot[g] THEN g ELSE on[i]
          BY <2>2, <3>2, <4>2 DEF Spawned
        <4>4. \A i \in Slots : (i < slot[g] \/ i > slot[g]) => i # slot[g]
          BY <2>2
        <4> QED BY <2>1, <2>2, <4>1, <4>3, <4>4 DEF Opened, Opens
      <3> QED BY <2>2, <2>5, <3>1, <3>2 DEF Spawn
    <2>6. CASE Ask(g)
      <3>1. stage[g] = "asking" /\ on' = on
        BY <2>6 DEF Ask
      <3>2. CASE stage'[g] = "failed"
        BY <3>2 DEF Opened, Opens
      <3>3. CASE /\ held' = [held EXCEPT ![g] = @ \cup {slot[g]}]
                 /\ stage' = [stage EXCEPT ![g] = IF slot[g] = Size THEN "listening" ELSE "looking"]
                 /\ slot' = [slot EXCEPT ![g] = IF @ = Size THEN @ ELSE @ + 1]
        <4>1. /\ held'[g] = held[g] \cup {slot[g]} /\ held'[g] \subseteq Slots
              /\ slot[g] = Size => stage'[g] = "listening"
              /\ slot[g] # Size => stage'[g] = "looking" /\ slot'[g] = slot[g] + 1
          BY <2>2, <3>3
        <4>2. \A i \in Slots : /\ i < slot[g] => i \in held[g] /\ on[i] = g
                               /\ i > slot[g] => on[i] = None
                               /\ i = slot[g] => on[i] = g
          BY <2>1, <3>1 DEF Opened
        <4>3. \A i \in Slots : i \in Nat /\ slot[g] \in Nat /\ (i < slot[g] \/ i = slot[g] \/ i > slot[g])
          <5>1. slot[g] \in Nat
            BY <2>2
          <5>2. \A i \in Slots : i \in Nat
            OBVIOUS
          <5> QED BY <5>1, <5>2
        <4>4. CASE slot[g] = Size
          <5>1. \A i \in Slots : i \in held'[g] /\ on'[i] = g
            BY <3>1, <4>1, <4>2, <4>3, <4>4
          <5> QED BY <4>1, <4>4, <5>1 DEF Opened, Opens
        <4>5. CASE slot[g] # Size
          <5>1. \A i \in Slots : /\ i < slot[g] + 1 => i \in held'[g] /\ on'[i] = g
                                 /\ i > slot[g] + 1 => on'[i] = None
                                 /\ i = slot[g] + 1 => on'[i] = None
            BY <3>1, <4>1, <4>2, <4>3
          <5>2. slot[g] + 1 \in Slots
            BY <2>2, <4>5
          <5> QED BY <4>1, <4>5, <5>1, <5>2 DEF Opened, Opens
        <4> QED BY <4>4, <4>5
      <3> QED BY <2>2, <2>6, <3>2, <3>3 DEF Ask
    <2>7. CASE Listen(g)
      <3>1. /\ stage[g] = "listening" /\ stage'[g] \in {"serving", "failed"} /\ UNCHANGED <<slot, held, on>>
        BY <2>2, <2>7 DEF Listen
      <3> QED BY <2>1, <3>1 DEF Opened, Opens
    <2> QED BY <2>3, <2>4, <2>5, <2>6, <2>7 DEF Start
  <1>10. starting' # None /\ starting' \notin shutting' => Opened(starting)'
    <2>1. Opened(starting)' <=> Opened(g)'
      BY <1>2 DEF Opened
    <2> QED BY <1>1, <1>2, <1>9, <2>1
  <1> QED BY <1>7, <1>8, <1>10 DEF Quieter

(* Who stops, without overlap, stops the one proxy, and nobody else does.  *)
LEMMA CalmStop ==
    ASSUME IInv, Quieter, NEW d \in Stoppers, ~exited, Stop(d), ~overlap'
    PROVE  Quieter'
  <1> USE Numbers DEF starts, stops, os
  <1>1. UNCHANGED <<signals, exited, shared, starting, stage, slot, held, ending, victim, alive, on>>
    BY DEF Stop
  <1>2. stop \in [Stoppers -> StopType]
    BY DEF IInv, TypeOK
  <1>3. CASE Target = None
    <2>1. /\ UNCHANGED <<shutting, hasty>> /\ stop'[d].at = "done"
          /\ \A e \in Stoppers : e # d => stop'[e] = stop[e]
      BY <1>2, <1>3 DEF Stop, StopType
    <2>2. \A e \in Stoppers : ~ Active(e) /\ ~ Active(e)'
      <3>1. None \notin shutting
        BY DEF IInv, TypeOK
      <3>2. \A e \in Stoppers : ~ Active(e)
        BY <1>3, <3>1 DEF Quieter, OneAtATime
      <3>3. \A e \in Stoppers : ~ Active(e)'
        BY <2>1, <3>2 DEF Active
      <3> QED BY <3>2, <3>3
    <2>3. OneAtATime' /\ Emptied'
      BY <1>1, <2>1, <2>2 DEF Quieter, OneAtATime, Emptied, Active
    <2>4. Opened(starting)' <=> Opened(starting)
      BY <1>1 DEF Opened
    <2> QED BY <1>1, <2>1, <2>3, <2>4 DEF Quieter
  <1>4. CASE Target # None
    <2>1. /\ shutting' = shutting \cup {Target} /\ Target \notin shutting
          /\ stop' = [stop EXCEPT ![d] = [at |-> "running", proxy |-> Target]]
          /\ hasty' = IF stage[Target] = "serving" THEN hasty ELSE hasty \cup {Target}
      BY <1>4 DEF Stop
    <2>2. Target = starting /\ Target' = Target /\ Target \in Proxies
      BY <1>1, <1>4 DEF Target, Quieter, OneAtATime, IInv, Each, TypeOK
    <2>3. \A e \in Stoppers : ~ Active(e)
      BY <2>1, <2>2 DEF Quieter, OneAtATime
    <2>4. /\ stop'[d].at = "running" /\ stop'[d].proxy = starting
          /\ \A e \in Stoppers : e # d => ~ Active(e)' /\ stop'[e].at \notin {"running", "closing", "finishing"}
      BY <1>2, <2>1, <2>2, <2>3 DEF Active
    <2>5. OneAtATime'
      BY <1>1, <2>1, <2>2, <2>4 DEF Quieter, OneAtATime
    <2>6. starting \notin hasty' => held[starting] = Slots
      BY <1>4, <2>1, <2>2 DEF Quieter, Opened
    <2>7. Emptied'
      BY <1>1, <2>4, <2>6 DEF Emptied
    <2>8. starting' \in shutting'
      BY <1>1, <2>1, <2>2
    <2> QED BY <2>5, <2>7, <2>8 DEF Quieter
  <1> QED BY <1>3, <1>4

LEMMA CalmClose ==
    ASSUME IInv, Quieter, NEW d \in Stoppers, Stops(d)
    PROVE  Quieter'
  <1> USE Numbers DEF starts, stops, os
  <1>1. /\ stop \in [Stoppers -> StopType] /\ alive \subseteq Proxies \X Slots
        /\ ending \in [Proxies -> [Slots -> {"no", "looking", "killing"}]]
        /\ held \in [Proxies -> SUBSET Slots]
    BY DEF IInv, TypeOK
  <1>2. Active(d)
    BY DEF Stops, ClosePool, PoolClosed, Finished, Active
  <1>3. /\ starting \in shutting /\ stop[d].proxy = starting /\ Target = starting /\ starting \in Proxies
        /\ \A e \in Stoppers : e # d => ~ Active(e)
    BY <1>2 DEF Quieter, OneAtATime, IInv, TypeOK
  <1>4. ASSUME NEW k \in {"closing", "finishing", "done"}, stop' = [stop EXCEPT ![d].at = k]
        PROVE  /\ stop'[d].at = k /\ stop'[d].proxy = starting
               /\ \A e \in Stoppers : e # d =>
                     ~ Active(e)' /\ stop'[e].at \notin {"running", "closing", "finishing"}
    BY <1>1, <1>3, <1>4 DEF Active, StopType
  <1>5. CASE ClosePool(d)
    <2>1. /\ stop' = [stop EXCEPT ![d].at = "closing"]
          /\ ending' = [ending EXCEPT ![starting] =
                           [i \in Slots |-> IF i \in held[starting] THEN "looking" ELSE @[i]]]
          /\ stop[d].at = "running" /\ alive' = alive \ ({starting} \X held[starting])
          /\ UNCHANGED <<signals, exited, shared, starting, stage, slot, held, server, shutting, hasty>>
      BY <1>3, <1>5 DEF ClosePool, Killed
    <2>2. ~exited
      BY DEF Stops
    <2>3. \A h \in Proxies : h # starting => ending'[h] = ending[h]
      BY <1>1, <2>1
    <2>4. OneAtATime'
      <3>1. \A e \in Stoppers : Active(e)' => e = d
        BY <1>4, <2>1
      <3>2. Target' = starting
        BY <1>3, <2>1 DEF Target
      <3>3. \A g \in Proxies \ {starting} :
               /\ stage'[g] = "none" \/ (stage'[g] = "serving" /\ g \in shutting')
               /\ \A i \in Slots : <<g, i>> \notin alive' /\ ending'[g][i] = "no"
        BY <2>1, <2>3 DEF Quieter, OneAtATime
      <3>4. \A g \in Proxies \ shutting', i \in Slots : ending'[g][i] = "no"
        BY <1>3, <2>1, <2>3 DEF Quieter, OneAtATime
      <3>5. shared' # None => shared' = starting'
        BY <2>1 DEF Quieter, OneAtATime
      <3>6. starting' \in shutting' /\ stop'[d].proxy = starting' /\ Target' = starting'
        BY <1>3, <1>4, <2>1, <3>2
      <3> QED BY <2>1, <3>1, <3>3, <3>4, <3>5, <3>6 DEF OneAtATime
    <2>5. Emptied'
      <3>1. starting \notin hasty => \A i \in Slots : <<starting, i>> \notin alive'
        BY <2>1 DEF Quieter, Emptied
      <3> QED BY <1>4, <2>1, <2>2, <3>1 DEF Emptied
    <2> QED BY <1>3, <2>1, <2>4, <2>5 DEF Quieter
  <1>6. CASE PoolClosed(d)
    <2>1. /\ stop' = [stop EXCEPT ![d].at = "finishing"] /\ stop[d].at = "closing"
          /\ \A i \in Slots : ending[starting][i] = "no"
          /\ UNCHANGED <<signals, exited, shared, starting, stage, shutting, ending, alive, hasty>>
      BY <1>3, <1>6 DEF PoolClosed
    <2>2. ~exited
      BY DEF Stops
    <2>3. OneAtATime'
      <3>1. \A e \in Stoppers : Active(e)' => e = d
        BY <1>4, <2>1
      <3>2. starting' \in shutting' /\ stop'[d].proxy = starting' /\ Target' = starting'
        BY <1>3, <1>4, <2>1 DEF Target
      <3> QED BY <2>1, <3>1, <3>2 DEF Quieter, OneAtATime
    <2>4. Emptied'
      BY <1>4, <2>1, <2>2 DEF Quieter, Emptied
    <2> QED BY <1>3, <2>1, <2>3, <2>4 DEF Quieter
  <1>7. CASE Finished(d)
    <2>1. /\ stop' = [stop EXCEPT ![d].at = "done"] /\ stop[d].at = "finishing" /\ ~exited
          /\ UNCHANGED <<signals, stage, slot, held, server, shutting, ending, victim, alive, on, hasty>>
      BY <1>7 DEF Finished, Forget, Stops
    <2>2. \A e \in Stoppers : ~ Active(e)' /\ stop'[e].at \notin {"running", "closing", "finishing"}
      BY <1>4, <2>1 DEF Active
    <2>3. starting \notin hasty => alive = {}
      <3>1. ASSUME starting \notin hasty, NEW g \in Proxies, NEW i \in Slots, <<g, i>> \in alive
            PROVE  FALSE
        BY <2>1, <3>1 DEF Quieter, OneAtATime, Emptied
      <3> QED BY <1>1, <3>1
    <2>4. CASE signals
      <3>1. exited' = TRUE /\ UNCHANGED <<shared, starting>>
        BY <1>7, <2>4 DEF Finished, Forget
      <3>2. OneAtATime'
        BY <2>1, <2>2, <3>1 DEF Quieter, OneAtATime
      <3>3. Emptied'
        BY <2>1, <2>2, <2>3, <3>1 DEF Emptied
      <3> QED BY <1>3, <2>1, <3>1, <3>2, <3>3 DEF Quieter
    <2>5. CASE ~signals
      <3>1. shared' = None /\ starting' = None /\ exited' = exited
        BY <1>7, <2>5 DEF Finished, Forget
      <3>2. stage[starting] = "serving" /\ alive = {} /\ \A i \in Slots : ending[starting][i] = "no"
        BY <1>3, <2>1, <2>3, <2>5 DEF IInv, Each, Target, Quieter, Emptied
      <3>3. OneAtATime'
        BY <1>3, <2>1, <2>2, <3>1, <3>2 DEF Quieter, OneAtATime
      <3>4. Emptied'
        BY <2>1, <2>2, <3>1 DEF Emptied
      <3> QED BY <3>1, <3>3, <3>4 DEF Quieter
    <2> QED BY <2>4, <2>5 DEF IInv, TypeOK
  <1> QED BY <1>5, <1>6, <1>7 DEF Stops

(* What a close still kills is of the one proxy, which is being stopped.   *)
LEMMA CalmKill ==
    ASSUME IInv, Quieter, NEW g \in Proxies, ~exited, NEW i \in Slots, CloseLooks(g, i) \/ CloseKills(g, i)
    PROVE  Quieter'
  <1> USE Numbers DEF starts, stops, os
  <1>1. /\ ending \in [Proxies -> [Slots -> {"no", "looking", "killing"}]]
        /\ ending[g][i] # "no"
    BY DEF CloseLooks, CloseKills, IInv, TypeOK
  <1>2. g = starting /\ g \in shutting
    BY <1>1 DEF Quieter, OneAtATime
  <1>3. /\ UNCHANGED <<signals, exited, shared, starting, stage, slot, held, shutting, stop, hasty>>
        /\ alive' \subseteq alive
        /\ \A h \in Proxies : h # g => ending'[h] = ending[h]
    BY <1>1 DEF CloseLooks, CloseKills, Killed
  <1>4. \A d \in Stoppers : stop[d].at # "finishing"
    BY <1>1, <1>2 DEF Quieter, Emptied
  <1>5. OneAtATime'
    BY <1>2, <1>3 DEF Quieter, OneAtATime, Active, Target
  <1>6. Emptied'
    BY <1>3, <1>4 DEF Quieter, Emptied
  <1> QED BY <1>2, <1>3, <1>5, <1>6 DEF Quieter

LEMMA CalmStep == IInv /\ TypeOK' /\ Each' /\ [Next]_vars => Calm'
  <1> SUFFICES ASSUME IInv, TypeOK', Each', [Next]_vars, ~overlap'
               PROVE  Quieter'
    BY DEF Calm
  <1> USE DEF starts, stops, os
  <1>1. overlap => overlap'
    BY DEF Next, Start, StartLooks, StartKills, Spawn, Ask, Listen, Close, ServerFinishes, CloseLooks,
           CloseKills, Stops, ClosePool, PoolClosed, Finished, Stop, Settles, Launch, Launched, vars
  <1>2. Quieter
    BY <1>1 DEF IInv, Calm
  <1>3. ASSUME NEW l \in Launchers, Settles(l)
        PROVE  Quieter'
    BY <1>2, <1>3, CalmKept DEF Settles, Launched
  <1>4. ASSUME NEW g \in Proxies, Close(g)
        PROVE  Quieter'
    <2>1. CASE ServerFinishes(g)
      BY <1>2, <2>1, CalmKept DEF ServerFinishes
    <2> QED BY <1>2, <1>4, <2>1, CalmKill DEF Close
  <1>5. CASE UNCHANGED vars
    BY <1>2, <1>5, CalmKept DEF vars
  <1> QED BY <1>2, <1>3, <1>4, <1>5, CalmLaunch, CalmStart, CalmStop, CalmClose DEF Next

LEMMA Inductive == IInv /\ [Next]_vars => IInv'
  BY TypeStep, EachStep, CalmStep DEF IInv

LEMMA Invariance == Spec => []IInv
  BY Begins, Inductive, PTL DEF Spec

(* The proxies, the slots and the processes stay in the states the code    *)
(* can name.                                                               *)
THEOREM TypeSafety == Spec => []TypeOK
  <1>1. IInv => TypeOK
    BY DEF IInv
  <1> QED BY <1>1, Invariance, PTL

(* A browser is left to itself only by a start that failed, a signal that  *)
(* came before the start was over, or two shutdowns at a time (shutdown of *)
(* the SDK, BrowserPool.close, ShutdownManager).                           *)
THEOREM NobodyIsLeft == Spec => []NoOrphans
  <1>1. IInv => NoOrphans
    <2> SUFFICES ASSUME IInv, NEW p \in alive, ~overlap
                 PROVE  Stoppable(p[1]) \/ p[1] \in hasty
      BY DEF NoOrphans
    <2>1. PICK g \in Proxies, i \in Slots : p = <<g, i>>
      BY DEF IInv, TypeOK
    <2>2. g = starting
      BY <2>1 DEF IInv, Calm, Quieter, OneAtATime
    <2>3. exited => g \in hasty
      BY <2>2 DEF IInv, Calm, Quieter, Emptied
    <2> QED BY <2>1, <2>2, <2>3 DEF Stoppable
  <1> QED BY <1>1, Invariance, PTL

(* A proxy that serves has every slot's browser, and it is its own         *)
(* (BrowserManager.start and the kill by port of the pool before it).      *)
THEOREM ServesWhatItLaunched == Spec => []ServesItsOwn
  <1>1. IInv => ServesItsOwn
    <2> SUFFICES ASSUME IInv, NEW g \in Proxies, stage[g] = "serving", g \notin shutting, ~overlap
                 PROVE  \A i \in Slots : on[i] = g /\ <<g, i>> \in alive
      BY DEF ServesItsOwn
    <2>1. g = starting /\ g # None
      BY Numbers DEF IInv, Calm, Quieter, OneAtATime
    <2>2. \A i \in Slots : on[i] = g
      BY <2>1 DEF IInv, Calm, Quieter, Opened
    <2> QED BY <2>1, <2>2 DEF IInv, Each
  <1> QED BY <1>1, Invariance, PTL
-----------------------------------------------------------------------------
(* What a draw or a burn is at, and a line of the burn file.               *)
Places == {"idle", "remote", "corpus", "reading", "loading", "drawn",
           "telling", "told", "appending", "burnt"}
Ids      == Rows \cup {Made}
TaskType == [at : Places, want : SUBSET Rows, row : Ids, tries : Nat]
LineType == [id : Ids, parses : BOOLEAN, ended : BOOLEAN]

CorpusTypeOK ==
    /\ task \in [Sessions -> TaskType] /\ file \in Seq(LineType)
    /\ burnt \subseteq Ids /\ withdrawn \subseteq Rows
    /\ acked \subseteq Ids /\ recorded \subseteq Ids
    /\ recovered \in BOOLEAN /\ unread \in BOOLEAN
    /\ crashes \in Nat /\ cut \in Nat

(* A line that has its end keeps what it says; an append can only spoil    *)
(* the last line, and only if that one has none.                           *)
Whole(i) == file[i].parses /\ file[i].ended
Kept     == {file[i].id : i \in {j \in DOMAIN file : Whole(j)}}
Tail1    == file # <<>> /\ ~file[Len(file)].ended

OneEach ==
    /\ IsFiniteSet(recorded)
    /\ Cardinality(recorded \ Kept) + (IF Tail1 THEN 1 ELSE 0) <= cut

(* What this process answered, and is about to answer, it knows; and what  *)
(* the file holds as soon as it has been read back.                        *)
Reading == \E t \in Sessions : At(t, "reading")

Known ==
    /\ acked \subseteq burnt
    /\ \A s \in Sessions : At(s, "appending") => task[s].row \in burnt
    /\ \A s \in Sessions : task[s].at \in {"reading", "loading"} => recovered
    /\ recovered /\ ~unread /\ ~Reading => Readable \subseteq burnt

CInv == CorpusTypeOK /\ OneEach /\ Known
-----------------------------------------------------------------------------
LEMMA CorpusBegins == CorpusInit => CInv
  <1> SUFFICES ASSUME CorpusInit
               PROVE  CInv
    OBVIOUS
  <1>1. CorpusTypeOK
    <2>1. Idle \in TaskType
      BY DEF Idle, TaskType, Places, Ids
    <2>2. task \in [Sessions -> TaskType]
      BY <2>1 DEF CorpusInit
    <2>3. file \in Seq(LineType) /\ crashes \in Nat /\ cut \in Nat
      BY DEF CorpusInit
    <2> QED BY <2>2, <2>3 DEF CorpusInit, CorpusTypeOK
  <1>2. OneEach
    <2>1. recorded \ Kept = {}
      BY DEF CorpusInit
    <2> QED BY <2>1, FS_EmptySet DEF CorpusInit, OneEach, Tail1
  <1>3. Known
    BY DEF CorpusInit, Known, At, Idle, Readable
  <1> QED BY <1>1, <1>2, <1>3 DEF CInv

(* What an append leaves: a line is added, or the last, open one is        *)
(* spoilt.                                                                 *)
LEMMA WrittenLine ==
    ASSUME CorpusTypeOK, NEW id \in Ids, NEW how, file' = Written(id, how)
    PROVE  /\ file' \in Seq(LineType)
           /\ Readable' \subseteq Readable \cup {id}
           /\ Kept \subseteq Kept'
           /\ how = "all" => ~Tail1'
           /\ how = "all" /\ ~Tail1 => id \in Kept'
  <1> DEFINE line == [id |-> id, parses |-> how # "part", ended |-> how = "all"]
             spoilt == [line EXCEPT !.parses = FALSE]
  <1>1. line \in LineType /\ spoilt \in LineType
    BY DEF LineType
  <1>2. /\ line.id = id /\ line.parses = (how # "part") /\ line.ended = (how = "all")
        /\ spoilt.id = id /\ spoilt.parses = FALSE /\ spoilt.ended = (how = "all")
    OBVIOUS
  <1>3. file \in Seq(LineType) /\ Len(file) \in Nat /\ DOMAIN file = 1..Len(file)
    BY DEF CorpusTypeOK
  <1>4. CASE Tail1
    <2>1. file' = [file EXCEPT ![Len(file)] = spoilt]
      BY <1>4 DEF Tail1, Written
    <2> HIDE DEF spoilt
    <2>2. Len(file) \in DOMAIN file
      BY <1>3, <1>4 DEF Tail1
    <2>3. file' \in Seq(LineType) /\ DOMAIN file' = DOMAIN file /\ Len(file') = Len(file)
      BY <1>1, <1>3, <2>1, <2>2, ExceptSeq
    <2>4. \A j \in DOMAIN file : j # Len(file) => file'[j] = file[j]
      BY <2>1
    <2>5. file'[Len(file)] = spoilt
      BY <2>1, <2>2
    <2>6. Readable' \subseteq Readable
      BY <1>2, <2>3, <2>4, <2>5 DEF Readable
    <2>7. Kept \subseteq Kept'
      BY <1>4, <2>3, <2>4 DEF Kept, Whole, Tail1
    <2>8. how = "all" => ~Tail1'
      BY <1>2, <2>3, <2>5 DEF Tail1
    <2> QED BY <1>4, <2>3, <2>6, <2>7, <2>8
  <1>5. CASE ~Tail1
    <2>1. file' = Append(file, line)
      BY <1>5 DEF Tail1, Written
    <2> HIDE DEF line
    <2>2. /\ file' \in Seq(LineType) /\ Len(file') = Len(file) + 1
          /\ file'[Len(file) + 1] = line /\ DOMAIN file' = 1..(Len(file) + 1)
          /\ \A j \in DOMAIN file : file'[j] = file[j]
      BY <1>1, <1>3, <2>1
    <2>3. Readable' \subseteq Readable \cup {id}
      <3> SUFFICES ASSUME NEW j \in DOMAIN file', file'[j].parses
                   PROVE  file'[j].id \in Readable \cup {id}
        BY DEF Readable
      <3> QED BY <1>2, <1>3, <2>2 DEF Readable
    <2>4. Kept \subseteq Kept'
      BY <1>3, <2>2 DEF Kept, Whole
    <2>5. how = "all" => ~Tail1' /\ id \in Kept'
      <3> SUFFICES ASSUME how = "all"
                   PROVE  ~Tail1' /\ id \in Kept'
        OBVIOUS
      <3>1. file'[Len(file')].ended /\ file'[Len(file')].parses /\ file'[Len(file')].id = id
        BY <1>2, <1>3, <2>2
      <3>2. Len(file') \in DOMAIN file'
        BY <1>3, <2>2
      <3> QED BY <3>1, <3>2 DEF Tail1, Kept, Whole
    <2> QED BY <1>5, <2>2, <2>3, <2>4, <2>5
  <1> QED BY <1>4, <1>5

LEMMA CorpusTypeStep == CorpusTypeOK /\ [CorpusNext]_corpusVars => CorpusTypeOK'
  <1> SUFFICES ASSUME CorpusTypeOK, [CorpusNext]_corpusVars
               PROVE  CorpusTypeOK'
    OBVIOUS
  <1>1. Idle \in TaskType
    BY DEF Idle, TaskType, Places, Ids
  <1>2. Readable \subseteq Ids
    <2>1. \A j \in DOMAIN file : file[j] \in LineType
      BY DEF CorpusTypeOK
    <2> QED BY <2>1 DEF Readable, LineType
  <1>3. CASE UNCHANGED corpusVars
    BY <1>3 DEF CorpusTypeOK, corpusVars
  <1>4. ASSUME NEW s \in Sessions, Drawing(s) \/ Burning(s) \/ StartDraw(s) \/ StartBurn(s) \/ Leave(s)
        PROVE  CorpusTypeOK'
    <2>1. task[s] \in TaskType
      BY DEF CorpusTypeOK
    <2>2. task[s].row \in Ids /\ task[s].want \subseteq Rows /\ task[s].tries \in Nat
      BY <2>1 DEF TaskType
    <2>3. \A p \in Places, row \in Ids, n \in Nat, w \in SUBSET Rows :
            /\ [task[s] EXCEPT !.at = p] \in TaskType
            /\ [task[s] EXCEPT !.at = p, !.row = row] \in TaskType
            /\ [task[s] EXCEPT !.at = p, !.tries = n] \in TaskType
            /\ [task[s] EXCEPT !.tries = n] \in TaskType
            /\ [Idle EXCEPT !.at = p, !.want = w, !.tries = n] \in TaskType
      BY <1>1, <2>1 DEF TaskType
    <2>4. \E t \in TaskType : task' = [task EXCEPT ![s] = t]
      <3>1. CASE \E p \in Places : Goto(s, p)
        <4>1. PICK p \in Places : task' = [task EXCEPT ![s].at = p]
          BY <3>1 DEF Goto
        <4>2. task' = [task EXCEPT ![s] = [task[s] EXCEPT !.at = p]]
          BY <4>1
        <4>3. [task[s] EXCEPT !.at = p] \in TaskType
          BY <2>3, <2>2
        <4> QED BY <4>2, <4>3
      <3>2. CASE \E p, n \in Places : Again(s, p, n)
        <4>1. PICK n \in Places :
                task' = IF task[s].tries < Attempts THEN [task EXCEPT ![s].tries = @ + 1]
                        ELSE [task EXCEPT ![s].at = n]
          BY <3>2 DEF Again
        <4>2. \/ task' = [task EXCEPT ![s] = [task[s] EXCEPT !.tries = task[s].tries + 1]]
              \/ task' = [task EXCEPT ![s] = [task[s] EXCEPT !.at = n]]
          BY <4>1
        <4>3. task[s].tries + 1 \in Nat
          BY <2>2
        <4>4. [task[s] EXCEPT !.tries = task[s].tries + 1] \in TaskType /\ [task[s] EXCEPT !.at = n] \in TaskType
          BY <2>3, <2>2, <4>3
        <4> QED BY <4>2, <4>4
      <3>3. CASE StartDraw(s)
        <4>1. PICK want \in Wants :
                task' = [task EXCEPT ![s] = [Idle EXCEPT !.at = "remote", !.want = want, !.tries = 1]]
          BY <3>3 DEF StartDraw
        <4>2. want \in SUBSET Rows /\ "remote" \in Places /\ 1 \in Nat
          BY CorpusAssumption DEF Places
        <4>3. [Idle EXCEPT !.at = "remote", !.want = want, !.tries = 1] \in TaskType
          BY <2>2, <2>3, <4>2
        <4> QED BY <4>1, <4>3
      <3>4. CASE \E row \in Ids : task' = [task EXCEPT ![s].at = "drawn", ![s].row = row]
        <4>1. PICK row \in Ids : task' = [task EXCEPT ![s].at = "drawn", ![s].row = row]
          BY <3>4
        <4>2. task' = [task EXCEPT ![s] = [task[s] EXCEPT !.at = "drawn", !.row = row]] /\ "drawn" \in Places
          BY <4>1 DEF CorpusTypeOK, Places
        <4>3. [task[s] EXCEPT !.at = "drawn", !.row = row] \in TaskType
          BY <2>2, <2>3, <4>2
        <4> QED BY <4>2, <4>3
      <3>5. CASE task' = [task EXCEPT ![s].at = "telling", ![s].tries = 1]
        <4>1. /\ task' = [task EXCEPT ![s] = [task[s] EXCEPT !.at = "telling", !.tries = 1]]
              /\ "telling" \in Places /\ 1 \in Nat
          BY <3>5 DEF CorpusTypeOK, Places
        <4>2. [task[s] EXCEPT !.at = "telling", !.tries = 1] \in TaskType
          BY <2>2, <2>3, <4>1
        <4> QED BY <4>1, <4>2
      <3>6. CASE task' = [task EXCEPT ![s] = Idle]
        BY <1>1, <3>6
      <3>7. CASE Drawing(s)
        <4>1. task[s].want \ withdrawn \subseteq Ids /\ (task[s].want \ burnt) \cup {Made} \subseteq Ids
          BY <2>2 DEF Ids
        <4>2. CASE RemoteDraws(s)
          BY <3>1, <3>4, <4>1, <4>2 DEF RemoteDraws, Places
        <4>3. CASE RemoteFails(s)
          BY <3>2, <4>3 DEF RemoteFails, Places
        <4>4. CASE CorpusOpens(s) \/ ReadBack(s) \/ ReadFails(s)
          BY <3>1, <4>4 DEF CorpusOpens, ReadBack, ReadFails, Places
        <4>5. CASE CorpusDraws(s)
          BY <3>4, <4>1, <4>5 DEF CorpusDraws
        <4> QED BY <3>7, <4>2, <4>3, <4>4, <4>5 DEF Drawing
      <3>8. CASE Burning(s)
        <4>1. CASE RemoteHears(s) \/ RemoteDeaf(s)
          BY <3>1, <3>2, <4>1 DEF RemoteHears, RemoteDeaf, Places
        <4>2. CASE CorpusBurns(s) \/ Appended(s) \/ AppendFails(s)
          BY <3>1, <4>2 DEF CorpusBurns, Appended, AppendFails, Places
        <4> QED BY <3>8, <4>1, <4>2 DEF Burning
      <3> QED BY <1>4, <3>3, <3>5, <3>6, <3>7, <3>8 DEF StartBurn, Leave
    <2>5. task' \in [Sessions -> TaskType]
      <3>1. PICK t \in TaskType : task' = [task EXCEPT ![s] = t]
        BY <2>4
      <3> QED BY <3>1 DEF CorpusTypeOK
    <2>6. file' \in Seq(LineType)
      <3>1. ASSUME NEW how, file' = Written(task[s].row, how)
            PROVE  file' \in Seq(LineType)
        <4>1. PICK id \in Ids : id = task[s].row
          BY <2>2
        <4> QED BY <3>1, <4>1, WrittenLine
      <3>2. CASE ~Appended(s) /\ ~AppendFails(s)
        BY <1>4, <3>2 DEF Drawing, Burning, StartDraw, StartBurn, Leave, RemoteDraws, RemoteFails, CorpusOpens,
          ReadBack, ReadFails, CorpusDraws, RemoteHears, RemoteDeaf, CorpusBurns, CorpusTypeOK
      <3>3. file \in Seq(LineType)
        BY DEF CorpusTypeOK
      <3> QED BY <3>1, <3>2, <3>3 DEF Appended, AppendFails, CutShort
    <2>7. /\ burnt' \subseteq Ids /\ withdrawn' \subseteq Rows
          /\ acked' \subseteq Ids /\ recorded' \subseteq Ids
          /\ crashes' \in Nat /\ cut' \in Nat
      <3>1. burnt' = burnt \/ burnt' = burnt \cup Readable \/ burnt' = burnt \cup {task[s].row}
        BY <1>4 DEF Drawing, Burning, StartDraw, StartBurn, Leave, RemoteDraws, RemoteFails, CorpusOpens,
          ReadBack, ReadFails, CorpusDraws, RemoteHears, RemoteDeaf, CorpusBurns, Appended, AppendFails, histories
      <3>2. withdrawn' = withdrawn \/ withdrawn' = withdrawn \cup ({task[s].row} \cap Rows)
        BY <1>4 DEF Drawing, Burning, StartDraw, StartBurn, Leave, RemoteDraws, RemoteFails, CorpusOpens,
          ReadBack, ReadFails, CorpusDraws, RemoteHears, RemoteDeaf, CorpusBurns, Appended, AppendFails, histories
      <3>3. /\ acked' = acked \/ acked' = acked \cup {task[s].row}
            /\ recorded' = recorded \/ recorded' = recorded \cup {task[s].row}
        BY <1>4 DEF Drawing, Burning, StartDraw, StartBurn, Leave, RemoteDraws, RemoteFails, CorpusOpens,
          ReadBack, ReadFails, CorpusDraws, RemoteHears, RemoteDeaf, CorpusBurns, Appended, AppendFails, histories
      <3>4. UNCHANGED crashes /\ cut' \in {cut, cut + 1}
        BY <1>4 DEF CutShort, Drawing, Burning, StartDraw, StartBurn, Leave, RemoteDraws, RemoteFails, CorpusOpens,
          ReadBack, ReadFails, CorpusDraws, RemoteHears, RemoteDeaf, CorpusBurns, Appended, AppendFails, histories
      <3>5. burnt' \subseteq Ids /\ withdrawn' \subseteq Rows
        BY <1>2, <2>2, <3>1, <3>2 DEF CorpusTypeOK
      <3>6. acked' \subseteq Ids /\ recorded' \subseteq Ids
        BY <2>2, <3>3 DEF CorpusTypeOK
      <3>8. crashes' \in Nat /\ cut' \in Nat
        BY <3>4 DEF CorpusTypeOK
      <3> QED BY <3>5, <3>6, <3>8
    <2>8. recovered' \in BOOLEAN /\ unread' \in BOOLEAN
      <3>1. /\ recovered' = recovered \/ recovered' = TRUE
            /\ unread' = unread \/ unread' = TRUE
        BY <1>4 DEF Drawing, Burning, StartDraw, StartBurn, Leave, RemoteDraws, RemoteFails, CorpusOpens,
          ReadBack, ReadFails, CorpusDraws, RemoteHears, RemoteDeaf, CorpusBurns, Appended, AppendFails, histories
      <3> QED BY <3>1, Zenon DEF CorpusTypeOK
    <2> QED BY <2>5, <2>6, <2>7, <2>8 DEF CorpusTypeOK
  <1>5. CASE Crash
    <2>1. task' \in [Sessions -> TaskType]
      BY <1>1, <1>5 DEF Crash
    <2>2. file' \in Seq(LineType) /\ cut' \in Nat
      <3>1. CASE UNCHANGED <<file, cut>>
        BY <3>1 DEF CorpusTypeOK
      <3>2. ASSUME NEW s \in Sessions, NEW how, file' = Written(task[s].row, how), cut' = cut + 1
            PROVE  file' \in Seq(LineType) /\ cut' \in Nat
        <4>1. PICK id \in Ids : id = task[s].row
          BY DEF CorpusTypeOK, TaskType
        <4>2. file' \in Seq(LineType)
          BY <3>2, <4>1, WrittenLine
        <4> QED BY <3>2, <4>2 DEF CorpusTypeOK
      <3> QED BY <1>5, <3>1, <3>2 DEF Crash, CutShort
    <2>3. burnt' = {} /\ acked' = {} /\ recovered' = FALSE /\ unread' = FALSE
          /\ UNCHANGED <<withdrawn, recorded>>
      BY <1>5 DEF Crash
    <2>4. crashes' \in Nat
      <3>1. crashes' = crashes + 1
        BY <1>5, Zenon DEF Crash
      <3> QED BY <3>1 DEF CorpusTypeOK
    <2> QED BY <2>1, <2>2, <2>3, <2>4 DEF CorpusTypeOK
  <1> QED BY <1>3, <1>4, <1>5 DEF CorpusNext

(* Each append cut short may cost one burn that was recorded, and only     *)
(* while it has left an open line behind.                                  *)
LEMMA OneEachStep == CorpusTypeOK /\ OneEach /\ [CorpusNext]_corpusVars => OneEach'
  <1> SUFFICES ASSUME CorpusTypeOK, OneEach, [CorpusNext]_corpusVars
               PROVE  OneEach'
    OBVIOUS
  <1> DEFINE Due == IF Tail1 THEN 1 ELSE 0
  <1>1. /\ IsFiniteSet(recorded \ Kept) /\ Cardinality(recorded \ Kept) \in Nat /\ cut \in Nat
        /\ Cardinality(recorded \ Kept) + Due <= cut /\ Due \in {0, 1}
    BY FS_Difference, FS_CardinalityType DEF OneEach, CorpusTypeOK
  <1>2. CASE UNCHANGED <<file, recorded, cut>>
    BY <1>2 DEF OneEach, Kept, Whole, Tail1
  <1>3. ASSUME NEW s \in Sessions, Appended(s)
        PROVE  OneEach'
    <2>1. PICK id \in Ids : id = task[s].row
      BY DEF CorpusTypeOK, TaskType
    <2>2. file' = Written(id, "all") /\ recorded' = recorded \cup {id} /\ cut' = cut
      BY <1>3, <2>1 DEF Appended
    <2>3. Kept \subseteq Kept' /\ ~Tail1' /\ (~Tail1 => id \in Kept')
      BY <2>2, WrittenLine
    <2>4. IsFiniteSet(recorded')
      BY <2>2, FS_AddElement DEF OneEach
    <2>5. CASE Tail1
      <3>1. recorded' \ Kept' \subseteq (recorded \ Kept) \cup {id}
        BY <2>2, <2>3
      <3>2. IsFiniteSet((recorded \ Kept) \cup {id})
            /\ Cardinality((recorded \ Kept) \cup {id}) <= Cardinality(recorded \ Kept) + 1
        BY <1>1, FS_AddElement
      <3>3. Cardinality(recorded' \ Kept') <= Cardinality((recorded \ Kept) \cup {id})
            /\ Cardinality(recorded' \ Kept') \in Nat /\ Cardinality((recorded \ Kept) \cup {id}) \in Nat
        BY <3>1, <3>2, FS_Subset, FS_CardinalityType
      <3>4. Cardinality(recorded' \ Kept') <= cut
        BY <1>1, <2>5, <3>2, <3>3
      <3> QED BY <2>2, <2>3, <2>4, <3>3, <3>4 DEF OneEach
    <2>6. CASE ~Tail1
      <3>1. recorded' \ Kept' \subseteq recorded \ Kept
        BY <2>2, <2>3, <2>6
      <3>2. Cardinality(recorded' \ Kept') <= Cardinality(recorded \ Kept)
            /\ Cardinality(recorded' \ Kept') \in Nat
        BY <1>1, <3>1, FS_Subset, FS_CardinalityType
      <3>3. Cardinality(recorded' \ Kept') <= cut
        BY <1>1, <2>6, <3>2
      <3> QED BY <2>2, <2>3, <2>4, <3>2, <3>3 DEF OneEach
    <2> QED BY <2>5, <2>6
  <1>4. ASSUME NEW s \in Sessions, NEW how, file' = Written(task[s].row, how), cut' = cut + 1, UNCHANGED recorded
        PROVE  OneEach'
    <2>1. PICK id \in Ids : id = task[s].row
      BY DEF CorpusTypeOK, TaskType
    <2>2. Kept \subseteq Kept'
      BY <1>4, <2>1, WrittenLine
    <2>3. recorded' \ Kept' \subseteq recorded \ Kept
      BY <1>4, <2>2
    <2>4. Cardinality(recorded' \ Kept') <= Cardinality(recorded \ Kept)
          /\ Cardinality(recorded' \ Kept') \in Nat
      BY <1>1, <2>3, FS_Subset, FS_CardinalityType
    <2>5. Cardinality(recorded' \ Kept') + 1 <= cut' /\ cut' \in Nat
      BY <1>1, <1>4, <2>4
    <2> QED BY <1>4, <2>4, <2>5 DEF OneEach
  <1>5. CASE Crash
    BY <1>2, <1>4, <1>5 DEF Crash, CutShort
  <1>6. ASSUME NEW s \in Sessions, AppendFails(s)
        PROVE  OneEach'
    BY <1>2, <1>4, <1>6 DEF AppendFails, CutShort
  <1>7. ASSUME NEW s \in Sessions, Drawing(s) \/ Burning(s) \/ StartDraw(s) \/ StartBurn(s) \/ Leave(s),
               ~Appended(s), ~AppendFails(s)
        PROVE  OneEach'
    BY <1>2, <1>7 DEF Drawing, Burning, StartDraw, StartBurn, Leave, RemoteDraws, RemoteFails, CorpusOpens,
      ReadBack, ReadFails, CorpusDraws, RemoteHears, RemoteDeaf, CorpusBurns, histories
  <1> QED BY <1>2, <1>3, <1>5, <1>6, <1>7 DEF CorpusNext, corpusVars

LEMMA GotoMoves ==
    ASSUME CorpusTypeOK, NEW s \in Sessions, NEW place, Goto(s, place)
    PROVE  /\ \A t \in Sessions \ {s} : task'[t] = task[t]
           /\ task'[s].at = place /\ task'[s].row = task[s].row
  <1>1. task[s] \in TaskType /\ s \in DOMAIN task
    BY DEF CorpusTypeOK
  <1>2. task' = [task EXCEPT ![s] = [task[s] EXCEPT !.at = place]]
    BY DEF Goto
  <1>3. \A t \in Sessions \ {s} : task'[t] = task[t]
    BY <1>2 DEF CorpusTypeOK
  <1>4. task'[s] = [task[s] EXCEPT !.at = place]
    BY <1>1, <1>2
  <1> QED BY <1>1, <1>3, <1>4 DEF TaskType

LEMMA AgainMoves ==
    ASSUME CorpusTypeOK, NEW s \in Sessions, NEW place, NEW next, Again(s, place, next)
    PROVE  /\ \A t \in Sessions \ {s} : task'[t] = task[t]
           /\ task'[s].at \in {place, next}
  <1>1. task[s] \in TaskType /\ s \in DOMAIN task /\ task[s].at = place
    BY DEF CorpusTypeOK, Again, At
  <1>2. \/ task' = [task EXCEPT ![s] = [task[s] EXCEPT !.tries = task[s].tries + 1]]
        \/ task' = [task EXCEPT ![s] = [task[s] EXCEPT !.at = next]]
    BY DEF Again
  <1>3. \A t \in Sessions \ {s} : task'[t] = task[t]
    BY <1>2 DEF CorpusTypeOK
  <1>4. \/ task'[s] = [task[s] EXCEPT !.tries = task[s].tries + 1]
        \/ task'[s] = [task[s] EXCEPT !.at = next]
    BY <1>1, <1>2
  <1> QED BY <1>1, <1>3, <1>4 DEF TaskType

(* The steps after which a session is neither at the file nor past the     *)
(* withdrawal of its row.                                                  *)
Away(s) ==
    \/ RemoteDraws(s) \/ RemoteFails(s) \/ CorpusDraws(s) \/ RemoteHears(s) \/ RemoteDeaf(s)
    \/ Appended(s) \/ AppendFails(s) \/ StartDraw(s) \/ StartBurn(s) \/ Leave(s)

LEMMA AwayMoves ==
    ASSUME CorpusTypeOK, NEW s \in Sessions, Away(s)
    PROVE  /\ \A t \in Sessions \ {s} : task'[t] = task[t]
           /\ task'[s].at \notin {"reading", "loading", "appending"} /\ task[s].at # "reading"
  <1>1. task[s] \in TaskType /\ s \in DOMAIN task
    BY DEF CorpusTypeOK
  <1> DEFINE Sets(t) == task' = [task EXCEPT ![s] = t]
  <1>2. ASSUME NEW t, Sets(t), t.at \notin {"reading", "loading", "appending"}
        PROVE  /\ \A r \in Sessions \ {s} : task'[r] = task[r]
               /\ task'[s].at \notin {"reading", "loading", "appending"}
    BY <1>1, <1>2 DEF CorpusTypeOK
  <1> HIDE DEF Sets
  <1>3. CASE RemoteDraws(s) \/ CorpusDraws(s)
    <2>1. task[s].at # "reading"
      BY <1>3 DEF RemoteDraws, CorpusDraws, At
    <2>2. CASE Goto(s, "corpus")
      BY <2>1, <2>2, GotoMoves
    <2>3. ASSUME NEW row, task' = [task EXCEPT ![s].at = "drawn", ![s].row = row]
          PROVE  /\ \A r \in Sessions \ {s} : task'[r] = task[r]
                 /\ task'[s].at \notin {"reading", "loading", "appending"}
      <3>1. Sets([task[s] EXCEPT !.at = "drawn", !.row = row])
        BY <2>3 DEF CorpusTypeOK, Sets
      <3>2. [task[s] EXCEPT !.at = "drawn", !.row = row].at = "drawn"
        BY <1>1 DEF TaskType
      <3> QED BY <3>1, <3>2, <1>2
    <2> QED BY <1>3, <2>1, <2>2, <2>3 DEF RemoteDraws, CorpusDraws
  <1>4. CASE RemoteFails(s) \/ RemoteHears(s) \/ RemoteDeaf(s)
    <2>1. task[s].at # "reading"
      BY <1>4 DEF RemoteFails, RemoteHears, RemoteDeaf, Again, At
    <2>2. Again(s, "remote", "corpus") \/ Again(s, "telling", "told") \/ Goto(s, "told")
      BY <1>4 DEF RemoteFails, RemoteHears, RemoteDeaf
    <2> QED BY <2>1, <2>2, AgainMoves, GotoMoves
  <1>5. CASE Appended(s) \/ AppendFails(s)
    <2>1. task[s].at # "reading" /\ Goto(s, "burnt")
      BY <1>5 DEF Appended, AppendFails, At
    <2> QED BY <2>1, GotoMoves
  <1>6. CASE StartDraw(s)
    <2>1. PICK want : Sets([Idle EXCEPT !.at = "remote", !.want = want, !.tries = 1])
      BY <1>6 DEF StartDraw, Sets
    <2>2. [Idle EXCEPT !.at = "remote", !.want = want, !.tries = 1].at = "remote"
      BY DEF Idle
    <2> QED BY <1>2, <1>6, <2>1, <2>2 DEF StartDraw, At
  <1>7. CASE StartBurn(s)
    <2>1. Sets([task[s] EXCEPT !.at = "telling", !.tries = 1])
      BY <1>7 DEF StartBurn, Sets, CorpusTypeOK
    <2>2. [task[s] EXCEPT !.at = "telling", !.tries = 1].at = "telling"
      BY <1>1 DEF TaskType
    <2> QED BY <1>2, <1>7, <2>1, <2>2 DEF StartBurn, At
  <1>8. CASE Leave(s)
    <2>1. Sets(Idle) /\ Idle.at = "idle"
      BY <1>8 DEF Leave, Sets, Idle
    <2> QED BY <1>2, <1>8, <2>1 DEF Leave
  <1> QED BY <1>3, <1>4, <1>5, <1>6, <1>7, <1>8 DEF Away

(* What is answered was withdrawn before it was written, and a process     *)
(* reads what its predecessors wrote before it draws.                      *)
LEMMA KnownStep == CorpusTypeOK /\ Known /\ [CorpusNext]_corpusVars => Known'
  <1> SUFFICES ASSUME CorpusTypeOK, Known, [CorpusNext]_corpusVars
               PROVE  Known'
    OBVIOUS
  <1>1. CASE UNCHANGED corpusVars
    BY <1>1 DEF corpusVars, Known, Readable, Reading, At
  <1>2. CASE Crash
    BY <1>2 DEF Crash, Known, At, Idle
  <1>3. ASSUME NEW s \in Sessions, Away(s)
        PROVE  Known'
    <2>1. /\ \A t \in Sessions \ {s} : task'[t] = task[t]
          /\ task'[s].at \notin {"reading", "loading", "appending"} /\ task[s].at # "reading"
      BY <1>3, AwayMoves
    <2>2. UNCHANGED <<burnt, recovered, unread>>
      BY <1>3 DEF Away, RemoteDraws, RemoteFails, CorpusDraws, RemoteHears, RemoteDeaf, Appended, AppendFails,
        StartDraw, StartBurn, Leave, histories
    <2>3. /\ acked' = acked \/ (At(s, "appending") /\ acked' = acked \cup {task[s].row})
          /\ file' = file \/ (At(s, "appending") /\ \E how : file' = Written(task[s].row, how))
      BY <1>3 DEF CutShort, Away, RemoteDraws, RemoteFails, CorpusDraws, RemoteHears, RemoteDeaf, Appended, AppendFails,
        StartDraw, StartBurn, Leave, histories
    <2>4. acked' \subseteq burnt'
      BY <2>2, <2>3 DEF Known
    <2>5. Readable' \subseteq Readable \cup burnt
      <3>1. PICK id \in Ids : id = task[s].row
        BY DEF CorpusTypeOK, TaskType
      <3>2. CASE file' = file
        BY <3>2 DEF Readable
      <3>3. CASE At(s, "appending") /\ \E how : file' = Written(id, how)
        <4>1. Readable' \subseteq Readable \cup {id}
          BY <3>3, WrittenLine
        <4> QED BY <3>1, <3>3, <4>1 DEF Known
      <3> QED BY <2>3, <3>1, <3>2, <3>3
    <2>6. Reading <=> Reading'
      BY <2>1 DEF Reading, At
    <2> QED BY <2>1, <2>2, <2>4, <2>5, <2>6 DEF Known, At
  <1>4. ASSUME NEW s \in Sessions, CorpusOpens(s)
        PROVE  Known'
    <2>1. /\ \A t \in Sessions \ {s} : task'[t] = task[t]
          /\ task'[s].at = IF recovered THEN "loading" ELSE "reading"
      BY <1>4, GotoMoves DEF CorpusOpens
    <2>2. recovered' = TRUE /\ UNCHANGED <<burnt, file, acked, unread>> /\ task[s].at = "corpus"
      BY <1>4 DEF CorpusOpens, histories, At
    <2>3. Readable' = Readable
      BY <2>2 DEF Readable
    <2>4. ~Reading' => recovered /\ ~Reading
      BY <2>1, <2>2 DEF Reading, At
    <2> QED BY <2>1, <2>2, <2>3, <2>4 DEF Known, At
  <1>5. ASSUME NEW s \in Sessions, ReadBack(s) \/ ReadFails(s)
        PROVE  Known'
    <2>1. (\A t \in Sessions \ {s} : task'[t] = task[t]) /\ task'[s].at = "loading"
      BY <1>5, GotoMoves DEF ReadBack, ReadFails
    <2>2. recovered' = recovered /\ UNCHANGED <<file, acked>> /\ task[s].at = "reading"
      BY <1>5 DEF ReadBack, ReadFails, histories, At
    <2>3. burnt \subseteq burnt' /\ (unread' \/ Readable \subseteq burnt')
      BY <1>5 DEF ReadBack, ReadFails, histories
    <2>4. Readable' = Readable
      BY <2>2 DEF Readable
    <2> QED BY <2>1, <2>2, <2>3, <2>4 DEF Known, At
  <1>6. ASSUME NEW s \in Sessions, CorpusBurns(s)
        PROVE  Known'
    <2>1. /\ \A t \in Sessions \ {s} : task'[t] = task[t]
          /\ task'[s].at = "appending" /\ task'[s].row = task[s].row
      BY <1>6, GotoMoves DEF CorpusBurns
    <2>2. /\ burnt' = burnt \cup {task[s].row} /\ UNCHANGED <<recovered, file, acked, unread>>
          /\ task[s].at = "told"
      BY <1>6 DEF CorpusBurns, histories, At
    <2>3. Readable' = Readable /\ (Reading <=> Reading')
      BY <2>1, <2>2 DEF Readable, Reading, At
    <2> QED BY <2>1, <2>2, <2>3 DEF Known, At
  <1> QED BY <1>1, <1>2, <1>3, <1>4, <1>5, <1>6 DEF CorpusNext, Drawing, Burning, Away

LEMMA CorpusInvariance == CorpusSpec => []CInv
  <1>1. CInv /\ [CorpusNext]_corpusVars => CInv'
    BY CorpusTypeStep, OneEachStep, KnownStep DEF CInv
  <1> QED BY CorpusBegins, <1>1, PTL DEF CorpusSpec

(* Tasks, the burn file and the sets of ids stay in the states the loaders *)
(* can name (src/plugins/profile/corpus.ts, remote.ts).                    *)
THEOREM CorpusTypes == CorpusSpec => []CorpusTypeOK
  <1>1. CInv => CorpusTypeOK
    BY DEF CInv
  <1> QED BY <1>1, CorpusInvariance, PTL

(* However many appends are cut short, by a crash or by the disk, each      *)
(* takes at most one recorded burn from the file besides its own (the      *)
(* append of burn and the tolerant reading of withdrawn in corpus.ts).     *)
THEOREM CutCostsOne == CorpusSpec => []OneLostPerCut
  <1>1. CInv => OneLostPerCut
    <2> SUFFICES ASSUME CInv
                 PROVE  OneLostPerCut
      OBVIOUS
    <2>1. recorded \ Readable \subseteq recorded \ Kept
      BY DEF Readable, Kept, Whole
    <2>2. IsFiniteSet(recorded \ Kept)
      BY FS_Difference DEF CInv, OneEach
    <2>3. Cardinality(recorded \ Readable) <= Cardinality(recorded \ Kept)
          /\ Cardinality(recorded \ Readable) \in Nat /\ Cardinality(recorded \ Kept) \in Nat
      BY <2>1, <2>2, FS_Subset, FS_CardinalityType
    <2>4. Cardinality(recorded \ Kept) + (IF Tail1 THEN 1 ELSE 0) <= cut /\ cut \in Nat
      BY DEF CInv, OneEach, CorpusTypeOK
    <2> QED BY <2>3, <2>4 DEF OneLostPerCut
  <1> QED BY <1>1, CorpusInvariance, PTL

(* corpus does not hand out a row this process was told to burn, nor one   *)
(* that an earlier one recorded, once the burn file has been read back     *)
(* (withdrawn and draw in corpus.ts): whatever the other sessions are      *)
(* doing.                                                                  *)
THEOREM BurntIsNotDrawn == CorpusSpec => BurntStaysOut
  <1> DEFINE A == \A s \in Sessions :
        At(s, "loading") /\ At(s, "drawn")' /\ task'[s].row \in acked \cup recorded
            => task'[s].row = Made \/ Unknown(task'[s].row)
  <1>1. CInv /\ [CorpusNext]_corpusVars => [A]_corpusVars
    <2> SUFFICES ASSUME CInv, CorpusNext, NEW s \in Sessions, At(s, "loading"), At(s, "drawn")',
                        task'[s].row # Made
                 PROVE  Unknown(task'[s].row)
      OBVIOUS
    <2>1. CorpusTypeOK /\ Known /\ task[s].at = "loading" /\ task'[s].at = "drawn" /\ task[s] \in TaskType
      BY DEF CInv, At, CorpusTypeOK
    <2>2. CorpusDraws(s)
      <3>1. CASE Crash
        BY <2>1, <3>1 DEF Crash, Idle
      <3>2. ASSUME NEW t \in Sessions, Away(t), t # s \/ ~CorpusDraws(t)
            PROVE  FALSE
        <4>1. t = s
          BY <2>1, <3>2, AwayMoves
        <4> QED BY <2>1, <3>2, <4>1 DEF Away, RemoteDraws, RemoteFails, RemoteHears, RemoteDeaf, Appended,
              AppendFails, StartDraw, StartBurn, Leave, Again, At
      <3>3. ASSUME NEW t \in Sessions, NEW p, Goto(t, p), p # "drawn"
            PROVE  FALSE
        BY <2>1, <3>3, GotoMoves
      <3>4. \A t \in Sessions : ~ (CorpusOpens(t) \/ ReadBack(t) \/ ReadFails(t) \/ CorpusBurns(t))
        BY <3>3 DEF CorpusOpens, ReadBack, ReadFails, CorpusBurns
      <3> QED BY <3>1, <3>2, <3>4 DEF CorpusNext, Drawing, Burning, Away
    <2>3. task'[s].row \in (task[s].want \ burnt) \cup {Made}
      <3>1. PICK row \in (task[s].want \ burnt) \cup {Made} :
                task' = [task EXCEPT ![s].at = "drawn", ![s].row = row]
        BY <2>2 DEF CorpusDraws
      <3>2. task'[s] = [task[s] EXCEPT !.at = "drawn", !.row = row]
        BY <2>1, <3>1 DEF CorpusTypeOK
      <3>3. task'[s].row = row
        BY <2>1, <3>2 DEF TaskType
      <3> QED BY <3>3
    <2>4. PICK row : row = task'[s].row
      OBVIOUS
    <2>5. row \notin burnt
      BY <2>3, <2>4
    <2> QED BY <2>1, <2>4, <2>5 DEF Unknown, Known, Reading
  <1>2. CorpusSpec => [][A]_corpusVars
    BY <1>1, CorpusInvariance, PTL DEF CorpusSpec
  <1> QED BY <1>2 DEF BurntStaysOut
================================================================================
