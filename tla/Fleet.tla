---------------------------------- MODULE Fleet ----------------------------------
(***************************************************************************)
(* The life of the proxy and of the browsers of its pool: the shared proxy *)
(* of src/src/sdk.ts and the standalone one of src/src/main.ts, start and  *)
(* stop of src/src/proxy.ts, BrowserPool.start and close                   *)
(* (src/src/browser-pool.ts), BrowserManager (src/src/browser-manager.ts), *)
(* killProcessOnPortByName (src/src/utils.ts) and ShutdownManager          *)
(* (src/src/shutdown-manager.ts).                                          *)
(*                                                                         *)
(* Abstracted.  The process in slot i of proxy g is <<g, i>>, and listens  *)
(* on the port of slot i, which every proxy uses.  A killed process dies   *)
(* at once.  Only browsers listen on the ports, so the name a process is   *)
(* matched with is left out.  Sessions, and the browsers they reserve, are *)
(* module Sessions; a crash of a browser is left out.                      *)
(***************************************************************************)
EXTENDS Naturals, FiniteSets

CONSTANTS
    Size,           \* the slots of the pool
    MaxProxies,     \* bound: the proxies one process makes
    Launchers,      \* the calls of launch() or session()
    Stoppers        \* the calls of shutdown(), or the signals

ASSUME FleetAssumption == Size \in Nat \ {0} /\ MaxProxies \in Nat \ {0}

Proxies == 1..MaxProxies
Slots   == 1..Size
None    == 0

VARIABLES
    signals,    \* handleSignals: TRUE for the standalone proxy
    exited,     \* Deno.exit
    shared,     \* sharedProxy
    starting,   \* the proxy of the promise `starting'
    stage,      \* how far start() of each proxy has come
    slot,       \* the slot it is at
    held,       \* #slots
    server,     \* "off", "on", "finished"
    shutting,   \* the proxies that have set #shuttingDown
    ending,     \* close() of the manager of each slot
    victim,     \* the process whose pid a manager has read off its port
    alive,      \* the processes
    on,         \* the proxy whose process has the port of a slot
    launch,     \* each call of launch(): its state and its proxy
    stop,       \* each call of shutdown(), or handler of a signal
    hasty,      \* history: the proxies stopped before they had started
    overlap     \* history: a stop was asked for during another

starts == <<stage, slot, held, server>>
stops  == <<shutting, ending>>
os     == <<victim, alive, on>>
vars   == <<signals, exited, shared, starting, starts, stops, os, launch, stop, hasty, overlap>>

Init ==
    /\ signals \in BOOLEAN /\ exited = FALSE
    /\ shared = None
    /\ starting = IF signals THEN 1 ELSE None
    /\ stage = [g \in Proxies |-> IF signals /\ g = 1 THEN "looking" ELSE "none"]
    /\ slot = [g \in Proxies |-> 1] /\ held = [g \in Proxies |-> {}]
    /\ server = [g \in Proxies |-> "off"]
    /\ shutting = {} /\ ending = [g \in Proxies |-> [i \in Slots |-> "no"]]
    /\ victim = [g \in Proxies |-> [i \in Slots |-> None]]
    /\ alive = {} /\ on = [i \in Slots |-> None]
    /\ launch = [l \in Launchers |-> [at |-> "new", proxy |-> None]]
    /\ stop = [d \in Stoppers |-> [at |-> "new", proxy |-> None]]
    /\ hasty = {} /\ overlap = FALSE

(* The processes P die, and their ports are free. *)
Killed(P) ==
    /\ alive' = alive \ P
    /\ on' = [i \in Slots |-> IF <<on[i], i>> \in P THEN None ELSE on[i]]
-----------------------------------------------------------------------------
(* ensureProxy.  Mutant: a start under way is not shared. *)
NewProxy(l) ==
    /\ \E g \in Proxies :
        /\ stage[g] = "none" /\ \A h \in Proxies : h < g => stage[h] # "none"
        /\ stage' = [stage EXCEPT ![g] = "looking"]
        /\ starting' = g
        /\ launch' = [launch EXCEPT ![l] = [at |-> "waiting", proxy |-> g]]

LaunchUnshared(l) ==
    /\ ~signals /\ launch[l].at = "new"
    /\ \/ /\ shared # None
          /\ launch' = [launch EXCEPT ![l] = [at |-> "ready", proxy |-> shared]]
          /\ UNCHANGED <<stage, starting>>
       \/ shared = None /\ NewProxy(l)
    /\ UNCHANGED <<signals, exited, shared, slot, held, server, stops, os, stop, hasty, overlap>>

Launch(l) ==
    /\ ~signals /\ launch[l].at = "new"
    /\ \/ /\ shared # None
          /\ launch' = [launch EXCEPT ![l] = [at |-> "ready", proxy |-> shared]]
          /\ UNCHANGED <<stage, starting>>
       \/ /\ shared = None /\ starting # None
          /\ launch' = [launch EXCEPT ![l] = [at |-> "waiting", proxy |-> starting]]
          /\ UNCHANGED <<stage, starting>>
       \/ shared = None /\ starting = None /\ NewProxy(l)
    /\ UNCHANGED <<signals, exited, shared, slot, held, server, stops, os, stop, hasty, overlap>>

(* The promise settles: a start that failed is never tried again. *)
Launched(l) ==
    /\ launch[l].at = "waiting"
    /\ \/ /\ stage[launch[l].proxy] = "serving"
          /\ launch' = [launch EXCEPT ![l].at = "ready"]
       \/ /\ stage[launch[l].proxy] = "failed"
          /\ launch' = [launch EXCEPT ![l].at = "failed"]
    /\ UNCHANGED <<signals, exited, shared, starting, starts, stops, os, stop, hasty, overlap>>
-----------------------------------------------------------------------------
(* BrowserManager.start of the slot the pool is at.  It first frees the     *)
(* port: one await to find who has it, another before it is killed.        *)
StartLooks(g) ==
    /\ stage[g] = "looking"
    /\ stage' = [stage EXCEPT ![g] = "killing"]
    /\ victim' = [victim EXCEPT ![g][slot[g]] = on[slot[g]]]
    /\ UNCHANGED <<signals, exited, shared, starting, slot, held, server, stops, alive, on, launch,
                   stop, hasty, overlap>>

StartKills(g) ==
    /\ stage[g] = "killing"
    /\ stage' = [stage EXCEPT ![g] = "spawning"]
    /\ Killed({<<victim[g][slot[g]], slot[g]>>})
    /\ UNCHANGED <<signals, exited, shared, starting, slot, held, server, stops, victim, launch,
                   stop, hasty, overlap>>

(* launch() of chrome-launcher: it rejects without a process, or with one   *)
(* that does not answer on its port.  A process that finds its port taken  *)
(* runs without it.  Mutant: the pool tries again.                         *)
Spawned(g) ==
    /\ alive' = alive \cup {<<g, slot[g]>>}
    /\ on' = [on EXCEPT ![slot[g]] = IF @ = None THEN g ELSE @]

SpawnAgain(g) ==
    /\ stage[g] = "spawning"
    /\ \/ Spawned(g) /\ stage' = [stage EXCEPT ![g] = "asking"]
       \/ stage' = [stage EXCEPT ![g] = "looking"] /\ UNCHANGED <<alive, on>>
    /\ UNCHANGED <<signals, exited, shared, starting, slot, held, server, stops, victim, launch,
                   stop, hasty, overlap>>

Spawn(g) ==
    /\ stage[g] = "spawning"
    /\ \/ Spawned(g) /\ stage' = [stage EXCEPT ![g] = "asking"]
       \/ Spawned(g) /\ stage' = [stage EXCEPT ![g] = "failed"]
       \/ stage' = [stage EXCEPT ![g] = "failed"] /\ UNCHANGED <<alive, on>>
    /\ UNCHANGED <<signals, exited, shared, starting, slot, held, server, stops, victim, launch,
                   stop, hasty, overlap>>

(* #getCDPWebSocketUrl: whoever has the port answers.  Only now is the      *)
(* slot the pool's.                                                        *)
Ask(g) ==
    /\ stage[g] = "asking"
    /\ \/ /\ on[slot[g]] # None
          /\ held' = [held EXCEPT ![g] = @ \cup {slot[g]}]
          /\ stage' = [stage EXCEPT ![g] = IF slot[g] = Size THEN "listening" ELSE "looking"]
          /\ slot' = [slot EXCEPT ![g] = IF @ = Size THEN @ ELSE @ + 1]
       \/ stage' = [stage EXCEPT ![g] = "failed"] /\ UNCHANGED <<held, slot>>
    /\ UNCHANGED <<signals, exited, shared, starting, server, stops, os, launch, stop, hasty, overlap>>

(* Proxy.start: the plugins are loaded, then Deno.serve, which throws when  *)
(* another proxy still has the port; ensureProxy keeps the proxy.          *)
Listen(g) ==
    /\ stage[g] = "listening"
    /\ \/ /\ \A h \in Proxies : server[h] # "on"
          /\ server' = [server EXCEPT ![g] = "on"]
          /\ stage' = [stage EXCEPT ![g] = "serving"]
          /\ shared' = IF signals THEN shared ELSE g
       \/ /\ stage' = [stage EXCEPT ![g] = "failed"]
          /\ UNCHANGED <<server, shared>>
    /\ UNCHANGED <<signals, exited, starting, slot, held, stops, os, launch, stop, hasty, overlap>>
-----------------------------------------------------------------------------
(* shutdown() of the SDK, or a signal, and #run: it returns at once when    *)
(* another has begun.                                                      *)
Target == IF signals THEN 1 ELSE shared

Stop(d) ==
    /\ stop[d].at = "new"
    /\ IF Target = None
       THEN /\ stop' = [stop EXCEPT ![d].at = "done"]
            /\ UNCHANGED <<shutting, hasty, overlap>>
       ELSE /\ stop' = [stop EXCEPT ![d] =
                    [at |-> IF Target \in shutting THEN "finishing" ELSE "running", proxy |-> Target]]
            /\ shutting' = shutting \cup {Target}
            /\ hasty' = IF stage[Target] = "serving" THEN hasty ELSE hasty \cup {Target}
            /\ overlap' = (overlap \/ Target \in shutting)
    /\ UNCHANGED <<signals, exited, shared, starting, starts, ending, os, launch>>

(* The connections are closed; pool.close() kills its own processes at      *)
(* once, and then whoever has their ports.                                 *)
ClosePool(d) ==
    LET g == stop[d].proxy IN
    /\ stop[d].at = "running"
    /\ stop' = [stop EXCEPT ![d].at = "closing"]
    /\ ending' = [ending EXCEPT ![g] = [i \in Slots |-> IF i \in held[g] THEN "looking" ELSE @[i]]]
    /\ Killed({g} \X held[g])
    /\ UNCHANGED <<signals, exited, shared, starting, starts, shutting, victim, launch, hasty, overlap>>

CloseLooks(g, i) ==
    /\ ending[g][i] = "looking"
    /\ ending' = [ending EXCEPT ![g][i] = "killing"]
    /\ victim' = [victim EXCEPT ![g][i] = on[i]]
    /\ UNCHANGED <<signals, exited, shared, starting, starts, shutting, alive, on, launch, stop,
                   hasty, overlap>>

CloseKills(g, i) ==
    /\ ending[g][i] = "killing"
    /\ ending' = [ending EXCEPT ![g][i] = "no"]
    /\ Killed({<<victim[g][i], i>>})
    /\ UNCHANGED <<signals, exited, shared, starting, starts, shutting, victim, launch, stop,
                   hasty, overlap>>

PoolClosed(d) ==
    /\ stop[d].at = "closing"
    /\ \A i \in Slots : ending[stop[d].proxy][i] = "no"
    /\ stop' = [stop EXCEPT ![d].at = "finishing"]
    /\ held' = [held EXCEPT ![stop[d].proxy] = {}]
    /\ UNCHANGED <<signals, exited, shared, starting, stage, slot, server, stops, os, launch,
                   hasty, overlap>>

(* The aborted server finishes what it was answering. *)
ServerFinishes(g) ==
    /\ server[g] = "on" /\ g \in shutting
    /\ server' = [server EXCEPT ![g] = "finished"]
    /\ UNCHANGED <<signals, exited, shared, starting, stage, slot, held, stops, os, launch, stop,
                   hasty, overlap>>

(* stop() waits for the server, and shutdown() forgets the proxy, whichever *)
(* is the shared one by then; #runAndExit waits for nothing more.          *)
(* Mutant: the pool is not waited for.                                     *)
Forget(d) ==
    /\ stop' = [stop EXCEPT ![d].at = "done"]
    /\ IF signals THEN exited' = TRUE /\ UNCHANGED <<shared, starting>>
       ELSE /\ server[stop[d].proxy] = "finished"
            /\ shared' = None /\ starting' = None /\ UNCHANGED exited

FinishedEarly(d) ==
    /\ stop[d].at \in {"closing", "finishing"} /\ Forget(d)
    /\ UNCHANGED <<signals, starts, stops, os, launch, hasty, overlap>>

Finished(d) ==
    /\ stop[d].at = "finishing" /\ Forget(d)
    /\ UNCHANGED <<signals, starts, stops, os, launch, hasty, overlap>>

Start(g) ==
    ~exited /\ (StartLooks(g) \/ StartKills(g) \/ Spawn(g) \/ Ask(g) \/ Listen(g))
Close(g) ==
    ~exited /\ (ServerFinishes(g) \/ \E i \in Slots : CloseLooks(g, i) \/ CloseKills(g, i))
Stops(d) == ~exited /\ (ClosePool(d) \/ PoolClosed(d) \/ Finished(d))
Settles(l) == ~exited /\ Launched(l)

Next ==
    \/ \E g \in Proxies : Start(g) \/ Close(g)
    \/ \E d \in Stoppers : Stops(d) \/ (~exited /\ Stop(d))
    \/ \E l \in Launchers : Settles(l) \/ (~exited /\ Launch(l))

(* Every await here ends: launching and asking have timeouts, a command     *)
(* exits, a killed process dies.                                           *)
Fairness ==
    /\ \A g \in Proxies : WF_vars(Start(g)) /\ WF_vars(Close(g))
    /\ \A d \in Stoppers : WF_vars(Stops(d))
    /\ \A l \in Launchers : WF_vars(Settles(l))

Spec == Init /\ [][Next]_vars /\ Fairness
-----------------------------------------------------------------------------
(* A browser always has a proxy that can still be stopped, or that a stop   *)
(* is closing the pool of.  Left to itself is one only whose proxy failed  *)
(* to start, was stopped by a signal before it had started, or was stopped *)
(* by two callers at a time.                                               *)
Stoppable(g) ==
    /\ ~exited
    /\ g \in {shared, starting} \/ \E d \in Stoppers :
            stop[d].proxy = g /\ stop[d].at \in {"running", "closing", "finishing"}

NoOrphans ==
    \A p \in alive : Stoppable(p[1]) \/ stage[p[1]] = "failed" \/ p[1] \in hasty \/ overlap

(* The proxy a launch gets has all its browsers, whatever the one before it *)
(* was still killing when it started, if no two shutdowns overlapped.      *)
ServesItsOwn ==
    \A g \in Proxies :
        stage[g] = "serving" /\ g \notin shutting =>
            overlap \/ \A i \in Slots : on[i] = g /\ <<g, i>> \in alive

(* A launch is answered and a shutdown ends, whatever fails on the way. *)
CallsEnd ==
    /\ \A l \in Launchers : launch[l].at = "waiting" ~> launch[l].at # "waiting" \/ exited
    /\ \A d \in Stoppers : stop[d].at # "new" ~> stop[d].at = "done" \/ exited
=============================================================================
