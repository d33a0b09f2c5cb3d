-------------------------------- MODULE Sessions --------------------------------
(***************************************************************************)
(* Session tokens, the browsers that serve them, the front door and the    *)
(* shutdown of the proxy: SessionManager (src/src/session-manager.ts),     *)
(* BrowserPool (src/src/browser-pool.ts), register, #handleControl and     *)
(* #onSocket of Proxy (src/src/proxy.ts), the router and its two handlers  *)
(* (src/src/router.ts, http-handler.ts, websocket-handler.ts),             *)
(* ShutdownManager (src/src/shutdown-manager.ts).                          *)
(*                                                                         *)
(* Abstracted.  Fits says which slots answer a session's constraint, and   *)
(* is empty for a session that must be promoted whatever the slots are     *)
(* (isolation, a launch plugin): Identities models the constraint itself.  *)
(* A promoted session's process is named by its token.  The clock is a set *)
(* of the records older than the token TTL.  A path is what it leads to: a *)
(* reply that names the browser's socket, one that does not, a socket, a   *)
(* refusal.  A remote endpoint, whose pool launches nothing, is left out.  *)
(***************************************************************************)
EXTENDS Naturals, FiniteSets, Sequences

CONSTANTS
    Tokens,         \* the session tokens, one for each call of register
    Anonymous,      \* no token
    Slots,          \* the upstreams of the pool's slots, in their order
    Fits,           \* the slots that can answer for each session
    Clients,        \* the client sockets
    MaxConcurrent,  \* #maxConcurrent
    None

InPool == {Slots[i] : i \in 1..Len(Slots)}
Pooled == {t \in Tokens : Fits[t] # {}}

ASSUME SessionsAssumption ==
    /\ IsFiniteSet(Clients) /\ MaxConcurrent \in Nat
    /\ Slots \in Seq(InPool) /\ Len(Slots) > 0
    /\ Fits \in [Tokens -> SUBSET InPool]
    /\ InPool \cap Tokens = {} /\ None # Anonymous
    /\ {None, Anonymous} \cap (Tokens \cup InPool) = {}

VARIABLES
    known,        \* the tokens with a record in #sessions
    old,          \* the records older than the TTL
    connections,  \* the connections field of each record
    active,       \* #active
    call,         \* how far register has come for each token
    sticky,       \* #sticky: token -> upstream, None when absent
    reserved,     \* the keys of #reserved
    process,      \* the browser process of each promoted session
    cursor,       \* #cursor, modulo the number of slots
    client,       \* each client: its state and token, its upstream, and the
                  \* browser whose socket a /json reply has given it
    awaited,      \* the connections whose close() shutdown waits for
    reaping,      \* history: those that were being reaped when it began
    outrun,       \* history: tokens swept before their register had returned
    shutdown      \* "no", "closing" the connections, "done" with the pool

registry == <<known, old, connections, active>>
pool     == <<sticky, reserved, process, cursor>>
vars     == <<registry, call, pool, client, awaited, reaping, outrun, shutdown>>

Upstream == Tokens \cup InPool
Left(at)  == [at |-> at, token |-> None, upstream |-> None, found |-> None]
Served(c) == client[c].at \in {"open", "ending"}

Init ==
    /\ known = {} /\ old = {} /\ active = 0
    /\ connections = [t \in Tokens |-> 0]
    /\ call = [t \in Tokens |-> "unasked"]
    /\ sticky = [t \in Tokens |-> None]
    /\ reserved = {}
    /\ process = [t \in Tokens |-> "none"]
    /\ cursor = 0
    /\ client = [c \in Clients |-> Left("new")]
    /\ awaited = {} /\ reaping = {} /\ outrun = {} /\ shutdown = "no"
-----------------------------------------------------------------------------
(* #expired.  Mutant: a record with connections expires too. *)
ExpiredWhileInUse == known \cap old

Expired == {t \in known \cap old : connections[t] = 0}

(* releaseToken, which #forget calls through onRelease, for the tokens T,  *)
(* with #sticky as s.  The process is closed in the background.  Mutant:   *)
(* nobody is told.                                                         *)
ReleaseTokenQuietly(T, s) == sticky' = s /\ UNCHANGED <<reserved, process>>

ReleaseToken(T, s) ==
    /\ sticky' = [t \in Tokens |-> IF t \in T THEN None ELSE s[t]]
    /\ reserved' = reserved \ T
    /\ process' = [t \in Tokens |-> IF t \in T \cap reserved THEN "closing" ELSE process[t]]

(* BrowserPool.place: the first slot from the cursor on that can answer.    *)
SlotAt(i) == Slots[((cursor + i) % Len(Slots)) + 1]

Skipped(t) == CHOOSE i \in 0..Len(Slots) - 1 :
                 SlotAt(i) \in Fits[t] /\ \A j \in 0..i - 1 : SlotAt(j) \notin Fits[t]

(* SessionManager.register: a new record, after those that have expired,    *)
(* some of which may still be in their own register call, are swept.       *)
Enrol(t) ==
    /\ known' = (known \ Expired) \cup {t}
    /\ outrun' = outrun \cup {r \in Expired : call[r] \in {"planning", "reserving"}}

(* Proxy.register, which a shutdown does not keep out: a pooled session is  *)
(* placed at once and a promoted one is planned; a pool that was closed has *)
(* no slot to ask and throws, and the record stays.                        *)
Register(t) ==
    /\ call[t] = "unasked"
    /\ Enrol(t)
    /\ \/ /\ t \in Pooled /\ shutdown # "done"
          /\ ReleaseToken(Expired, [sticky EXCEPT ![t] = SlotAt(Skipped(t))])
          /\ cursor' = (cursor + Skipped(t) + 1) % Len(Slots)
          /\ call' = [call EXCEPT ![t] = "returned"]
       \/ /\ t \notin Pooled
          /\ ReleaseToken(Expired, sticky)
          /\ call' = [call EXCEPT ![t] = "planning"]
          /\ UNCHANGED cursor
       \/ /\ shutdown = "done"
          /\ ReleaseToken(Expired, sticky)
          /\ call' = [call EXCEPT ![t] = "failed"]
          /\ UNCHANGED cursor
    /\ UNCHANGED <<old, connections, active, client, awaited, reaping, shutdown>>

(* #handleControl refuses a body it cannot read or a plugin it does not     *)
(* know, and resolvePlugins a set it cannot resolve: no session comes of it. *)
RefuseRegistration(t) ==
    /\ call[t] = "unasked"
    /\ call' = [call EXCEPT ![t] = "failed"]
    /\ UNCHANGED <<registry, pool, client, awaited, reaping, outrun, shutdown>>

(* #plan draws the identity and resolves its launch spec; it may throw.     *)
Plan(t) ==
    /\ call[t] = "planning"
    /\ \/ /\ call' = [call EXCEPT ![t] = "reserving"]
          /\ process' = [process EXCEPT ![t] = "starting"]
       \/ call' = [call EXCEPT ![t] = "failed"] /\ UNCHANGED process
    /\ UNCHANGED <<registry, sticky, reserved, cursor, client, awaited, reaping, outrun, shutdown>>

(* BrowserPool.reserve after the await of manager.start().  Mutant: the     *)
(* session is not pinned to its process.                                   *)
ReserveUnpinned(t) ==
    /\ call[t] = "reserving"
    /\ process' = [process EXCEPT ![t] = "running"]
    /\ reserved' = reserved \cup {t}
    /\ call' = [call EXCEPT ![t] = "returned"]
    /\ UNCHANGED <<registry, sticky, cursor, client, awaited, reaping, outrun, shutdown>>

Reserve(t) ==
    /\ call[t] = "reserving"
    /\ \/ /\ process' = [process EXCEPT ![t] = "running"]
          /\ reserved' = reserved \cup {t}
          /\ sticky' = [sticky EXCEPT ![t] = t]
          /\ \E end \in {"returned", "failed"} : call' = [call EXCEPT ![t] = end]
       \/ /\ process' = [process EXCEPT ![t] = "none"]
          /\ call' = [call EXCEPT ![t] = "failed"]
          /\ UNCHANGED <<sticky, reserved>>
    /\ UNCHANGED <<registry, cursor, client, awaited, reaping, outrun, shutdown>>

(* The token TTL passes. *)
Age(t) ==
    /\ t \in known \ old
    /\ old' = old \cup {t}
    /\ UNCHANGED <<known, connections, active, call, pool, client, awaited, reaping, outrun, shutdown>>
-----------------------------------------------------------------------------
(* upstreamFor: the first slot without a token, else the pin, else the next *)
(* slot, which becomes the pin.  Mutant: the pin is not looked up.         *)
UpstreamForUnpinned(t) == IF t = Anonymous THEN Slots[1] ELSE SlotAt(0)

UpstreamFor(t) ==
    IF t = Anonymous THEN Slots[1] ELSE IF sticky[t] # None THEN sticky[t] ELSE SlotAt(0)

Pin(t) ==
    IF t = Anonymous \/ sticky[t] # None
    THEN UNCHANGED <<sticky, cursor>>
    ELSE sticky' = [sticky EXCEPT ![t] = SlotAt(0)] /\ cursor' = (cursor + 1) % Len(Slots)

(* A client uses the token it began with: one it was given, or none.        *)
Carries(c, t) ==
    /\ client[c].at = "new" /\ client[c].token \in {None, t}
    /\ t \in {Anonymous} \cup {s \in Tokens : call[s] = "returned"}

(* HttpHandler.handle up to the await of fetch, for a path it serves:       *)
(* nothing asks whether the token is still good.                           *)
Discover(c, t) ==
    /\ shutdown = "no" /\ Carries(c, t) /\ client[c].found = None
    /\ client' = [client EXCEPT ![c] =
                      [@ EXCEPT !.at = "asking", !.token = t, !.upstream = UpstreamFor(t)]]
    /\ Pin(t)
    /\ UNCHANGED <<registry, call, reserved, process, awaited, reaping, outrun, shutdown>>

(* After the await: the reply names the socket of that browser, rewritten   *)
(* to the proxy, or it names none, or the browser is gone and it is a 500. *)
Up(u) == IF u \in Tokens THEN process[u] = "running" ELSE shutdown # "done"

Discovered(c) ==
    /\ client[c].at = "asking"
    /\ \E found \in {client[c].found} \cup {u \in {client[c].upstream} : Up(u)} :
          client' = [client EXCEPT ![c] = [@ EXCEPT !.at = "new", !.found = found]]
    /\ UNCHANGED <<registry, call, pool, awaited, reaping, outrun, shutdown>>

(* #onSocket: resolve and acquire, of a client with a token, upstreamFor.   *)
Accept(c, t) ==
    /\ t \in known \ Expired /\ active < MaxConcurrent
    /\ active' = active + 1
    /\ connections' = [connections EXCEPT ![t] = @ + 1]
    /\ UNCHANGED <<known, reserved, process>>

AcceptAnonymous(t) == t = Anonymous /\ UNCHANGED <<known, connections, active, reserved, process>>

Refuse(c, t) ==
    /\ t # Anonymous /\ (t \notin known \ Expired \/ active >= MaxConcurrent)
    /\ known' = known \ (Expired \cap {t})
    /\ ReleaseToken(Expired \cap {t}, sticky)
    /\ client' = [client EXCEPT ![c] = Left("gone")]
    /\ UNCHANGED <<active, connections, cursor>>

OnSocket(c, t) ==
    \/ /\ Accept(c, t) \/ AcceptAnonymous(t)
       /\ client' = [client EXCEPT ![c] =
                         [@ EXCEPT !.at = "open", !.token = t, !.upstream = UpstreamFor(t)]]
       /\ Pin(t)
    \/ Refuse(c, t)

(* WebSocketHandler.handle, which calls #onSocket before it returns.        *)
Connect(c, t) ==
    /\ shutdown = "no" /\ Carries(c, t)
    /\ OnSocket(c, t)
    /\ UNCHANGED <<old, call, awaited, reaping, outrun, shutdown>>

(* A path that is not served, or the socket of a page.                     *)
NotFound(c) ==
    /\ client[c].at = "new"
    /\ client' = [client EXCEPT ![c] = Left("gone")]
    /\ UNCHANGED <<registry, call, pool, awaited, reaping, outrun, shutdown>>

(* The router: a request is discovery, the upgrade of a socket, or neither. *)
Route(c) ==
    \/ \E t \in Tokens \cup {Anonymous} : Discover(c, t) \/ Connect(c, t)
    \/ NotFound(c)

(* Either socket of the connection dies: #reap starts onSessionEnd.         *)
Drop(c) ==
    /\ client[c].at = "open"
    /\ client' = [client EXCEPT ![c].at = "ending"]
    /\ UNCHANGED <<registry, call, pool, awaited, reaping, outrun, shutdown>>

(* SessionManager.release. *)
Release(t) ==
    IF t \notin known
    THEN UNCHANGED <<known, connections, active, sticky, reserved, process>>
    ELSE /\ active' = IF active = 0 THEN 0 ELSE active - 1
         /\ connections' = [connections EXCEPT ![t] = IF @ = 0 THEN 0 ELSE @ - 1]
         /\ known' = IF connections'[t] = 0 THEN known \ {t} ELSE known
         /\ ReleaseToken(known \ known', sticky)

(* The end of #reap: onClose releases the slot. *)
Closed(c) ==
    /\ client[c].at = "ending"
    /\ client' = [client EXCEPT ![c] = Left("gone")]
    /\ awaited' = awaited \ {c}
    /\ Release(client[c].token)
    /\ UNCHANGED <<cursor, old, call, reaping, outrun, shutdown>>

(* A released process has exited. *)
Exit(t) ==
    /\ process[t] = "closing"
    /\ process' = [process EXCEPT ![t] = "gone"]
    /\ UNCHANGED <<registry, call, sticky, reserved, cursor, client, awaited, reaping, outrun, shutdown>>
-----------------------------------------------------------------------------
(* ShutdownManager.#run: close() on every connection.  One that is being    *)
(* reaped already returns from close() at once and is not waited for.      *)
(* Mutant: nobody is.                                                      *)
ShutDownUnawaited ==
    /\ shutdown = "no"
    /\ shutdown' = "closing"
    /\ reaping' = {c \in Clients : client[c].at = "ending"}
    /\ client' = [c \in Clients |-> IF client[c].at = "open"
                                    THEN [client[c] EXCEPT !.at = "ending"]
                                    ELSE client[c]]
    /\ UNCHANGED <<registry, call, pool, awaited, outrun>>

ShutDown ==
    /\ shutdown = "no"
    /\ shutdown' = "closing"
    /\ awaited' = {c \in Clients : client[c].at = "open"}
    /\ reaping' = {c \in Clients : client[c].at = "ending"}
    /\ client' = [c \in Clients |-> IF client[c].at = "open"
                                    THEN [client[c] EXCEPT !.at = "ending"]
                                    ELSE client[c]]
    /\ UNCHANGED <<registry, call, pool, outrun>>

(* The cleanup hook: BrowserPool.close stops the slots and what is reserved *)
(* at that moment.  Mutant: it waits for the processes still starting.     *)
ClosePoolWhenIdle ==
    /\ shutdown = "closing" /\ awaited = {}
    /\ \A t \in Tokens : process[t] \notin {"starting", "running", "closing"}
    /\ shutdown' = "done"
    /\ reserved' = {} /\ sticky' = [t \in Tokens |-> None]
    /\ UNCHANGED <<registry, call, process, cursor, client, awaited, reaping, outrun>>

ClosePool ==
    /\ shutdown = "closing" /\ awaited = {}
    /\ shutdown' = "done"
    /\ process' = [t \in Tokens |-> IF t \in reserved THEN "closing" ELSE process[t]]
    /\ reserved' = {}
    /\ sticky' = [t \in Tokens |-> None]
    /\ UNCHANGED <<registry, call, cursor, client, awaited, reaping, outrun>>
-----------------------------------------------------------------------------
Session(t) == \/ Register(t) \/ RefuseRegistration(t) \/ Plan(t) \/ Reserve(t)
              \/ Age(t) \/ Exit(t)

Client(c)  == Route(c) \/ Discovered(c) \/ Drop(c) \/ Closed(c)

Next == \/ \E t \in Tokens : Session(t)
        \/ \E c \in Clients : Client(c)
        \/ ShutDown \/ ClosePool

(* onSessionEnd returns, and the shutdown's own steps are taken. *)
Fairness == WF_vars(ClosePool) /\ \A c \in Clients : WF_vars(Closed(c))

Spec == Init /\ [][Next]_vars /\ Fairness
-----------------------------------------------------------------------------
TypeOK ==
    /\ known \subseteq Tokens /\ old \subseteq Tokens
    /\ connections \in [Tokens -> Nat] /\ active \in Nat
    /\ call \in [Tokens -> {"unasked", "planning", "reserving", "returned", "failed"}]
    /\ sticky \in [Tokens -> Upstream \cup {None}]
    /\ process \in [Tokens -> {"none", "starting", "running", "closing", "gone"}]
    /\ reserved \subseteq {t \in Tokens : process[t] = "running"}
    /\ cursor \in 0..Len(Slots) - 1
    /\ client \in [Clients -> [at : {"new", "asking", "open", "ending", "gone"},
                               token : Tokens \cup {None, Anonymous},
                               upstream : Upstream \cup {None},
                               found : Upstream \cup {None}]]
    /\ awaited \subseteq Clients /\ reaping \subseteq Clients /\ outrun \subseteq Tokens
    /\ shutdown \in {"no", "closing", "done"}

(* The ceiling counts the connections there are: no slot is lost to, or    *)
(* given back twice by, expiry, refusal and the order connections close in.*)
Serving(t) == {c \in Clients : Served(c) /\ client[c].token = t}

SlotsAreCounted ==
    /\ active = Cardinality({c \in Clients : Served(c) /\ client[c].token # Anonymous})
    /\ active <= MaxConcurrent
    /\ \A t \in known : connections[t] = Cardinality(Serving(t))

(* A session's browser outlives its last connection, onSessionEnd included, *)
(* whichever of its connections closes first and however old the token is. *)
(* Only a connection that was being reaped when shutdown began can find    *)
(* the browser gone.                                                       *)
BrowserOutlivesConnections ==
    \A c \in Clients : Served(c) =>
        Up(client[c].upstream) \/ (shutdown = "done" /\ c \in reaping)

(* A promoted session never shares a browser, and a pooled session is never *)
(* on a slot that cannot answer for it, whoever else was placed or asked   *)
(* for /json meanwhile.                                                    *)
PromotedIsAlone ==
    \A c \in Clients : Served(c) /\ client[c].token # Anonymous =>
        client[c].upstream \in
            IF client[c].token \in Pooled THEN Fits[client[c].token] ELSE {client[c].token}

(* Discovery and the connect that follows it reach the same browser         *)
(* (comment on upstreamFor), whatever ends or moves between the two: the   *)
(* id in the path of the socket means nothing to another one.              *)
DialsWhatItFound ==
    \A c \in Clients : Served(c) /\ client[c].found # None =>
        client[c].upstream = client[c].found

(* Forgetting a session stops the process held for it (comment on #forget), *)
(* whether its last connection closed or its token expired: a process      *)
(* without a session is one whose token was swept while its register call  *)
(* was still planning it or waiting for it to launch.                      *)
StraysWereOutrun ==
    \A t \in Tokens : process[t] = "running" /\ t \notin known => t \in outrun

(* Shutdown comes to its end whatever is being registered or reaped.       *)
ShutdownEnds == shutdown = "closing" ~> shutdown = "done"
=============================================================================
