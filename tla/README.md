# A TLA+ model of the CDP proxy

`cdp-proxy-v2` sits between a CDP client (Playwright, Puppeteer) and a browser. It gives every
client a connection of its own, draws the identity its browser claims, runs plugins on the traffic
and on the pages, starts browsers for sessions that need one, and keeps what the client and the
plugins claim of the browser from overwriting each other. This directory models the parts of it in
which the order of events, a failure or a race decides whether the result is right, checks them with
TLC and proves with TLAPS all of the safety that holds.

* [Inventory](#inventory): the system's components and which of them are modelled
* [Modules](#modules): how each module corresponds to the code, what its run shows, with which bounds
* [Fairness](#fairness)
* [Proofs](#proofs)
* [Where the code and its documents disagree](#where-the-code-and-its-documents-disagree)
* [Not modelled](#not-modelled) and [Plan](#plan)

Paths are relative to the repository (`src/...`, `plugins/...`, `test/...`).

## Inventory

### Components

| component | state | operations | interacts with | modelled by |
| --- | --- | --- | --- | --- |
| **Transport** (`src/proxy-connection.ts`) | two sockets, `#nextId`, `#clientRequests`, `#pluginRequests`, `#swallow`, `#initDone`, `#reaped` | `#init`, `#wireClient`, `#forwardClientMessage`, `#sender` and its timer, `#wireBrowser`, `#forwardBrowserMessage`, `#reap`, `close` | pipeline (hooks), broker, actors; onClose to the session manager | `Transport` |
| **Ordering** (`#order`, `#retire`, `#derive` there) | `#browserChains`, `#clientChains`, `#targets` | chain a message, run it, retire a queue | transport runs its handlers in it | `Ordering` |
| **Ownership** (`#claim`, `#isForeign` there; the map made by `src/proxy.ts`) | `#contextOwners`, shared by the connections of a browser; `#foreignSessions` | claim, release, hide an attach, hide its detach | all connections of one browser | `Ownership` |
| **Sessions** (`src/session-manager.ts`, `src/browser-pool.ts`, `src/proxy.ts`, `src/shutdown-manager.ts`) | token records, `#active`, `#sticky`, `#reserved`, `#cursor`, browser processes | register, plan, place, reserve, resolve, acquire, release, expire, upstreamFor, shut down | front end, connections | `Sessions` |
| **Front end** (`src/router.ts`, `src/http-handler.ts`, `src/websocket-handler.ts`, `#handleControl`) | none | route, discover, upgrade, register over HTTP | sessions | `Sessions` |
| **Broker** (`src/broker.ts`) | header claims and `#clientHeaders`, `#patterns`, `#fetchClients`, `#viewports`, `#claimed`, `#clientPauses` | request, event, attach, detach, document, resume | transport calls it between the pipeline and the wire | `Broker` |
| **Realm delivery** (`src/realms.ts`) | commands written to a target that may be paused | deliver to a page, a worker, a paused worker | awaited by the attach handler, before the broker resumes | `Realms` |
| **Plugin pipeline** (`src/plugin.ts`, `src/surface.ts`, the recorder, the summary of `src/debug.ts`) | installed plugins, declared methods, the bundle and its conflicts, the entries of the recorder | compile, install, onRequest, onResponse, onEvent, guard, start and end | transport awaits it | `Plugins` |
| **Actors** (`src/actor.ts`) | per page its instances; one work chain; the names of scoped actors; the domains each handle has enabled | attached, document, event, detached, the escape hatch | fed by `#derive`, not awaited by it | `Actors`, `PageActors`, without the hatch |
| **Execution contexts** (`src/core/contexts.ts`) | frames, their contexts, whether the client enabled `Runtime` | walk, provide, forget, answer | a pinned plugin of the pipeline | `Contexts` |
| **Profiles** (`src/profile.ts`, `src/core/generate.ts`, `plugins/profile/pin.ts`) | none of its own | load, satisfy, reconcile, seal | register, the connection's start | `Machines`, `Identities` |
| **Launch resolution** (`src/launch.ts`, `src/core/flags.ts`, `plugins/launch/`) | the marker of a data dir | merge contributions, correct, pair | register, browser processes | `Launches`, `Identities` |
| **Corpus and remote loaders** (`plugins/profile/corpus.ts`, `remote.ts`) | a file of burnt rows, rows burnt in memory, leases of a coordinator | draw, burn, append, recover, retry | file system, HTTP | `Corpus` |
| **Browser processes, SDK, standalone** (`src/browser-manager.ts`, `src/sdk.ts`, `src/main.ts`, `src/utils.ts`) | the shared proxy, processes on ports | launch, shutdown, start, stop, signals | pool, shutdown manager | `Fleet` |
| **Coverage ledger** (`src/coverage.ts`) | which plugin read which field | account, report | start of a session | no |
| **Surface and actor plugins** (`plugins/surface`, `plugins/actor`) | page scripts | | installed by the pipeline | no |
| **Config, logging, tracing, harness, tools** | none that matters | | | no |

### What is hard here

Deno runs the proxy on one thread, so there are no data races; what there is instead is `await`.
Every hook of every plugin is awaited in the middle of a handler and may itself send commands to
the browser and wait for the replies, so between any two awaits of a handler anything else may
have happened. Concretely:

* **One id space, three waiting parties.** Client commands, `ctx.send`s and the runtime's own
  commands draw upstream ids from one counter. Their replies, a 30 s timer and the reap compete for
  the entries.
* **Hooks inside hooks.** A handler that waits for a reply must not hold up the queue the reply
  comes through.
* **Reap at any time.** Either socket, a failed setup or a shutdown may end a connection in every
  phase of its life.
* **Queues made on demand.** A queue is created by its first message and dropped by another
  session's message.
* **Replies overtake events.** A reply is settled as it arrives, an event waits in its session's
  chain; what the reply says may be of a document the chain has not heard of.
* **A paused target answers nothing.** What is sent to it is answered when it is resumed, which
  somebody does who waits for the handler that is sending. And what is sent may fail or be answered too
  late, while the handler goes on.
* **Announcements read late.** Chrome tells every connection of every target. Who owns it is looked
  up by each connection when its queue comes to the message, not when it was written.
* **Work that outlives its page.** Actor callbacks run on one chain, long after the document, the
  event or the page they were scheduled for.
* **Ages, ceilings, promotions.** Tokens expire while their sessions register, connect or close.
* **Whole-state commands.** Both sides set the same headers, patterns, metrics and pauses of the
  same sessions, and a page may have several sessions.
* **Claims that must agree.** An identity is drawn, filtered, turned into flags, corrected by every
  launch plugin that looks at the process and by the binary, and sealed; a page can compare all of it with the browser.
* **A file that outlives the process.** Burnt identities are lines of a file that a crash or a failed
  write may leave in the middle of one.
* **Processes on shared ports.** A manager kills what it finds on its port, after an await.

### What makes each component correct

* Transport: a reply reaches the party that sent the command, once, under the id it used; nobody
  waits for ever; a reaped connection leaves nothing open.
* Ordering, realms: order within a session and direction, an attach before what depends on it, a
  stuck page holds up no more than it must; code that was paused has the bundle before it runs if the
  browser takes it, and does run.
* Ownership: nobody is shown a neighbour's page; nobody holds one paused.
* Sessions, front end: slots are counted, a browser lives exactly as long as its session, a client
  reaches the browser that was chosen for it, shutdown ends.
* Broker: a claim of either side survives the other's commands; nothing stays paused.
* Pipeline: a session is what its caller configured or it is refused; who is started is ended.
* Actors: one instance per page, its callbacks in the page's order, close last.
* Contexts: no world of a dead document is announced; the current ones are.
* Identities: what is sealed fits together and with the process it runs as, but for what a plugin of
  the session's own says it is; a data dir has one persona.
* Corpus: a burnt identity is not drawn again, crash or not.
* Fleet: every browser has somebody who will close it; every call ends.

## Modules

```
Ordering <- Realms         Actors --INSTANCE--> PageActors     Machines + Launches <- Identities
Transport   Broker   Ownership   Sessions   Contexts   Fleet   Plugins   Corpus

BrokerProofs   RealmsProofs   OwnershipProofs   SessionsProofs   ActorsProofs: of the module of that name
ConnectionProofs: of Transport and Plugins, which a connection is made of
PageProofs: of Contexts and Identities, what a page is shown and what it can compare with it
ProcessProofs: of Fleet and Corpus, processes and the file that outlives them
```

`MCx` instantiates `x` for TLC with the `.cfg` of the same name. Every module is a state machine: one
action per handler, or one per stretch of a handler between two awaits where something else can
interfere; `Machines` and `Launches` are the pure computations `Identities` is made of. An operator
that appears just above a definition and differs from it in one point ("Mutant: ...") is the
plausible bug a property was tried against. Nothing uses it.

Where components interact closely they are composed: `Realms` extends `Ordering` with what its attach
handler awaits and with the resume of the broker; `Sessions` has the front end, the registry, the
pool and the shutdown in one state; `Identities` runs `Machines` and `Launches` inside
registration. The remaining pairs share assumptions instead, and each of these is discharged
elsewhere: `Transport` lets queued messages run in *any* order, which includes every order `Ordering`
produces, and lets hooks do what `Plugins` has them do; `Ownership`, `Broker`, `Actors` and `Contexts`
assume that the messages of a session are handled in order and that an attach comes first, which is
what `realms` checks (with the exception described below).

### Transport

| module | code |
| --- | --- |
| `down`, `up`, `init`, `reap` | the sockets, how far `#init` has come, `#reaped` and the wait for `onSessionEnd` |
| `clientRequests`, `pluginRequests`, `swallow`, `nextId` | the fields of those names |
| `cmd`, `send`, `issuer` | where a command is, and which activity (setup, a hook, free code) awaits which `ctx.send` |
| `wire`, `queued`, `parked`, `hooks` | replies at the browser, in a chain, past the `#reaped` test but before `#initDone`, in `onResponse` |
| `ClientSend`, `Admit`, `AnswerLocally`, `Forward` | `#wireClient` and `#forwardClientMessage` |
| `PluginSend`, `Timeout`, `RuntimeSend` | `#sender`, its timer, the surfaces' own commands |
| `BrowserReply` (`Settle`, `Swallow`, `Enqueue`) | the part of `#wireBrowser` that runs outside the chains |
| `RunTask`, `Resume`, `Respond` | `#forwardBrowserMessage` before, between and after its awaits |
| `Reap`, `ReapFinish`, `ClientClose`, `UpstreamClose`, `Shutdown` | `#reap` and who calls it |

A refusing plugin yields an error answer, so `AnswerLocally` is every outcome of `onRequest` that
does not forward. Messages without a numeric id pass through unchanged and nobody waits for them:
they are left out.

Run `transport` (one client command, two `ctx.send`s, one runtime command, 188k states):
`RepliesGoHome`, `OnlyLateRepliesLeak`, and with fairness `StartupEnds`, `CommandsAnswered`,
`SendsSettle`. One hook can wait on one send while another is in flight, and each kind of id can be
taken for each other kind. Two client commands that could be confused with each other are left to
the proofs, which cover any number. Run `transport_orphan`: see
[below](#where-the-code-and-its-documents-disagree).

### Ordering and Realms

A task is a message. It remembers the task its promise was chained on and has a `Start` (up to the
first await: the registry, the retirement of a queue) and a `Finish` (the message goes out).
`Order` is `#order`, `Retire` is `#retire`. The browser is restricted to what CDP lets it send.
The handlers of one page, `Slow`, may never end: its attach as well as what comes after it (`Stuck`).

`PagesAreIndependent` promises no more than the code gives: a message is handled in the end unless it is
chained, directly or through others, on one that is stuck (`Held`). A handler stuck in the attach of a page holds
the root chain, and with it every page that attaches later; stuck in a later message it holds the session's own
queue and nothing else. What is excluded is that a page which has a queue of its own is held up by another's.
`docs/plugin-developer.md:1286-1296` says the same.

`Realms` adds, for an attach, what lies between the two. `Steps` are the commands in the order of `#derive`:
`inject` is two, the domain and the script, then the overrides and headers, then the resume. `Deliver` writes one of
them and `Awaits` says which are waited for (`inject` is, `evaluate` in a worker is not); `awaited` is the one whose reply
is outstanding. `Execute` is the target, which takes its commands in order, but while it is paused only answers
those Chrome answers then (`Answers`); `Refuse` is an error reply, and `TimeOut` the 30 s timer of `ctx.send`.
After either the delivery goes on as the code's `catch` does (`Fail`): a domain that could not be
enabled skips the script, everything else is passed over, and the resume comes in any case. `Forward` is the
`Finish` that waits for it all; `ClientResumes` is a client that asked for a pause and releases it.

Run `realms` (two pages and a worker of the first, whose pause the client asked for, four messages of
either direction, one command that fails; 318k states): `OrderWithinSession`, `AttachFirst`, `PagesAreIndependent`, `BundleFirst`,
`PausedTargetsRun`. Four messages suffice for attach, message and detach of one page with a message of another
session or direction at each point between; one failure (`MaxFaults`) can be of any command of any delivery, and what is sent to
a target that has gone fails besides. The proofs cover any number of both.

`BundleFirst` says what is left of
the promise: a target that was paused runs with the bundle unless the browser refused the script or its domain (`refused`); a
reply that is too late does no harm, since the script is still ahead of the resume. The promise itself, as the code's comment has
it, is `ReleasedWithBundle`, which does not hold, see [below](#where-the-code-and-its-documents-disagree).

### Ownership

Each connection has an inbox (its root chain), read at its own pace, a set of replies to its plugins
(settled outside the chains) and its hidden sessions. The browser's contexts, targets, sessions and
pauses are kept with it. `Claim` is `#claim`, called from `PluginReply` and `ClientReply`; `Show`,
`Hide` and `Gone` are the three outcomes of `#isForeign`; `Reap` releases the claims and
`ReapFinish` closes the socket, upon which Chrome disposes of the connection's contexts.

Run `ownership` (two connections, one context, two targets, 120k states): `HiddenWhileOwned`,
`DetachMatchesAttach`, `PagesStart`. Ownership of one context does not depend on another's, so one
context and both roles for each connection cover the cases; two targets are needed for one page in
that context and one outside.

### Sessions

`Register`, `Plan` and `Reserve` are the three stretches of `Proxy.register`, reached in process or
through `#handleControl` (`RefuseRegistration`); `Skipped` is the search of `place` from the cursor.
`Route` is the router: `Discover` and `Discovered` are `HttpHandler.handle` before and after its `fetch`,
`Connect` is the upgrade with `#onSocket` in it (`Accept`, `AcceptAnonymous`, `Refuse`). A session may register while the proxy shuts down, since nothing in `register` looks at that; once the pool is
closed it has no slot to give and the call fails, with its record left behind. `Closed` is `onClose`; `Age` is the passing of a record's TTL, after which any sweep may take it (`Expired`,
`ReleaseToken`); `ShutDown` and `ClosePool` are the shutdown. `reaping` and `outrun` are history.

Run `sessions` (a session only the second of two slots can answer for, a promoted one, anonymous
clients; three clients and a ceiling of two; 1.3M states): `SlotsAreCounted`,
`BrowserOutlivesConnections`, `PromotedIsAlone`, `DialsWhatItFound`, `StraysWereOutrun`, `ShutdownEnds`.
Three clients are one more than the ceiling, and let a session have two connections that close in
either order while another arrives; with two slots the cursor is right for one session and wrong for
the other.

`StraysWereOutrun` names its exception because the code has it: `reserve` awaits the launch and
then records the process without asking whether the token is still known. A token swept in between
(its TTL shorter than the launch) leaves a process that nothing stops before shutdown.
`BrowserOutlivesConnections` names another: shutdown does not wait for connections that were already
being reaped when it began.

### Broker

The variables have the names of the fields; `chrome` is what is in force in the browser, per
session and per page, and `asked` is what the client has asked for. `config` is what the runtime
claims, all sixteen combinations. A command and its effect are one step, since the broker writes in
the turn that decides; `clearDeviceMetricsOverride`, where it awaits a reply and then pushes the
monitor again, is two (`ClearDeviceMetricsOverride`, `Cleared`). An attach is two as well, since
what pauses a target is decided when it is announced and what releases it when it is handled. The
client may still write to a session that is gone.

Run `broker` (two sessions, on one page or two or nested, any two commands, 817k states):
`ViewportKept`, `MonitorHolds`, `RequestsContinue`, `TargetsStart`. Two commands are what each hazard
takes: a clear and a set that cross, an enable and a disable of two sessions, a wish and its
opposite. The proofs cover any number.

Three properties name their exceptions, which are races or gaps of the code: a viewport set while
another session's clear of the same page awaits its reply is replaced, and a session that leaves in
that time loses the monitor (`asked.crossed`); a request the client was given before it disabled
`Fetch` is not released when credentials keep interception on; a client that asks for pauses on a
session and then for none is still counted as one that resumes (`asked.both`).

### Actors and PageActors

`PageActors` is what `src/actor.ts` and `docs/` promise an author: an instance lives as long as its page;
its callbacks run on a chain of the page's own, one at a time, in the page's order; the last is close.
`Actors` is the code: `Attached`, `Document`, `Event` and `Detached` schedule onto the one chain
(`work`), whose running task sets up what matches (`SetupNext`, `SetUp`, `SetUpFails`) and then fires
(`FireNext`, `Fired`). `handles` is what each page has, `session` the names of the scoped actors that are
taken, `late` those taken after the page had gone.

Run `actors` (two pages, two documents, a scoped and an ordinary actor, four tasks waiting;
267k states): `KeepsPromise`, which is `PageActors!Spec` under the refinement mapping `Promise` (a
page's chain is the page's part of the one chain), and `ClaimIsLive`. Four tasks allow a document
that overtakes a detach with another page's tasks between.

`ClaimIsLive` names its exception: a setup that ends after its page has gone takes the name that
`detached` has released already, and no page gets that actor again.

### Plugins

`Start` is `#init` from compiling the surfaces to `onSessionStart`, one plugin and one outcome at a time
(`SetUpSurface`, `CompileSurfaces` or `CompileThrows`, `SetUpPlugin`, `InstallEnds`, `SessionStart`). `Before` is the order
of `order()`; `FirstClaim` is the merge of `compile`. `Enter`, `Leave` and `Through` are a message before, in and after a
hook: the hook may pass it, decide about it, fail, or rewrite its method (`Rewrites`), and what comes after sees the new one.
`Answerer` is who answers a `Proxy.*` command. `Record` is the recorder, whose ring of entries has `Limit` places.
`SessionEnd` and `Summary` follow a `ReapPipeline` at any moment.

Run `plugins` (two surfaces that claim the same header, core, three protocol plugins of which two
declare one method, three messages; 33k states): `SessionIsWhole`, `StartedIsEnded`. The plugins are
chosen so that each pair conflicts in one way: priority against position, header, part of the display, method,
optional against required. That a `Proxy.*` command of the runtime's own is answered by the runtime is `RuntimeMethodsKept`, which
does not hold, see [below](#where-the-code-and-its-documents-disagree).

`StartedIsEnded` names its exception: a reap while the pipeline is being built finds none to tell,
and `onSessionStart` runs afterwards.

### Contexts

A context is a frame, a document and a world. `Commit` and `RemoveFrame` are the browser's; its replies come
on `wire` and are settled at once, its events on `chain` are handled in order (`told`). `provides` are the
running calls of `#provide`, `walk` the one over the frames found at the start, `seen` the contexts the client believes in.

A call of `mainWorld` or `createIsolatedWorld` may be answered without a context (`named` is FALSE): the walk of `provide`
then goes on to the next world without announcing this one (`Settle`), and the world is in `unnamed`.

Run `contexts` (a main frame and a child, up to four documents, one fault: a command that is given up or a
reply without a context; 2.9M states): `NoGhosts`, `SettlesRight`, `ContextsArrive`. Four documents are two for each frame, so
that every reply can be about the document before; a child is what a new main document takes with it. `SettlesRight` says
that a client at rest has the worlds of the present documents and no others, but for those no reply named.

### Identities, with Machines and Launches

`Machines` has the tables of `generate`, its draw, `satisfies` and `reconcile`, and says which fields of a row have to
do with each other (`Ties`, `Holds`); `Launches` has the merge of contributions, core's flags, the bundled plugins and the
corrections. The merge is stated by its result, a function of flag names: the last plugin to name a flag has it
(`ByName`), and a note is left wherever a name gets another value than it had (`Overrides`). What an `onStart` hook
returns is a list of fields and values, of any field but `id`, `seed` and `source` (`Correctable`); core's own
(`CoreFinds`) reads the window off the command line, and all are folded into the row in order (`Corrected`).
`Identities` is the life of a session: `Register` places it on a slot or plans it, `PlanDraw` runs the
loader chain (pin, corpus, generate), `PlanResolve` merges the launch plugins and reads a data dir's
marker, `Pair` writes it, `Launch` starts the process, with the window asked for or the one Chrome makes of it
(`Windows`), and applies the corrections, `Seal` reconciles with the binary. A slot is started the same way, but no
`onStart` hook is called for it.

Run `identities` (one slot, two sessions at once, four constraints, two loader chains, four sets of
launch plugins with what their hooks may find, two random streams; 667k states): `SealedIsCoherent`,
`AgreesWithProcess`, `DirKeepsPersona`. Two sessions are what a race for a slot or a data dir takes. A stream is one number
in twelve for each choice. One of the sets of plugins has two that ask for the same other language and one that asks for a
window which is not a size; one corrects the window, the bars, the version and the User-Agent.

A plugin that corrects a field takes the responsibility for what it says: `SealedIsCoherent` excuses a tie of which it has
corrected a field, or that the captured row of a corpus broke already, since the loader checks a captured row against
nothing. That of the version is excused only if the row came with the binary's own version, because `reconcile` makes up
for any other. `AgreesWithProcess` says of the window what the code can know: if the process got the window it was
asked for, by whichever plugin, the viewport is what it leaves. It names one exception more: a plugin may put another
`--lang` on the command line, and then a note says so; it names the first plugin that did, not one that repeats the value after it.

Part of what these two excuse is promised by the documents all the same: `WindowIsMeasured` and `VersionIsRegreased`,
which do not hold, see [below](#where-the-code-and-its-documents-disagree).

`DirKeepsPersona` names its exception: `pair` reads the marker and writes it after an await, so two
registrations can both find none.

### Corpus

`task` is where each session is in the loader chain or in a burn; `RemoteDraws`, `RemoteHears` and `Again`
are the coordinator with its retries; `CorpusOpens`, `ReadBack` and `ReadBackOver` are the first draw's read
of the burn file, `CorpusBurns` and `Appended` the write; a `Crash` between the two, or a write that fails (`AppendFails`), may leave half a line (`CutShort`). `Readable` is what a parse of the
file gives back: a line that goes on after a half one is lost. `acked` are the burns answered by this
process, `recorded` those answered by any.

Run `corpus` (two sessions, one row and rows made up, two attempts, files of two lines, two crashes or
cut writes; 3.6M states): `BurntStaysOut`, `OneLostPerCut`. One row is enough, since what is lost is a line; two
cuts show that losses do not add up beyond one each.

`BurntStaysOut` names its exception: the first draw marks the file as read before it has read it, so
others that draw meanwhile, and all of them when the read failed, know of no burn.

### Fleet

`Launch` and `Settles` are a caller of the SDK's `launch`, which shares a start under way; `Start` is
`Proxy.start` slot by slot (kill what is on the port, spawn, wait), `Stop`, `Stops` and `Close` are
`shutdown`, `stop` and the pool's close; a stopper may be a signal, which exits the process at its
end. `stage` is a proxy's, `alive` the processes, `on` who listens on each port.

Run `fleet` (two slots, two proxies, three launches, two shutdowns or signals; 87k states):
`NoOrphans`, `ServesItsOwn`, `CallsEnd`. Three launches are one that starts, one that shares and one
that comes after a shutdown; two slots let a start fail with a browser already running.

`NoOrphans` names its exceptions, all in the code: a start that failed leaves the browsers it had
started (and `starting` rejected for good); a signal before the proxy has started stops nothing; of two
overlapping shutdowns the second returns at once and forgets the proxy.

## Fairness

Fairness is stated per action and only where the code's scheduling justifies it.

* *The proxy's own steps* (`ProxyRuns`, `Handle`, `Closed`, `ClosePool`, `Attach`, `RequestPaused`,
  `Start`, `Deliver`, `Forward`, `Runtime`, `Work`, `Drawing`, `Burning`, `SessionEnd`, `Close`, `Stops`, `Settles`):
  a promise whose predecessor has settled runs, because the event loop is fair to microtasks and sockets.
  Hooks, callbacks and setups return once the commands they await have settled, each of which has a
  timeout. The handlers of one page, `Slow` of `Ordering` and `Realms`, its attach included, and the actors in
  `Slow` of `Actors` are excepted; the delivery of another page's attach may fail, but ends.
* *The browser answers*, if only with an error (`BrowserAnswers`, `Execute` or `Refuse`, `Work` of `Contexts`), and *timers fire*
  (`TimersFire`): antecedents in `Transport`, so that each property says what it relies on: `StartupEnds`
  and `CommandsAnswered` hold without timers, `SendsSettle` without a browser that answers. In
  `Contexts` an answer may be given up (`Timeout`); `SettlesRight` and `ContextsArrive` then promise nothing more (`lost`). `Realms`
  needs no timer: whatever it awaits is answered or refused.
* *The client* is fair where the code relies on it: it releases the pages it is shown paused
  (`Ownership!Resumes`, `Broker!ClientResumes`, `Realms!ClientResumes`) and continues the requests it was given.
* *The coordinator* of `Corpus` is not: an attempt is answered or times out.

No action of a user, no crash and no timeout is fair where the property does not say so. Deadlock
checking is off: a connection, a session, a fleet and a bounded number of commands really end.

## Proofs

Eight modules hold proofs that TLAPS checks, for every value of the constants: any number of clients,
pages, sessions, connections, slots, plugins, crashes or documents, any tree of targets or frames, any table lookup and any
launch plugins. Every invariant and every safety property of a step that a passing run checks is stated by a theorem: the run shows it on
a small instance. Other theorems have no run of their own. The exact type invariants of `Contexts`, `Fleet`, `Plugins`,
`Corpus` and `Identities` are in the proof modules.

| theorem | property | run |
| --- | --- | --- |
| `ConnectionProofs!TypeCorrect` | `TypeOK` | |
| `RepliesReachTheirCommand` | `RepliesGoHome` | `transport` |
| `OnlyLateRepliesReachTheClient` | `OnlyLateRepliesLeak` | `transport` |
| `NoSendIsOrphaned` | `PendingIsTracked` | |
| `ForwardedExactlyOnce` | `ForwardedOnce` | |
| `EveryIdHasOneWaiter` | `OneWaiter` | |
| `ReapLeavesNoSocketOpen` | `ReapClosesBoth` (of a step) | |
| `PluginsTypes` | `PluginsTypeOK` | |
| `WholeBeforeTraffic` | `SessionIsWhole` | `plugins` |
| `CoreIsNeverPassed` | `CoreRunsFirst` | |
| `NeverRanIsTrue` | `IdleIsTrue` (of a step) | |
| `BrokerProofs!TypeCorrect` | `TypeOK` | |
| `ClaimsOutlastTheClient` | `ClaimedHeadersHold` | |
| `AuthCannotBeSwitchedOff` | `AuthStaysOn` | |
| `ClientKeepsItsViewport` | `ViewportKept` | `broker` |
| `MonitorIsClaimed` | `MonitorHolds` | `broker` |
| `RealmsProofs!DeliveryKeepsQueues` | every step of `Realms` is one of `Ordering`, or none | |
| `InOrder` | `OrderWithinSession` | `realms` |
| `AttachBefore` | `AttachFirst` | `realms` |
| `QueuesEnd` | `RetiredForGood` | |
| `BundleBefore` | `BundleFirst` | `realms` |
| `OwnershipProofs!TypeSafety` | `TypeOK` | |
| `Isolation` | `HiddenWhileOwned` | `ownership` |
| `DetachAfterAttach` | `DetachMatchesAttach` | `ownership` |
| `ForeignDrains` | `HiddenSessionsDrain` | |
| `ClaimsReleased` | `ClaimsEndWithConnection` | |
| `SessionsProofs!TypeSafety` | `TypeOK` | |
| `Ceiling` | `SlotsAreCounted` | `sessions` |
| `Outlives` | `BrowserOutlivesConnections` | `sessions` |
| `Alone` | `PromotedIsAlone` | `sessions` |
| `Discovery` | `DialsWhatItFound` | `sessions` |
| `Strays` | `StraysWereOutrun` | `sessions` |
| `ActorsProofs!TypeSafety` | `TypeOK` | |
| `OnePage` | `ScopedIsSingle` | |
| `NamesAreReleased` | `ClaimIsLive` | `actors` |
| `OneChainKeepsPromise` | `KeepsPromise` (`PageActors!Spec`) | `actors` |
| `PageProofs!TypeSafety` | `TypeOK` | |
| `OnlyLiveContexts` | `NoGhosts` | `contexts` |
| `EveryFrameIsServed` | `SettlesRight` | `contexts` |
| `OneWorldAtATime` | `OneOfAKind` | |
| `IdentitiesTypes` | `IdentitiesTypeOK` | |
| `SealedIsOneMachine` | `SealedIsCoherent` | `identities` |
| `IdentityMatchesProcess` | `AgreesWithProcess` | `identities` |
| `OnePersonaPerDir` | `DirKeepsPersona` | `identities` |
| `ProcessProofs!TypeSafety` | `TypeOK` | |
| `NobodyIsLeft` | `NoOrphans` | `fleet` |
| `ServesWhatItLaunched` | `ServesItsOwn` | `fleet` |
| `CorpusTypes` | `CorpusTypeOK` | |
| `CutCostsOne` | `OneLostPerCut` | `corpus` |
| `BurntIsNotDrawn` | `BurntStaysOut` (of a step) | `corpus` |

**Assumptions.** Only on constants, and TLC evaluates each: client ids are naturals, as JSON-RPC ids
of CDP are (`ClientIdsAreNumbers`); claimed names are names, `Root` is not a session, `None` is
nothing else (`BrokerAssumption`); every session has a parent, a session or `Root` (`SessionAssumption`), and workers
are sessions (`RealmsAssumption`); the names that stand for nobody and for the default context are not connections or
contexts (`NamesAreDistinct`); there are finitely many clients and at least one slot, every session fits some set
of slots, and slots, tokens and the two special names are distinct (`SessionsAssumption`); `None` and the client are
not actors, and actors are started in a given order (`ActorsAssumption`); the top frame is not one of the
subframes and `None` is neither a document nor a context (`ContextsAssumption`); a pool and a fleet have a size (`FleetAssumption`);
plugins are installed in a given order, have a kind and a priority, the recorder rewrites nothing and has room for an entry, and the methods the runtime answers
are `Proxy.*` methods (`PluginsAssumption`); a row made up is none of the corpus, and there is at least one attempt (`CorpusAssumption`); random
numbers have a resolution (`MachinesAssumption`). `IdentitiesAssumption` says of what a session brings that an id is a name, of a stream that
its numbers are in range, of what a launch plugin returns that it is a list of flags (of any names and values) and, from
`onStart`, of correctable fields (with any values, but a height for the bars and a User-Agent for the User-Agent), of the window Chrome
makes of another that it is a size, and of a captured row that it has the fields of a row: not that they fit each other.

None of these invariants is inductive as it stands. In each module `IInv` (`OInv` and `RInv` in
`RealmsProofs`; `PInv` of `Plugins`, `SInv`, `Ordered`, `IdInv` and `Agreement` in `PageProofs`, `CInv` of `Corpus`) is
the strengthening that is, and there is one lemma per action. TLC checked the strengthenings on the instances of the runs before they were
proved.

**Transport.** That a reply goes home depends on the entry its id leads to, and the entry on nobody
else using that id. `IInv` is `TypeOK` with

* `Fresh`: every id in use is below `nextId`, which makes a new id free in all tables and in flight;
* `Disjoint`: the three tables do not share an id;
* `ClientWaits`, `PluginWaits`: an entry and the state of what it is for determine each other,
  and no command has two entries;
* `InFlight`: a reply at the browser, in a chain or parked is expected by its sender or by nobody;
* `Shown`: what the client has been given is either its own or a timed-out send's.

`ReapClosesBoth` follows from `ReapFinish` and from the reap without a pipeline, the only two
steps that end a reap.

**Broker.** Headers and interception are inductive with `TypeOK`. The metrics need three more
facts: a viewport in force is recorded in `viewports` or was crossed (`WishRecorded`), so `Document` does not
replace it; a clear still waiting meets no viewport on its page that it did not cross
(`ClearsAreCrossed`), so `Cleared` does not either; and the monitor is in force on every page in
`viewports` or `claimed` (`ScreenClaimed`), since `Document` does nothing on those and that must be
right.

**Ordering and Realms.** A message is chained on the last one of its queue at the time it comes, and
the queue may be dropped and made again in between. `Chains` says what a queue holds: the last message
of its key, and a key without a queue has had no message or was retired. `Queues` says what a message
follows: every earlier one of its queue, unless the session had been retired before it came, which CDP
excludes for the browser's side (`World`). `Attached` is the bridge between two queues: a message of a page is chained on its
attach, on something after that in the root chain, or on another of its own. The proof of
`DeliveryKeepsQueues` carries all of this over to `Realms`, where `Heads` adds that a paused target
which has not lost its bundle has it, or the command before it, at the head of its inbox as soon as anything was sent to it;
that is what `BundleFirst` comes down to when the client or the broker resumes it, whatever has timed out before.

**Ownership.** What each connection remembers is compared with what the browser has sent it: `Mail`
follows an attach and its detach through the inbox, into `shown` or `foreign`, in this order and once.
`HiddenWhileOwned` needs the time order of a reply and an announcement: a context is its creator's
once its reply has been read (`Claimed`), and nobody can open a page in it before (`Housed`), so whoever reads the
announcement, as late as it likes, finds the claim; or finds it given up by a creator that left.

**Sessions.** `Counts` relates the two counters to the set of connections in any phase. `Held` is what the
pool holds for a call of `register` at each of its awaits, `Told` that what a client was told (by `/json` or by
its record) is still where its token is pinned: it is because a token that was swept never comes back.
`Closing` is who a shutdown waits for, and `BrowserOutlivesConnections` follows from all of them together.

**Actors.** `Closes` (close is the last task of its page, and comes), `Turns` (where the running task is in
its list), and `Names` (the name of a live page's scoped actor is taken) give the two invariants.
`OneChainKeepsPromise` is the whole refinement of `PageActors`: the page's part of the one chain is
defined by recursion (`Own`), and what appending to the chain or taking its head does to each page's part is
proved without induction over data, from the shortest chain for which it would fail. Each step of
`Actors` is then one step of `PageActors` for the page of the running or scheduled task, and none for any other.

**Plugins.** `SetUp` says of each stage what the ones before it left behind: which surfaces are resolved and that the merge prefers
the first of them in the order (`Compiled`), which plugins are installed, that they stand in the order, and that one which is
not installed is spared or makes the session fail (`Installed`). That needs `Before` to be a strict order of the plugins, by
priority and place. `Passing` follows a message past the plugins: all that listen and come before the one it is at have seen it.

**Contexts.** Replies overtake events, so the proof follows documents and contexts through `wire` and `chain`.
For `NoGhosts`: a context on its way is as new as everything that was said of its frame before it or has been heard by then
(`InTurn`), since the browser was at the newest document when it answered (`Newest`). A reply that is settled as it comes
is therefore never older than `told`, and an event that makes it old removes it, because what the client
has of a frame is what `frames` has (`Kept`). The response to a world of the client's own waits in the chain while the
walk goes on; it is safe because the tree was asked for before it (`TreeFirst`). The test `Current` is not
needed for this property, only against a second announcement of the same document (`OneOfAKind`).

`SettlesRight` is the other half, that what is current does get announced, and its proof says who is at work for each frame
in every state. `Announced`: the newest document of a frame is in `told`, or the news of it is on its way, and nothing
follows that would undo it. `Asking`: a reply that says a frame has no such document is truthful, because an event
that says the same comes behind it. `Live`: a context of an older document that the client has, or is about to be given, has the event
that retires it behind it. `Attended`: for each current frame there is its news, or the tree that has it, or the walk that will
come to it, or a call of `provide` at each world, or the context itself. When nothing is on its way and nobody is at work,
only the last is left. For `OneOfAKind`, `Ordered` says that of two contexts of one frame and world, the event that retires
the older one is still in the chain.

**Identities.** `DirKeepsPersona` (`IdInv`): an id is a name wherever a row comes from (`Identifying`), so the marker once written
stays, and while no two registrations claimed the dir at a time, it is the id of whoever has opened it or is about to (`Marked`).
`SealedIsCoherent` and `AgreesWithProcess` (`Agreement`): a random number in range picks a row of what the constraint leaves of a
table (`Picks`, since a finite set of n numbers has one with k below it for every k < n), so each branch of `machine` is one
machine (`MachineIsOne`). `Agreed` says what is still true of a row after corrections: each tie that no authored plugin spoke about, and
the viewport and language likewise. In the merge, what core says of the language has the first place, and a value that differs in the end was changed
somewhere between two neighbouring settings, of which there is a note (`OverridesAreNoted`). The corrections by
the hooks and by the binary keep both (`CorrectedAgrees`, `ReconciledAgrees`): of two corrections of a field the last counts, so what core found
of the viewport is what is sealed unless somebody spoke after it.

**Fleet.** `OneAtATime`: as long as no two shutdowns overlap, one proxy has processes and one caller
stops it. With it go how far a start (`Opened`) and a stop (`Emptied`) have come. The
exceptions that `NoOrphans` names are what this needs and no more.

**Corpus.** `OneEach` counts: the ids a process recorded that no line gives back are at most the lines that were cut short, and one
more only while the file ends in half a line. `Known` relates the process to the file: what was acknowledged and can be read back is in
`burnt`, or the read is still to come, or it failed. `BurntStaysOut` is then a case for each place a row is drawn at.

**Changes for the proofs.** Modules that are proved together have names of their own: `PluginsInit`, `CorpusNext`,
`IdentitiesSpec` and the like, `InstallEnds`, `ReapPipeline`, `RemoveFrame`. `Actors`, `Contexts` and `Plugins` take `Range` from
`Functions`; `Actors` gives the parts of its refinement mapping names; the walk of `Contexts` keeps the frames it has still to provide as a set of
places in the tree, taken in that order. `Machines` picks from a table by the places a constraint leaves, where it
selected a subsequence, and `Launches` states the merge by its result, where it folded over the plugins; the
folds are induction over data. The type invariants of `Ownership`, `Ordering` and `Actors` were made exact. 

Three things were wrong and were found by proving. `CoreFinds` corrected a viewport by a window that was not a size, which the code's early
return excludes. `AgreesWithProcess` promised that the notes name the plugin whose language is on the command line,
and with two plugins of the same language they name the first. `None` was not assumed to be no context of `Contexts`.

**Only model-checked.** Every liveness property: liveness under fairness and `ENABLED` are outside what TLAPS proves.

## Where the code and its documents disagree

Run `transport_orphan` ends in a counterexample: a client that leaves while the upstream socket is
still connecting. `#reap` closes the socket only if it is open, nothing looks at `#reaped`
afterwards, and it opens and stays. `proxy-connection.ts:7` says the session is reaped when either socket dies.

The other disagreements are stated as properties beside the ones the runs check. Adding one to the
configuration of its module (with the change noted) ends in a counterexample.

| property | what the code does |
| --- | --- |
| `Transport!PluginTrafficInvisible` | The reply to a `ctx.send` that arrives after its 30 s timer is in no table and is written to the client, under the proxy's id. README.md:700-702 says plugin traffic is never visible to the client. |
| `Ordering!EventsFindTheirTarget` | The attach of a worker or iframe is handled in its parent page's chain, but its own chain is seeded from the root chain: its events can be handled before it is registered. The comment on `#order` (`proxy-connection.ts:520-527`) says they cannot. |
| `Ownership!OwnTargetsOnly` | A leaving connection gives up its claims when its reap starts, while its pages live until the socket closes, and a neighbour that reads an announcement in between is shown them. `docs/plugin-developer.md:1316` says you only see your own. |
| `Realms!ReleasedWithBundle` | `deliver` catches whatever `inject` fails with, and `#derive` resumes the target. `proxy-connection.ts:885-887` says "the bundle is already in by here, so releasing it is safe". |
| `Plugins!RuntimeMethodsKept` (with a message `m2`) | `onRequest` hooks run before the runtime is asked, and may answer or rewrite its own four methods. `docs/plugin-developer.md:1023` and `proxy-connection.ts:959` say that a plugin cannot take them over. |
| `Identities!WindowIsMeasured` | `flags` compares the viewport with the window on the command line, not with the one the process has. `core/flags.ts:97-98` says that it checks the window the process got, and `types.ts:269-274` calls a clamped window the ordinary case. |
| `Identities!VersionIsRegreased` | `reconcile` leaves a row alone that has the binary's version, also when an `onStart` hook corrected nothing but `chrome`. `profile.ts:129-130` says that a corrected version has to be re-greased. |
| `Broker!ClientPausesKept` | A client that asks for pauses on the connection, not on a session, is not recorded, and the broker starts the targets it paused. `broker.ts:426` and `test/broker.test.ts:443` say they are the client's to start. |
| `Broker!HeadersFollowClient` | A client that clears its headers when no surface claims any is answered and nothing is sent. `broker.ts:34-35` says it is answered as though forwarded. |
| `Actors!PagesDoNotWait` (with `Slow = {login}`) | There is one chain, so an actor that waits on one page holds up every page's. `actor.ts:367` says callbacks are scheduled on their own task per page. |
| `Identities!SameIdSameMachine` | Two sessions with one id and different further constraints draw different machines under that id. README.md:338 says an id draws the same machine again. |
| `Corpus!AnsweredIsKept` | The line that goes on after half a line is lost with it, although its burn was answered. `corpus.ts:90-95` says a crash costs the one burn it was writing. |

Reading the code for these models turned up more that no property is about: a profile loader of
the session's own (`pin({ id })`, `corpus`) is not consulted when a pool slot satisfies the constraint
(`proxy.ts:207-222`), where `pin.ts:35` promises that id; corrections of `onStart` are applied to promoted
sessions but not to the slots' identities; `minChrome` is not honoured after reconciliation; two
plugins that each load an extension yield two flags; `allow()` throws although `generate` is documented as
the end of the chain that cannot fail; `/json/list` names page sockets that the router answers with 404;
a frame that vanishes during the first walk ends it for the frames after it; an actor's escape hatch notes a domain when
an enable is sent, whoever has it on and whatever comes of it, so the actor may disable what another enabled, which
`docs/plugin-platform.md:974-976` says it may not (`actor.ts:261-276`).

Properties that hold and are not part of a run, because a stronger one or a proof covers them:
`Ordering!RetiredForGood`, `Ownership!HiddenSessionsDrain`, `ClaimsEndWithConnection`,
`Actors!ScopedIsSingle`, `Plugins!CoreRunsFirst`, `IdleIsTrue`, `Contexts!OneOfAKind` (proved), `Actors!ClosesFire`,
`Corpus!DrawsEnd`, and those of the table of proofs.

## Not modelled

* What a message contains, beyond what decides where it goes. Formatting, tracing, debug counters.
* Events inside the sessions of a hidden target: none are enabled there, so Chrome sends none.
* Remote endpoints: the pool then has one slot and launches nothing.
* `Browser.setWindowBounds` and `Fetch.authRequired`, which keep no state, and header claims of
  several priorities, which only one caller makes.
* Failures of the broker's own commands, which it reports and otherwise ignores.
* The coverage ledger: which fields a plugin read is reported at the start of a session and decides
  nothing.
* The escape hatch of an actor: it keeps which domains a handle has asked for, and refuses some commands by name.
* Page scripts, compiled bundles, page heuristics (captcha, banners), the format and weights of
  tables: data, not control.
* A browser that crashes by itself: nothing in the code notices before the next connection fails.
* What a profile's loader chain does with its own `signal`: none is given to it.
* Loading plugins from a directory, configuration, logging, the test harness and the tools.

## Plan

1. Done: `Transport`, `Broker`, `Ordering` with `Realms`, `Ownership`, `Sessions` with the front end, `Actors` with
   `PageActors`, `Plugins`, `Contexts`, `Machines`, `Launches`, `Identities`, `Corpus`, `Fleet`.
2. Done: proofs of the safety of all of them (see above).
3. Next: remote endpoints in `Sessions` and `Fleet`, and the priorities of header claims in `Broker`.
4. After that: the abstract specification that `Transport` and `Plugins` together implement, a connection on which each command
   is answered once and in the order of its session.
