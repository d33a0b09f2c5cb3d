--------------------------------- MODULE Broker ---------------------------------
(***************************************************************************)
(* The Broker of a connection (src/src/broker.ts): arbitration between the *)
(* client and the runtime over four domains whose commands replace the     *)
(* whole state of the browser, so that each side's claim survives the      *)
(* other's calls.                                                          *)
(*                                                                         *)
(* Chrome carries out commands in the order they are written, and the      *)
(* broker writes, or lets the connection forward, a command in the turn    *)
(* that decides it, so a command and its effect are one step here, except  *)
(* where the broker awaits a reply and then acts on it                     *)
(* (clearDeviceMetricsOverride).  Steps of different sessions interleave;  *)
(* an attach is handled before the client hears of the session.            *)
(*                                                                         *)
(* Abstracted.  Header names are model values and a header's value is who  *)
(* set it; an interception pattern is a model value; each session has at   *)
(* most one intercepted request.  Browser.setWindowBounds, which keeps no  *)
(* state, and claims of several priorities, which only one caller makes,   *)
(* are left out.                                                           *)
(***************************************************************************)
EXTENDS Naturals, FiniteSets

CONSTANTS
    Sessions,     \* CDP session ids
    Targets,      \* target ids
    Root,         \* the connection's own session
    Names,        \* header names
    Claimed,      \* the headers surfaces may claim
    Patterns,     \* what the client asks to intercept; All among them if it may ask for all
    All,          \* the pattern '*'
    None,
    MaxCommands   \* bound on the client's commands

ASSUME BrokerAssumption ==
    /\ Claimed \subseteq Names /\ None \notin Patterns \cup Targets
    /\ Root \notin Sessions /\ MaxCommands \in Nat

VARIABLES
    config,         \* what the runtime claims, fixed before any target attaches
    session,        \* the browser's sessions: stage, page and the parent they came under
    target,         \* #targets: session -> target, None when it has no entry
    clientHeaders,  \* #clientHeaders: session -> names, None when never set
    fetchClients,   \* #fetchClients
    clientPattern,  \* the 'client' entry of #patterns, None when absent
    viewports,      \* #viewports
    claimed,        \* #claimed
    clientPauses,   \* #clientPauses
    clearing,       \* sessions whose clearDeviceMetricsOverride awaits its reply
    chrome,         \* the browser: what is in force per session and per page
    asked,          \* history: what the client has asked for
    commands        \* how many commands the client has sent

broker == <<target, clientHeaders, fetchClients, clientPattern, viewports, claimed,
            clientPauses, clearing>>
vars   == <<config, session, broker, chrome, asked, commands>>

Live == {s \in Sessions : session[s].stage \in {"announced", "attached"}}
On(t) == {s \in Sessions : session[s].stage = "attached" /\ session[s].page = t}

Config == [headers : {{}, Claimed}, display : BOOLEAN, auth : BOOLEAN, pausing : BOOLEAN]

Init ==
    /\ config \in Config
    /\ session = [s \in Sessions |-> [stage |-> "fresh", page |-> None, parent |-> Root]]
    /\ target = [s \in Sessions |-> None]
    /\ clientHeaders = [s \in Sessions |-> None]
    /\ fetchClients = {} /\ clientPattern = None
    /\ viewports = {} /\ claimed = {} /\ clientPauses = {} /\ clearing = {}
    /\ chrome = [headers |-> [s \in Sessions |-> {}],
                 fetch   |-> [s \in Sessions |-> {}],
                 request |-> [s \in Sessions |-> "none"],
                 view    |-> [t \in Targets |-> "default"],
                 screen  |-> [t \in Targets |-> "default"],
                 pauses  |-> [s \in Sessions \cup {Root} |-> FALSE],
                 paused  |-> {}]
    /\ asked = [fetch |-> {}, pause |-> {}, both |-> {}, view |-> {}, document |-> {},
                crossed |-> {}]
    /\ commands = 0
-----------------------------------------------------------------------------
Header(n, by) == [name |-> n, by |-> by]

(* #pushHeaders: the client's headers with the claims over them.  An empty *)
(* merge is not sent.                                                      *)
Pushed(s, names) ==
    LET merged == {Header(n, "surface") : n \in config.headers}
                      \cup {Header(n, "client") : n \in names \ config.headers}
    IN  IF merged = {} THEN chrome.headers[s] ELSE merged

(* #pushFetch: the union of the patterns, for a session whose patterns in  *)
(* the browser are p.                                                      *)
AuthPatterns == IF config.auth THEN {All} ELSE {}

Union(client, p) ==
    LET patterns == AuthPatterns \cup ({client} \ {None})
    IN  IF patterns = {} THEN p ELSE patterns

(* #pushMetrics: a viewport of zero by zero, which is the page's own, and  *)
(* nothing from a session that has gone.                                   *)
PushMetrics(s) ==
    IF s \in Live
    THEN [chrome EXCEPT !.view[session[s].page] = "default",
                        !.screen[session[s].page] = "surface"]
    ELSE chrome
-----------------------------------------------------------------------------
(* A target appears under p, and waits to be started if p asked for that.  *)
Announce(s, t, p) ==
    /\ session[s].stage = "fresh"
    /\ p = Root \/ (p \in Sessions /\ session[p].stage = "attached" /\ session[p].page # t)
    /\ session' = [session EXCEPT ![s] = [stage |-> "announced", page |-> t, parent |-> p]]
    /\ chrome' = [chrome EXCEPT !.paused = IF chrome.pauses[p] THEN @ \cup {s} ELSE @]
    /\ UNCHANGED <<config, broker, asked, commands>>

(* Its attach is handled: attach, then resume.  Mutant: resume asks for     *)
(* the opposite.                                                           *)
ResumesPaused(p) == config.pausing /\ p \in clientPauses

Resumes(p) == config.pausing /\ p \notin clientPauses

Attach(s) ==
    /\ session[s].stage = "announced"
    /\ session' = [session EXCEPT ![s].stage = "attached"]
    /\ target' = [target EXCEPT ![s] = session[s].page]
    /\ chrome' = [chrome EXCEPT
            !.headers[s] = Pushed(s, {}),
            !.fetch[s] = Union(clientPattern, {}),
            !.paused = IF Resumes(session[s].parent) THEN @ \ {s} ELSE @]
    /\ UNCHANGED <<config, clientHeaders, fetchClients, clientPattern, viewports,
                   claimed, clientPauses, clearing, asked, commands>>

(* detach: the viewport goes with the last session of its target, and in   *)
(* the browser the override with the last session the client was told of.  *)
(* Mutant: with the first.                                                 *)
ReturnedFirst(s) == {target[s]}

Returned(s) == {target[s]} \ {target[r] : r \in Sessions \ {s}}

Detach(s) ==
    /\ session[s].stage = "attached"
    /\ \A c \in Live : session[c].parent # s
    /\ session' = [session EXCEPT ![s].stage = "gone"]
    /\ target' = [target EXCEPT ![s] = None]
    /\ clientHeaders' = [clientHeaders EXCEPT ![s] = None]
    /\ fetchClients' = fetchClients \ {s} /\ clientPauses' = clientPauses \ {s}
    /\ viewports' = viewports \ Returned(s) /\ claimed' = claimed \ Returned(s)
    /\ LET t    == session[s].page
           last == On(t) = {s}
           left(m) == IF last THEN [m EXCEPT ![t] = "default"] ELSE m
           kept(f) == IF last THEN f \ {t} ELSE f
       IN  /\ chrome' = [chrome EXCEPT !.fetch[s] = {}, !.request[s] = "none",
                             !.headers[s] = {}, !.paused = @ \ {s}, !.pauses[s] = FALSE,
                             !.view = left(@), !.screen = left(@)]
           /\ asked' = [asked EXCEPT !.fetch = @ \ {s}, !.pause = @ \ {s},
                            !.both = @ \ {s}, !.view = kept(@), !.document = kept(@),
                            !.crossed = IF s \in clearing /\ ~last
                                        THEN @ \cup {t} ELSE kept(@)]
    /\ UNCHANGED <<config, clientPattern, clearing, commands>>
-----------------------------------------------------------------------------
(* A command of the client, which may still write to a session that is     *)
(* gone: the broker carries it out, the browser refuses it.                *)
Command(s) ==
    /\ s = Root \/ (s \in Sessions \ clearing /\ session[s].stage \in {"attached", "gone"})
    /\ commands < MaxCommands /\ commands' = commands + 1
    /\ UNCHANGED <<config, session, target>>

Effect(s, state) == chrome' = IF s \in Live \cup {Root} THEN state ELSE chrome
Note(s, state)   == asked' = IF s \in Live \cup {Root} THEN state ELSE asked

SetExtraHTTPHeaders(s, names) ==
    /\ Command(s)
    /\ clientHeaders' = [clientHeaders EXCEPT ![s] = names]
    /\ Effect(s, [chrome EXCEPT !.headers[s] = Pushed(s, names)])
    /\ UNCHANGED <<fetchClients, clientPattern, viewports, claimed, clientPauses,
                   clearing, asked>>

FetchEnable(s, p) ==
    /\ Command(s)
    /\ fetchClients' = fetchClients \cup {s}
    /\ clientPattern' = p
    /\ Effect(s, [chrome EXCEPT !.fetch[s] = Union(p, @)])
    /\ Note(s, [asked EXCEPT !.fetch = @ \cup {s}])
    /\ UNCHANGED <<clientHeaders, viewports, claimed, clientPauses, clearing>>

(* Forwarded when the broker wants nothing itself: the browser then lets   *)
(* every intercepted request of the session go.                            *)
FetchDisable(s) ==
    /\ Command(s)
    /\ fetchClients' = fetchClients \ {s}
    /\ clientPattern' = None
    /\ Effect(s, IF config.auth
                 THEN [chrome EXCEPT !.fetch[s] = Union(None, @)]
                 ELSE [chrome EXCEPT !.fetch[s] = {}, !.request[s] =
                                        IF @ = "none" THEN @ ELSE "continued"])
    /\ Note(s, [asked EXCEPT !.fetch = @ \ {s}])
    /\ UNCHANGED <<clientHeaders, viewports, claimed, clientPauses, clearing>>

(* The client's viewport goes out with the monitor folded in.  Mutant: as   *)
(* the client sent it.                                                     *)
FoldedNot == "client"

Folded == IF config.display THEN "surface" ELSE "client"

SetDeviceMetricsOverride(s) ==
    LET t == session[s].page
    IN  /\ Command(s)
        /\ viewports' = viewports \cup ({target[s]} \ {None})
        /\ Effect(s, [chrome EXCEPT !.view[t] = "client", !.screen[t] = Folded])
        /\ Note(s, [asked EXCEPT !.view = @ \cup {t},
                        !.crossed = IF On(t) \cap clearing # {} THEN @ \cup {t} ELSE @])
        /\ UNCHANGED <<clientHeaders, fetchClients, clientPattern, claimed, clientPauses,
                       clearing>>

(* With a display the broker clears and, once that is answered, claims the  *)
(* monitor again; without one it forwards.                                 *)
ClearDeviceMetricsOverride(s) ==
    LET t == session[s].page
    IN  /\ Command(s)
        /\ IF config.display
           THEN viewports' = viewports \ {target[s]} /\ clearing' = clearing \cup {s}
           ELSE UNCHANGED <<viewports, clearing>>
        /\ Effect(s, [chrome EXCEPT !.view[t] = "default", !.screen[t] = "default"])
        /\ Note(s, [asked EXCEPT !.view = @ \ {t}, !.crossed = @ \ {t}])
        /\ UNCHANGED <<clientHeaders, fetchClients, clientPattern, claimed, clientPauses>>

Cleared(s) ==
    /\ s \in clearing
    /\ clearing' = clearing \ {s}
    /\ chrome' = PushMetrics(s)
    /\ UNCHANGED <<config, session, target, clientHeaders, fetchClients, clientPattern,
                   viewports, claimed, clientPauses, asked, commands>>

(* document: the claim goes out alone on a page whose viewport the client  *)
(* has not set.                                                            *)
Document(s) ==
    /\ session[s].stage = "attached"
    /\ IF target[s] \in viewports \cup claimed
       THEN UNCHANGED <<claimed, chrome>>
       ELSE /\ claimed' = claimed \cup {target[s]}
            /\ chrome' = IF config.display THEN PushMetrics(s) ELSE chrome
    /\ asked' = [asked EXCEPT !.document = @ \cup {target[s]}]
    /\ UNCHANGED <<config, session, target, clientHeaders, fetchClients, clientPattern,
                   viewports, clientPauses, clearing, commands>>

(* Target.setAutoAttach of the client, on a session or on the connection.   *)
SetAutoAttach(s, wait) ==
    /\ Command(s)
    /\ clientPauses' = IF s # Root /\ wait THEN clientPauses \cup {s} ELSE clientPauses
    /\ Effect(s, [chrome EXCEPT !.pauses[s] = wait \/ config.pausing])
    /\ Note(s, [asked EXCEPT
            !.pause = IF wait THEN @ \cup {s} ELSE @ \ {s},
            !.both = IF s \in asked.pause /\ ~wait THEN @ \cup {s} ELSE @])
    /\ UNCHANGED <<clientHeaders, fetchClients, clientPattern, viewports, claimed, clearing>>
-----------------------------------------------------------------------------
(* The browser intercepts a request of the session. *)
RequestPauses(s) ==
    /\ session[s].stage = "attached" /\ chrome.fetch[s] # {} /\ chrome.request[s] = "none"
    /\ chrome' = [chrome EXCEPT !.request[s] = "paused"]
    /\ UNCHANGED <<config, session, broker, asked, commands>>

(* event, for Fetch.requestPaused.  Mutant: any client that intercepts      *)
(* anywhere owns it.                                                       *)
GivenIfIntercepting(s) == clientPattern # None

Given(s) == s \in fetchClients

RequestPaused(s) ==
    /\ chrome.request[s] = "paused"
    /\ chrome' = [chrome EXCEPT !.request[s] = IF Given(s) THEN "client" ELSE "continued"]
    /\ UNCHANGED <<config, session, broker, asked, commands>>

(* A client continues the requests of the sessions it intercepts on.       *)
ClientContinues(s) ==
    /\ chrome.request[s] = "client" /\ s \in asked.fetch
    /\ chrome' = [chrome EXCEPT !.request[s] = "continued"]
    /\ UNCHANGED <<config, session, broker, asked, commands>>

(* A client starts the targets it has been told of under the sessions it   *)
(* asked to pause.                                                         *)
ClientResumes(s) ==
    /\ s \in chrome.paused /\ session[s].stage = "attached"
    /\ session[s].parent \in asked.pause
    /\ chrome' = [chrome EXCEPT !.paused = @ \ {s}]
    /\ UNCHANGED <<config, session, broker, asked, commands>>
-----------------------------------------------------------------------------
Client(s)  == \/ \E names \in SUBSET Names : SetExtraHTTPHeaders(s, names)
              \/ \E p \in Patterns : FetchEnable(s, p)
              \/ FetchDisable(s)
              \/ SetDeviceMetricsOverride(s) \/ ClearDeviceMetricsOverride(s)
              \/ ClientContinues(s) \/ ClientResumes(s)
Browser(s) == \/ \E t \in Targets, p \in Sessions \cup {Root} : Announce(s, t, p)
              \/ Attach(s) \/ Detach(s) \/ Document(s)
              \/ RequestPauses(s) \/ RequestPaused(s)

Next == \/ \E s \in Sessions : Client(s) \/ Browser(s) \/ Cleared(s)
        \/ \E s \in Sessions \cup {Root}, wait \in BOOLEAN : SetAutoAttach(s, wait)

(* Events are handled, and a client sees to what it asked for. *)
Fairness == \A s \in Sessions :
                /\ WF_vars(Attach(s)) /\ WF_vars(RequestPaused(s))
                /\ WF_vars(ClientContinues(s)) /\ WF_vars(ClientResumes(s))

Spec == Init /\ [][Next]_vars /\ Fairness
-----------------------------------------------------------------------------
Browsers == [headers : [Sessions -> SUBSET [name : Names, by : {"client", "surface"}]],
             fetch   : [Sessions -> SUBSET (Patterns \cup {All})],
             request : [Sessions -> {"none", "paused", "client", "continued"}],
             view    : [Targets -> {"default", "client"}],
             screen  : [Targets -> {"default", "client", "surface"}],
             pauses  : [Sessions \cup {Root} -> BOOLEAN],
             paused  : SUBSET Sessions]

Wishes == [fetch : SUBSET Sessions,
           pause : SUBSET (Sessions \cup {Root}), both : SUBSET (Sessions \cup {Root}),
           view : SUBSET Targets, document : SUBSET Targets, crossed : SUBSET Targets]

Stages == [stage : {"fresh", "announced", "attached", "gone"},
           page : Targets \cup {None}, parent : Sessions \cup {Root}]

(* #targets holds the sessions that are attached. *)
Registry ==
    /\ session \in [Sessions -> Stages] /\ target \in [Sessions -> Targets \cup {None}]
    /\ \A s \in Sessions :
          /\ session[s].page = None <=> session[s].stage = "fresh"
          /\ target[s] = IF session[s].stage = "attached" THEN session[s].page ELSE None

(* What the broker keeps per target it keeps for registered targets alone. *)
TypeOK ==
    /\ config \in Config
    /\ Registry
    /\ clientHeaders \in [Sessions -> (SUBSET Names) \cup {None}]
    /\ fetchClients \subseteq Sessions /\ clientPauses \subseteq Sessions
    /\ clearing \subseteq Sessions
    /\ clientPattern \in Patterns \cup {None}
    /\ viewports \cup claimed \subseteq {target[s] : s \in Sessions} \ {None}
    /\ chrome \in Browsers /\ asked \in Wishes
    /\ commands \in 0..MaxCommands

(* What a surface claims in the headers holds on every session, whatever   *)
(* the client sets there and whenever the session came.                    *)
ClaimedHeadersHold ==
    \A s \in Sessions, n \in config.headers : session[s].stage = "attached" =>
        {h \in chrome.headers[s] : h.name = n} = {Header(n, "surface")}

(* Proxy auth cannot be switched off: while there are credentials every     *)
(* session intercepts everything, whatever the client enables and disables *)
(* there or elsewhere.                                                     *)
AuthStaysOn ==
    config.auth => \A s \in Sessions :
        session[s].stage = "attached" => All \in chrome.fetch[s]

(* No request stays paused: those of sessions where the client intercepts   *)
(* nothing are continued by the broker, although the client's patterns are *)
(* installed on every session that attaches.  The exception is a request   *)
(* the client was given and then disabled Fetch under, with credentials:   *)
(* the browser never hears of that.                                        *)
RequestsContinue ==
    \A s \in Sessions : chrome.request[s] = "paused" ~>
        \/ chrome.request[s] \notin {"paused", "client"}
        \/ config.auth /\ s \notin asked.fetch

(* The client's viewport is the page's, however many sessions a target has  *)
(* and whenever its documents commit; only a clear that another session is *)
(* still waiting for can replace it.                                       *)
ViewportKept ==
    \A t \in asked.view : chrome.view[t] = "client" \/ t \in asked.crossed

(* A page that has committed a document reports the claimed monitor, except *)
(* while a clear is being answered, or when its session left meanwhile.    *)
MonitorHolds ==
    config.display => \A t \in asked.document :
        \/ chrome.screen[t] = "surface"
        \/ On(t) \cap clearing # {} \/ t \in asked.crossed

(* Nothing stays paused at its start: what the client did not ask to pause  *)
(* is started by the broker, and the rest by the client, unless it has     *)
(* changed its mind on that session.                                       *)
TargetsStart ==
    \A s \in Sessions :
        s \in chrome.paused ~> s \notin chrome.paused \/ session[s].parent \in asked.both

(* broker.ts:426, "only for targets the client did not ask to pause": the   *)
(* attach leaves a target paused whose parent's client asked for the pause. *)
ClientPausesKept ==
    [][\A s \in chrome.paused :
            session[s].stage = "announced" /\ session'[s].stage = "attached"
                /\ session[s].parent \in asked.pause
            => s \in chrome'.paused]_vars

(* broker.ts:109: the client's headers are those it asked for last, folded  *)
(* in under every claim.                                                   *)
HeadersFollowClient ==
    \A s \in Sessions : session[s].stage = "attached" /\ clientHeaders[s] # None =>
        {h.name : h \in {g \in chrome.headers[s] : g.by = "client"}}
            = clientHeaders[s] \ config.headers
=============================================================================
