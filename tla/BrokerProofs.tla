------------------------------ MODULE BrokerProofs ------------------------------
(***************************************************************************)
(* Proofs that the claims of module Broker hold for every set of sessions, *)
(* targets, headers and patterns and any number of client commands.        *)
(***************************************************************************)
EXTENDS Broker, TLAPS

(* A viewport the client has is known to the broker, or a clear crossed it. *)
WishRecorded == asked.view \subseteq viewports \cup asked.crossed

(* A clear that is still to push its metrics meets no viewport of the       *)
(* client, unless one crossed it.                                          *)
ClearsAreCrossed ==
    \A s \in clearing :
        /\ session[s].stage \in {"attached", "gone"}
        /\ session[s].stage = "attached" /\ session[s].page \in asked.view
              => session[s].page \in asked.crossed

(* What MonitorHolds says of pages with a document holds of every page the  *)
(* broker has folded its claim into.                                       *)
ScreenClaimed ==
    config.display => \A t \in viewports \cup claimed \cup asked.document :
        \/ chrome.screen[t] = "surface"
        \/ On(t) \cap clearing # {} \/ t \in asked.crossed

IInv == /\ TypeOK
        /\ ClaimedHeadersHold /\ AuthStaysOn
        /\ ViewportKept /\ WishRecorded /\ ClearsAreCrossed
        /\ ScreenClaimed
-----------------------------------------------------------------------------
LEMMA TypeInit == Init => TypeOK
  <1> SUFFICES ASSUME Init PROVE TypeOK
    OBVIOUS
  <1>1. chrome \in Browsers
    BY DEF Init, Browsers
  <1>2. asked \in Wishes
    BY DEF Init, Wishes
  <1>3. Registry
    BY BrokerAssumption DEF Init, Registry, Stages
  <1>4. commands \in 0..MaxCommands
    BY BrokerAssumption DEF Init
  <1>5. clientHeaders \in [Sessions -> (SUBSET Names) \cup {None}]
    BY DEF Init
  <1> QED BY <1>1, <1>2, <1>3, <1>4, <1>5 DEF Init, TypeOK

LEMMA PushedType ==
    ASSUME TypeOK, NEW s \in Sessions, NEW names \in SUBSET Names
    PROVE  Pushed(s, names) \subseteq [name : Names, by : {"client", "surface"}]
  <1>1. config.headers \subseteq Names
    BY BrokerAssumption DEF TypeOK, Config
  <1>2. chrome.headers[s] \subseteq [name : Names, by : {"client", "surface"}]
    BY DEF TypeOK, Browsers
  <1>3. \A n \in Names, by \in {"client", "surface"} :
            Header(n, by) \in [name : Names, by : {"client", "surface"}]
    BY DEF Header
  <1> QED BY <1>1, <1>2, <1>3 DEF Pushed

LEMMA UnionType ==
    ASSUME NEW client \in Patterns \cup {None}, NEW p \in SUBSET (Patterns \cup {All})
    PROVE  Union(client, p) \subseteq Patterns \cup {All}
  BY DEF Union, AuthPatterns

(* A session with a target is on a page of the browser. *)
LEMMA LivePage ==
    ASSUME Registry, NEW s \in Sessions
    PROVE  /\ s \in Live => session[s].page \in Targets
           /\ session[s].stage = "attached" => s \in Live
  BY DEF Registry, Stages, Live

(* The monitor is pushed without touching headers or interception.        *)
LEMMA PushMetricsKeeps ==
    ASSUME NEW s, chrome \in Browsers
    PROVE  /\ PushMetrics(s).headers = chrome.headers
           /\ PushMetrics(s).fetch = chrome.fetch
  BY DEF PushMetrics, Browsers

LEMMA PushMetricsType ==
    ASSUME TypeOK, NEW s \in Sessions
    PROVE  PushMetrics(s) \in Browsers
  <1>1. s \in Live => session[s].page \in Targets
    BY LivePage DEF TypeOK
  <1> QED BY <1>1 DEF TypeOK, Browsers, PushMetrics

LEMMA TypeStep == TypeOK /\ [Next]_vars => TypeOK'
  <1> SUFFICES ASSUME TypeOK, [Next]_vars PROVE TypeOK'  OBVIOUS
  <1> USE BrokerAssumption
  <1>1. ASSUME NEW s \in Sessions, NEW t \in Targets, NEW p \in Sessions \cup {Root}, Announce(s, t, p)
        PROVE TypeOK'
    <2>1. chrome' \in Browsers
      BY <1>1 DEF TypeOK, Config, Registry, Stages, Browsers, Announce, broker
    <2>2. asked' \in Wishes
      BY <1>1 DEF TypeOK, Registry, Stages, Wishes, Announce, broker
    <2>3. Registry'
      BY <1>1 DEF TypeOK, Registry, Stages, Announce, broker
    <2>4. (viewports \cup claimed)' \subseteq {target[r] : r \in Sessions}' \ {None}
      BY <1>1 DEF TypeOK, Registry, Stages, Announce, broker
    <2> QED BY <1>1, <2>1, <2>2, <2>3, <2>4 DEF TypeOK, Announce, broker
  <1>2. ASSUME NEW s \in Sessions, Attach(s)
        PROVE TypeOK'
    <2>1. chrome' \in Browsers
      <3>1. Pushed(s, {}) \subseteq [name : Names, by : {"client", "surface"}]
        BY PushedType
      <3>2. Union(clientPattern, {}) \subseteq Patterns \cup {All}
        BY UnionType DEF TypeOK
      <3> QED BY <1>2, <3>1, <3>2 DEF TypeOK, Browsers, Attach
    <2>2. asked' \in Wishes
      BY <1>2 DEF TypeOK, Registry, Stages, Wishes, Attach, Pushed, Union, AuthPatterns,
                  Header, Resumes
    <2>3. Registry'
      BY <1>2 DEF TypeOK, Registry, Stages, Attach, Pushed, Union, AuthPatterns, Header,
                  Resumes
    <2>4. (viewports \cup claimed)' \subseteq {target[r] : r \in Sessions}' \ {None}
      BY <1>2 DEF TypeOK, Registry, Stages, Attach, Pushed, Union, AuthPatterns, Header,
                  Resumes
    <2> QED BY <1>2, <2>1, <2>2, <2>3, <2>4 DEF TypeOK, Attach, Pushed, Union,
                                                AuthPatterns, Header, Resumes
  <1>3. ASSUME NEW s \in Sessions, Detach(s)
        PROVE TypeOK'
    <2>1. chrome' \in Browsers
      BY <1>3 DEF TypeOK, Config, Registry, Stages, Browsers, Detach, Returned
    <2>2. asked' \in Wishes
      <3> DEFINE t    == session[s].page
                 kept(f) == IF On(t) = {s} THEN f \ {t} ELSE f
      <3>1. asked' = [asked EXCEPT !.fetch = @ \ {s}, !.pause = @ \ {s},
                          !.both = @ \ {s}, !.view = kept(@), !.document = kept(@),
                          !.crossed = IF s \in clearing /\ On(t) # {s}
                                      THEN @ \cup {t} ELSE kept(@)]
        BY <1>3 DEF Detach
      <3>2. t \in Targets
        BY <1>3, LivePage DEF TypeOK, Detach
      <3> QED BY <3>1, <3>2 DEF TypeOK, Wishes
    <2>3. Registry'
      BY <1>3 DEF TypeOK, Registry, Stages, Detach, Returned
    <2>4. (viewports \cup claimed)' \subseteq {target[r] : r \in Sessions}' \ {None}
      BY <1>3 DEF TypeOK, Registry, Stages, Detach, Returned
    <2> QED BY <1>3, <2>1, <2>2, <2>3, <2>4 DEF TypeOK, Detach, Returned
  <1>4. ASSUME NEW s \in Sessions, NEW names \in SUBSET Names, SetExtraHTTPHeaders(s, names)
        PROVE TypeOK'
    <2>1. chrome' \in Browsers
      <3>1. Pushed(s, names) \subseteq [name : Names, by : {"client", "surface"}]
        BY PushedType
      <3> QED BY <1>4, <3>1 DEF TypeOK, Browsers, SetExtraHTTPHeaders, Effect
    <2>2. asked' \in Wishes
      BY <1>4 DEF TypeOK, Registry, Stages, Wishes, SetExtraHTTPHeaders, Command,
                  Effect, Live, Pushed, Header
    <2>3. Registry'
      BY <1>4 DEF TypeOK, Registry, Stages, SetExtraHTTPHeaders, Command, Effect, Live,
                  Pushed, Header
    <2>4. (viewports \cup claimed)' \subseteq {target[r] : r \in Sessions}' \ {None}
      BY <1>4 DEF TypeOK, Registry, Stages, SetExtraHTTPHeaders, Command, Effect, Live,
                  Pushed, Header
    <2> QED BY <1>4, <2>1, <2>2, <2>3, <2>4 DEF TypeOK, SetExtraHTTPHeaders, Command,
                                                Effect, Live, Pushed, Header
  <1>5. ASSUME NEW s \in Sessions, NEW p \in Patterns, FetchEnable(s, p)
        PROVE TypeOK'
    <2>1. chrome' \in Browsers
      <3>1. Union(p, chrome.fetch[s]) \subseteq Patterns \cup {All}
        BY UnionType DEF TypeOK, Browsers
      <3> QED BY <1>5, <3>1 DEF TypeOK, Browsers, FetchEnable, Effect
    <2>2. asked' \in Wishes
      BY <1>5 DEF TypeOK, Registry, Stages, Wishes, FetchEnable, Command, Effect, Note,
                  Live, Union, AuthPatterns
    <2>3. Registry'
      BY <1>5 DEF TypeOK, Registry, Stages, FetchEnable, Command, Effect, Note, Live,
                  Union, AuthPatterns
    <2>4. (viewports \cup claimed)' \subseteq {target[r] : r \in Sessions}' \ {None}
      BY <1>5 DEF TypeOK, Registry, Stages, FetchEnable, Command, Effect, Note, Live,
                  Union, AuthPatterns
    <2> QED BY <1>5, <2>1, <2>2, <2>3, <2>4 DEF TypeOK, FetchEnable, Command, Effect,
                                                Note, Live, Union, AuthPatterns
  <1>6. ASSUME NEW s \in Sessions, FetchDisable(s)
        PROVE TypeOK'
    <2>1. chrome' \in Browsers
      BY <1>6 DEF TypeOK, Config, Registry, Stages, Browsers, FetchDisable, Command,
                  Effect, Note, Live, Union, AuthPatterns
    <2>2. asked' \in Wishes
      BY <1>6 DEF TypeOK, Registry, Stages, Wishes, FetchDisable, Command, Effect, Note,
                  Live, Union, AuthPatterns
    <2>3. Registry'
      BY <1>6 DEF TypeOK, Registry, Stages, FetchDisable, Command, Effect, Note, Live,
                  Union, AuthPatterns
    <2>4. (viewports \cup claimed)' \subseteq {target[r] : r \in Sessions}' \ {None}
      BY <1>6 DEF TypeOK, Registry, Stages, FetchDisable, Command, Effect, Note, Live,
                  Union, AuthPatterns
    <2> QED BY <1>6, <2>1, <2>2, <2>3, <2>4 DEF TypeOK, FetchDisable, Command, Effect,
                                                Note, Live, Union, AuthPatterns
  <1>7. ASSUME NEW s \in Sessions, SetDeviceMetricsOverride(s)
        PROVE TypeOK'
    <2>1. chrome' \in Browsers
      BY <1>7 DEF TypeOK, Config, Registry, Stages, Browsers, SetDeviceMetricsOverride,
                  Command, Effect, Note, Live, Folded
    <2>2. asked' \in Wishes
      <3>1. s \in Live => session[s].page \in Targets
        BY LivePage DEF TypeOK
      <3> QED BY <1>7, <3>1 DEF TypeOK, Wishes, SetDeviceMetricsOverride, Note
    <2>3. Registry'
      BY <1>7 DEF TypeOK, Registry, Stages, SetDeviceMetricsOverride, Command, Effect,
                  Note, Live, Folded
    <2>4. (viewports \cup claimed)' \subseteq {target[r] : r \in Sessions}' \ {None}
      BY <1>7 DEF TypeOK, Registry, Stages, SetDeviceMetricsOverride, Command, Effect,
                  Note, Live, Folded
    <2> QED BY <1>7, <2>1, <2>2, <2>3, <2>4 DEF TypeOK, SetDeviceMetricsOverride,
                                                Command, Effect, Note, Live, Folded
  <1>8. ASSUME NEW s \in Sessions, ClearDeviceMetricsOverride(s)
        PROVE TypeOK'
    <2>1. chrome' \in Browsers
      BY <1>8 DEF TypeOK, Config, Registry, Stages, Browsers,
                  ClearDeviceMetricsOverride, Command, Effect, Note, Live
    <2>2. asked' \in Wishes
      BY <1>8 DEF TypeOK, Registry, Stages, Wishes, ClearDeviceMetricsOverride, Command,
                  Effect, Note, Live
    <2>3. Registry'
      BY <1>8 DEF TypeOK, Registry, Stages, ClearDeviceMetricsOverride, Command, Effect,
                  Note, Live
    <2>4. (viewports \cup claimed)' \subseteq {target[r] : r \in Sessions}' \ {None}
      BY <1>8 DEF TypeOK, Registry, Stages, ClearDeviceMetricsOverride, Command, Effect,
                  Note, Live
    <2> QED BY <1>8, <2>1, <2>2, <2>3, <2>4 DEF TypeOK, ClearDeviceMetricsOverride,
                                                Command, Effect, Note, Live
  <1>9. ASSUME NEW s \in Sessions, Cleared(s)
        PROVE TypeOK'
    <2>1. chrome' \in Browsers
      BY <1>9 DEF TypeOK, Config, Registry, Stages, Browsers, Cleared, PushMetrics, Live
    <2>2. asked' \in Wishes
      BY <1>9 DEF TypeOK, Registry, Stages, Wishes, Cleared, PushMetrics, Live
    <2>3. Registry'
      BY <1>9 DEF TypeOK, Registry, Stages, Cleared, PushMetrics, Live
    <2>4. (viewports \cup claimed)' \subseteq {target[r] : r \in Sessions}' \ {None}
      BY <1>9 DEF TypeOK, Registry, Stages, Cleared, PushMetrics, Live
    <2> QED BY <1>9, <2>1, <2>2, <2>3, <2>4 DEF TypeOK, Cleared, PushMetrics, Live
  <1>10. ASSUME NEW s \in Sessions, Document(s)
        PROVE TypeOK'
    <2>1. chrome' \in Browsers
      BY <1>10, PushMetricsType DEF TypeOK, Document
    <2>2. asked' \in Wishes
      <3>1. target[s] \in Targets
        BY <1>10 DEF TypeOK, Registry, Stages, Document
      <3>2. asked \in Wishes /\ asked' = [asked EXCEPT !.document = @ \cup {target[s]}]
        BY <1>10 DEF TypeOK, Document
      <3> QED BY <3>1, <3>2 DEF Wishes
    <2>3. Registry'
      BY <1>10 DEF TypeOK, Registry, Stages, Document, PushMetrics, Live
    <2>4. (viewports \cup claimed)' \subseteq {target[r] : r \in Sessions}' \ {None}
      BY <1>10 DEF TypeOK, Registry, Stages, Document, PushMetrics, Live
    <2> QED BY <1>10, <2>1, <2>2, <2>3, <2>4 DEF TypeOK, Document, PushMetrics, Live
  <1>11. ASSUME NEW s \in Sessions \cup {Root}, NEW wait \in BOOLEAN, SetAutoAttach(s, wait)
        PROVE TypeOK'
    <2>1. chrome' \in Browsers
      BY <1>11 DEF TypeOK, Config, Registry, Stages, Browsers, SetAutoAttach, Command,
                   Effect, Note, Live
    <2>2. asked' \in Wishes
      <3> DEFINE pauses == IF wait THEN asked.pause \cup {s} ELSE asked.pause \ {s}
                 both   == IF s \in asked.pause /\ ~wait THEN asked.both \cup {s} ELSE asked.both
      <3>1. asked \in Wishes
        BY DEF TypeOK
      <3>2. asked' = asked \/ asked' = [asked EXCEPT !.pause = pauses, !.both = both]
        BY <1>11 DEF SetAutoAttach, Note
      <3>3. pauses \subseteq Sessions \cup {Root} /\ both \subseteq Sessions \cup {Root}
        BY <3>1 DEF Wishes
      <3> HIDE DEF pauses, both
      <3> QED BY <3>1, <3>2, <3>3 DEF Wishes
    <2>3. Registry'
      BY <1>11 DEF TypeOK, Registry, Stages, SetAutoAttach, Command, Effect, Note, Live
    <2>4. (viewports \cup claimed)' \subseteq {target[r] : r \in Sessions}' \ {None}
      BY <1>11 DEF TypeOK, Registry, Stages, SetAutoAttach, Command, Effect, Note, Live
    <2> QED BY <1>11, <2>1, <2>2, <2>3, <2>4 DEF TypeOK, SetAutoAttach, Command, Effect,
                                                 Note, Live
  <1>12. ASSUME NEW s \in Sessions, RequestPauses(s)
        PROVE TypeOK'
    <2>1. chrome' \in Browsers
      BY <1>12 DEF TypeOK, Config, Registry, Stages, Browsers, RequestPauses, broker
    <2>2. asked' \in Wishes
      BY <1>12 DEF TypeOK, Registry, Stages, Wishes, RequestPauses, broker
    <2>3. Registry'
      BY <1>12 DEF TypeOK, Registry, Stages, RequestPauses, broker
    <2>4. (viewports \cup claimed)' \subseteq {target[r] : r \in Sessions}' \ {None}
      BY <1>12 DEF TypeOK, Registry, Stages, RequestPauses, broker
    <2> QED BY <1>12, <2>1, <2>2, <2>3, <2>4 DEF TypeOK, RequestPauses, broker
  <1>13. ASSUME NEW s \in Sessions, RequestPaused(s)
        PROVE TypeOK'
    <2>1. chrome' \in Browsers
      BY <1>13 DEF TypeOK, Config, Registry, Stages, Browsers, RequestPaused, Given,
                   broker
    <2>2. asked' \in Wishes
      BY <1>13 DEF TypeOK, Registry, Stages, Wishes, RequestPaused, Given, broker
    <2>3. Registry'
      BY <1>13 DEF TypeOK, Registry, Stages, RequestPaused, Given, broker
    <2>4. (viewports \cup claimed)' \subseteq {target[r] : r \in Sessions}' \ {None}
      BY <1>13 DEF TypeOK, Registry, Stages, RequestPaused, Given, broker
    <2> QED BY <1>13, <2>1, <2>2, <2>3, <2>4 DEF TypeOK, RequestPaused, Given, broker
  <1>14. ASSUME NEW s \in Sessions, ClientContinues(s)
        PROVE TypeOK'
    <2>1. chrome' \in Browsers
      BY <1>14 DEF TypeOK, Config, Registry, Stages, Browsers, ClientContinues, broker
    <2>2. asked' \in Wishes
      BY <1>14 DEF TypeOK, Registry, Stages, Wishes, ClientContinues, broker
    <2>3. Registry'
      BY <1>14 DEF TypeOK, Registry, Stages, ClientContinues, broker
    <2>4. (viewports \cup claimed)' \subseteq {target[r] : r \in Sessions}' \ {None}
      BY <1>14 DEF TypeOK, Registry, Stages, ClientContinues, broker
    <2> QED BY <1>14, <2>1, <2>2, <2>3, <2>4 DEF TypeOK, ClientContinues, broker
  <1>15. ASSUME NEW s \in Sessions, ClientResumes(s)
        PROVE TypeOK'
    <2>1. chrome' \in Browsers
      BY <1>15 DEF TypeOK, Config, Registry, Stages, Browsers, ClientResumes, broker
    <2>2. asked' \in Wishes
      BY <1>15 DEF TypeOK, Registry, Stages, Wishes, ClientResumes, broker
    <2>3. Registry'
      BY <1>15 DEF TypeOK, Registry, Stages, ClientResumes, broker
    <2>4. (viewports \cup claimed)' \subseteq {target[r] : r \in Sessions}' \ {None}
      BY <1>15 DEF TypeOK, Registry, Stages, ClientResumes, broker
    <2> QED BY <1>15, <2>1, <2>2, <2>3, <2>4 DEF TypeOK, ClientResumes, broker
  <1>16. CASE UNCHANGED vars
    BY <1>16 DEF TypeOK, Registry, vars, broker
  <1> QED BY <1>1, <1>2, <1>3, <1>4, <1>5, <1>6, <1>7, <1>8, <1>9, <1>10,
             <1>11, <1>12, <1>13, <1>14, <1>15, <1>16 DEF Next, Client, Browser
-----------------------------------------------------------------------------
LEMMA PushedClaims ==
    ASSUME TypeOK, NEW s \in Sessions, NEW names \in SUBSET Names, NEW n \in config.headers
    PROVE  {h \in Pushed(s, names) : h.name = n} = {Header(n, "surface")}
  <1>1. Pushed(s, names) = {Header(m, "surface") : m \in config.headers}
                               \cup {Header(m, "client") : m \in names \ config.headers}
    BY DEF Pushed
  <1> QED BY <1>1 DEF Header

(* Only attach and a command of the client write headers.                  *)
LEMMA HeadersStep == TypeOK /\ ClaimedHeadersHold /\ [Next]_vars => ClaimedHeadersHold'
  <1> SUFFICES ASSUME TypeOK, ClaimedHeadersHold, [Next]_vars
               PROVE  ClaimedHeadersHold'
    OBVIOUS
  <1> USE BrokerAssumption
  <1>1. ASSUME NEW s \in Sessions, NEW t \in Targets, NEW p \in Sessions \cup {Root},
               Announce(s, t, p)
        PROVE  ClaimedHeadersHold'
    BY <1>1 DEF TypeOK, Registry, Stages, Browsers, ClaimedHeadersHold, Announce
  <1>2. ASSUME NEW s \in Sessions, Attach(s)
        PROVE  ClaimedHeadersHold'
    <2>1. \A n \in config.headers : {h \in Pushed(s, {}) : h.name = n} = {Header(n, "surface")}
      BY PushedClaims
    <2> QED BY <1>2, <2>1 DEF TypeOK, Registry, Stages, Browsers, ClaimedHeadersHold,
                              Attach
  <1>3. ASSUME NEW s \in Sessions, Detach(s)
        PROVE  ClaimedHeadersHold'
    BY <1>3 DEF TypeOK, Registry, Stages, Browsers, ClaimedHeadersHold, Detach
  <1>4. ASSUME NEW s \in Sessions, NEW names \in SUBSET Names, SetExtraHTTPHeaders(s, names)
        PROVE  ClaimedHeadersHold'
    <2>1. \A n \in config.headers :
              {h \in Pushed(s, names) : h.name = n} = {Header(n, "surface")}
      BY PushedClaims
    <2> QED BY <1>4, <2>1 DEF TypeOK, Registry, Stages, Browsers, ClaimedHeadersHold,
                              SetExtraHTTPHeaders, Command, Effect, Live
  <1>5. CASE chrome'.headers = chrome.headers /\ session' = session /\ config' = config
    BY <1>5 DEF ClaimedHeadersHold
  <1>6. ASSUME NEW s \in Sessions, NEW p \in Patterns, FetchEnable(s, p)
        PROVE  ClaimedHeadersHold'
    BY <1>5, <1>6 DEF TypeOK, Browsers, FetchEnable, Command, Effect
  <1>7. ASSUME NEW s \in Sessions,
               \/ FetchDisable(s)
               \/ SetDeviceMetricsOverride(s) \/ ClearDeviceMetricsOverride(s)
        PROVE  ClaimedHeadersHold'
    <2>1. chrome \in Browsers
      BY DEF TypeOK
    <2>2. session' = session /\ config' = config
      BY <1>7 DEF FetchDisable, SetDeviceMetricsOverride, ClearDeviceMetricsOverride, Command
    <2>3. CASE FetchDisable(s)
      BY <2>1, <2>2, <2>3, <1>5, SMTT(20) DEF Browsers, FetchDisable, Effect
    <2>4. CASE SetDeviceMetricsOverride(s)
      BY <2>1, <2>2, <2>4, <1>5, SMTT(20) DEF Browsers, SetDeviceMetricsOverride, Effect
    <2>5. CASE ClearDeviceMetricsOverride(s)
      BY <2>1, <2>2, <2>5, <1>5, SMTT(20) DEF Browsers, ClearDeviceMetricsOverride, Effect
    <2> QED BY <1>7, <2>3, <2>4, <2>5
  <1>8. ASSUME NEW s \in Sessions, Cleared(s) \/ Document(s)
        PROVE  ClaimedHeadersHold'
    <2>1. chrome \in Browsers
      BY DEF TypeOK
    <2>2. chrome' = chrome \/ chrome' = PushMetrics(s)
      BY <1>8 DEF Cleared, Document
    <2>3. chrome'.headers = chrome.headers
      BY <2>1, <2>2, PushMetricsKeeps
    <2> QED BY <1>5, <1>8, <2>3 DEF Cleared, Document
  <1>9. ASSUME NEW s \in Sessions \cup {Root}, NEW wait \in BOOLEAN, SetAutoAttach(s, wait)
        PROVE  ClaimedHeadersHold'
    BY <1>5, <1>9 DEF TypeOK, Browsers, SetAutoAttach, Command, Effect
  <1>10. ASSUME NEW s \in Sessions,
               RequestPauses(s) \/ RequestPaused(s) \/ ClientContinues(s) \/ ClientResumes(s)
        PROVE  ClaimedHeadersHold'
    BY <1>5, <1>10 DEF TypeOK, Browsers, RequestPauses, RequestPaused, ClientContinues,
                       ClientResumes
  <1>11. CASE UNCHANGED vars
    BY <1>5, <1>11 DEF vars
  <1> QED BY <1>1, <1>2, <1>3, <1>4, <1>6, <1>7, <1>8, <1>9, <1>10, <1>11
             DEF Next, Client, Browser
-----------------------------------------------------------------------------
LEMMA UnionAuth ==
    ASSUME config.auth, NEW client, NEW p
    PROVE  All \in Union(client, p)
  BY DEF Union, AuthPatterns

(* What the runtime claims is fixed while targets come and go.             *)
LEMMA ConfigFixed == [Next]_vars => config' = config
  <1>1. ASSUME NEW s \in Sessions, Client(s) PROVE config' = config
    BY <1>1 DEF Client, SetExtraHTTPHeaders, FetchEnable, FetchDisable, Command,
                SetDeviceMetricsOverride, ClearDeviceMetricsOverride, ClientContinues,
                ClientResumes
  <1>2. ASSUME NEW s \in Sessions, Browser(s) PROVE config' = config
    BY <1>2 DEF Browser, Announce, Attach, Detach, Document, RequestPauses, RequestPaused
  <1>3. ASSUME NEW s \in Sessions, Cleared(s) PROVE config' = config
    BY <1>3 DEF Cleared
  <1>4. ASSUME NEW s \in Sessions \cup {Root}, NEW wait \in BOOLEAN, SetAutoAttach(s, wait)
        PROVE  config' = config
    BY <1>4 DEF SetAutoAttach, Command
  <1> QED BY <1>1, <1>2, <1>3, <1>4 DEF Next, vars

(* Only attach and the client's Fetch commands write patterns.             *)
LEMMA AuthStep == TypeOK /\ AuthStaysOn /\ [Next]_vars => AuthStaysOn'
  <1> SUFFICES ASSUME TypeOK, AuthStaysOn, [Next]_vars, config.auth
               PROVE  \A r \in Sessions :
                          session'[r].stage = "attached" => All \in chrome'.fetch[r]
    BY ConfigFixed DEF AuthStaysOn
  <1> USE BrokerAssumption
  <1> DEFINE Kept == \A r \in Sessions :
                          session'[r].stage = "attached" => All \in chrome'.fetch[r]
  <1>1. ASSUME NEW s \in Sessions, NEW t \in Targets, NEW p \in Sessions \cup {Root},
               Announce(s, t, p)
        PROVE  Kept
    BY <1>1 DEF TypeOK, Registry, Stages, Browsers, AuthStaysOn, Announce
  <1>2. ASSUME NEW s \in Sessions, Attach(s)
        PROVE  Kept
    BY <1>2, UnionAuth DEF TypeOK, Registry, Stages, Browsers, AuthStaysOn, Attach
  <1>3. ASSUME NEW s \in Sessions, Detach(s)
        PROVE  Kept
    BY <1>3 DEF TypeOK, Registry, Stages, Browsers, AuthStaysOn, Detach
  <1>4. ASSUME NEW s \in Sessions, NEW p \in Patterns, FetchEnable(s, p)
        PROVE  Kept
    BY <1>4, UnionAuth DEF TypeOK, Browsers, AuthStaysOn, FetchEnable, Command, Effect
  <1>5. ASSUME NEW s \in Sessions, FetchDisable(s)
        PROVE  Kept
    BY <1>5, UnionAuth DEF TypeOK, Browsers, AuthStaysOn, FetchDisable, Command, Effect
  <1>6. CASE chrome'.fetch = chrome.fetch /\ session' = session
    BY <1>6 DEF AuthStaysOn
  <1>7. ASSUME NEW s \in Sessions, NEW names \in SUBSET Names, SetExtraHTTPHeaders(s, names)
        PROVE  Kept
    BY <1>6, <1>7 DEF TypeOK, Browsers, SetExtraHTTPHeaders, Command, Effect
  <1>8. ASSUME NEW s \in Sessions,
               SetDeviceMetricsOverride(s) \/ ClearDeviceMetricsOverride(s)
        PROVE  Kept
    <2>1. chrome \in Browsers
      BY DEF TypeOK
    <2>2. session' = session
      BY <1>8 DEF SetDeviceMetricsOverride, ClearDeviceMetricsOverride, Command
    <2>3. CASE SetDeviceMetricsOverride(s)
      BY <2>1, <2>3, <2>2, <1>6, SMTT(20) DEF Browsers, SetDeviceMetricsOverride, Effect
    <2>4. CASE ClearDeviceMetricsOverride(s)
      BY <2>1, <2>4, <2>2, <1>6, SMTT(20) DEF Browsers, ClearDeviceMetricsOverride, Effect
    <2> QED BY <1>8, <2>3, <2>4
  <1>9. ASSUME NEW s \in Sessions, Cleared(s) \/ Document(s)
        PROVE  Kept
    <2>1. chrome \in Browsers
      BY DEF TypeOK
    <2>2. chrome' = chrome \/ chrome' = PushMetrics(s)
      BY <1>9 DEF Cleared, Document
    <2>3. chrome'.fetch = chrome.fetch
      BY <2>1, <2>2, PushMetricsKeeps
    <2> QED BY <1>6, <1>9, <2>3 DEF Cleared, Document
  <1>10. ASSUME NEW s \in Sessions \cup {Root}, NEW wait \in BOOLEAN, SetAutoAttach(s, wait)
        PROVE  Kept
    BY <1>6, <1>10 DEF TypeOK, Browsers, SetAutoAttach, Command, Effect
  <1>11. ASSUME NEW s \in Sessions,
               RequestPauses(s) \/ RequestPaused(s) \/ ClientContinues(s) \/ ClientResumes(s)
        PROVE  Kept
    BY <1>6, <1>11 DEF TypeOK, Browsers, RequestPauses, RequestPaused, ClientContinues,
                       ClientResumes
  <1>12. CASE UNCHANGED vars
    BY <1>6, <1>12 DEF vars
  <1> QED BY <1>1, <1>2, <1>3, <1>4, <1>5, <1>7, <1>8, <1>9, <1>10, <1>11, <1>12
             DEF Next, Client, Browser
-----------------------------------------------------------------------------
(* The part of the inductive invariant that is about metrics.              *)
DisplayInv == ViewportKept /\ WishRecorded /\ ClearsAreCrossed /\ ScreenClaimed

LEMMA DisplayFrame ==
    ASSUME DisplayInv, config' = config, session' = session,
           viewports' = viewports, claimed' = claimed, clearing' = clearing,
           chrome'.view = chrome.view, chrome'.screen = chrome.screen,
           asked'.view = asked.view, asked'.document = asked.document,
           asked'.crossed = asked.crossed
    PROVE  DisplayInv'
  BY DEF DisplayInv, ViewportKept, WishRecorded, ClearsAreCrossed, ScreenClaimed, On

LEMMA DisplayStep == TypeOK /\ DisplayInv /\ [Next]_vars => DisplayInv'
  <1> SUFFICES ASSUME TypeOK, DisplayInv, [Next]_vars
               PROVE  DisplayInv'
    OBVIOUS
  <1> USE BrokerAssumption
  <1> USE DEF DisplayInv
  <1>1. ASSUME NEW s \in Sessions, NEW t \in Targets, NEW p \in Sessions \cup {Root},
               Announce(s, t, p)
        PROVE  DisplayInv'
    <2>1. \A u \in Targets : On(u)' = On(u)
      BY <1>1 DEF TypeOK, Registry, Stages, Announce, On
    <2>5. ViewportKept'
      BY <1>1, <2>1, SMTT(20) DEF TypeOK, Registry, Stages, Browsers, Wishes,
                                  ViewportKept, Announce, broker
    <2>6. WishRecorded'
      BY <1>1, <2>1, SMTT(20) DEF TypeOK, Registry, Stages, Browsers, Wishes,
                                  WishRecorded, Announce, broker
    <2>7. ClearsAreCrossed'
      BY <1>1, <2>1, SMTT(20) DEF TypeOK, Registry, Stages, Browsers, Wishes,
                                  ClearsAreCrossed, Announce, broker
    <2>8. ScreenClaimed'
      BY <1>1, <2>1, SMTT(20) DEF TypeOK, Registry, Stages, Browsers, Wishes,
                                  ScreenClaimed, Announce, broker
    <2> QED BY <2>5, <2>6, <2>7, <2>8
  <1>2. ASSUME NEW s \in Sessions, Attach(s)
        PROVE  DisplayInv'
    <2>1. \A u \in Targets : On(u) \subseteq On(u)'
      BY <1>2 DEF TypeOK, Registry, Stages, Attach, On
    <2>5. ViewportKept'
      BY <1>2, <2>1, SMTT(20) DEF TypeOK, Registry, Stages, Browsers, Wishes,
                                  ViewportKept, Attach
    <2>6. WishRecorded'
      BY <1>2, <2>1, SMTT(20) DEF TypeOK, Registry, Stages, Browsers, Wishes,
                                  WishRecorded, Attach
    <2>7. ClearsAreCrossed'
      BY <1>2, <2>1, SMTT(20) DEF TypeOK, Registry, Stages, Browsers, Wishes,
                                  ClearsAreCrossed, Attach
    <2>8. ScreenClaimed'
      BY <1>2, <2>1, SMTT(20) DEF TypeOK, Registry, Stages, Browsers, Wishes,
                                  ScreenClaimed, Attach
    <2> QED BY <2>5, <2>6, <2>7, <2>8
  <1>7. ASSUME NEW s \in Sessions, Detach(s)
        PROVE  DisplayInv'
    <2>5. ViewportKept'
      BY <1>7, SMTT(20) DEF TypeOK, Registry, Stages, Browsers, Wishes, ViewportKept,
                            Detach, Returned, On
    <2>6. WishRecorded'
      BY <1>7, SMTT(20) DEF TypeOK, Registry, Stages, Browsers, Wishes, WishRecorded,
                            Detach, Returned, On
    <2>7. ClearsAreCrossed'
      BY <1>7, SMTT(20) DEF TypeOK, Registry, Stages, Browsers, Wishes,
                            ClearsAreCrossed, Detach, Returned, On
    <2>8. ScreenClaimed'
      BY <1>7, SMTT(20) DEF TypeOK, Registry, Stages, Browsers, Wishes, ScreenClaimed,
                            Detach, Returned, On
    <2> QED BY <2>5, <2>6, <2>7, <2>8
  <1>8. ASSUME NEW s \in Sessions, SetDeviceMetricsOverride(s)
        PROVE  DisplayInv'
    <2>5. ViewportKept'
      BY <1>8, SMTT(20) DEF TypeOK, Registry, Stages, Browsers, Wishes, ViewportKept,
                            SetDeviceMetricsOverride, Command, Effect, Note, Live,
                            Folded, On
    <2>6. WishRecorded'
      BY <1>8, SMTT(20) DEF TypeOK, Registry, Stages, Browsers, Wishes, WishRecorded,
                            SetDeviceMetricsOverride, Command, Effect, Note, Live,
                            Folded, On
    <2>7. ClearsAreCrossed'
      BY <1>8, SMTT(20) DEF TypeOK, Registry, Stages, Browsers, Wishes,
                            ClearsAreCrossed, SetDeviceMetricsOverride, Command, Effect,
                            Note, Live, Folded, On
    <2>8. ScreenClaimed'
      BY <1>8, SMTT(20) DEF TypeOK, Registry, Stages, Browsers, Wishes, ScreenClaimed,
                            SetDeviceMetricsOverride, Command, Effect, Note, Live,
                            Folded, On
    <2> QED BY <2>5, <2>6, <2>7, <2>8
  <1>9. ASSUME NEW s \in Sessions, ClearDeviceMetricsOverride(s)
        PROVE  DisplayInv'
    <2>5. ViewportKept'
      BY <1>9, SMTT(20) DEF TypeOK, Registry, Stages, Browsers, Wishes, ViewportKept,
                            ClearDeviceMetricsOverride, Command, Effect, Note, Live, On
    <2>6. WishRecorded'
      BY <1>9, SMTT(20) DEF TypeOK, Registry, Stages, Browsers, Wishes, WishRecorded,
                            ClearDeviceMetricsOverride, Command, Effect, Note, Live, On
    <2>7. ClearsAreCrossed'
      BY <1>9, SMTT(20) DEF TypeOK, Registry, Stages, Browsers, Wishes,
                            ClearsAreCrossed, ClearDeviceMetricsOverride, Command,
                            Effect, Note, Live, On
    <2>8. ScreenClaimed'
      BY <1>9, SMTT(20) DEF TypeOK, Registry, Stages, Browsers, Wishes, ScreenClaimed,
                            ClearDeviceMetricsOverride, Command, Effect, Note, Live, On
    <2> QED BY <2>5, <2>6, <2>7, <2>8
  <1>10. ASSUME NEW s \in Sessions, Cleared(s)
        PROVE  DisplayInv'
    <2>5. ViewportKept'
      BY <1>10, SMTT(20) DEF TypeOK, Registry, Stages, Browsers, Wishes, ViewportKept,
                             ClearsAreCrossed, Cleared, PushMetrics, Live
    <2>6. WishRecorded'
      BY <1>10, SMTT(20) DEF TypeOK, Registry, Stages, Browsers, Wishes, WishRecorded,
                             Cleared, PushMetrics, Live, On
    <2>7. ClearsAreCrossed'
      BY <1>10, SMTT(20) DEF TypeOK, Registry, Stages, Browsers, Wishes,
                             ClearsAreCrossed, Cleared, PushMetrics, Live, On
    <2>8. ScreenClaimed'
      BY <1>10, SMTT(20) DEF TypeOK, Registry, Stages, Browsers, Wishes, ScreenClaimed,
                             Cleared, PushMetrics, Live, On
    <2> QED BY <2>5, <2>6, <2>7, <2>8
  <1>11. ASSUME NEW s \in Sessions, Document(s)
        PROVE  DisplayInv'
    <2> DEFINE t == target[s]
    <2>1. s \in Live /\ session[s].stage = "attached" /\ t = session[s].page /\ t \in Targets
      BY <1>11, LivePage DEF TypeOK, Registry, Document
    <2>2. UNCHANGED <<config, viewports, session, clearing>>
      BY <1>11 DEF Document
    <2>3. /\ asked'.view = asked.view /\ asked'.crossed = asked.crossed
          /\ asked'.document = asked.document \cup {t}
      BY <1>11 DEF TypeOK, Wishes, Document
    <2>4. CASE t \in viewports \cup claimed
      <3>1. chrome' = chrome /\ claimed' = claimed
        BY <1>11, <2>4 DEF Document
      <3> QED BY <2>2, <2>3, <2>4, <3>1
                 DEF ViewportKept, WishRecorded, ClearsAreCrossed, ScreenClaimed, On
    <2>5. CASE t \notin viewports \cup claimed
      <3>1. claimed' = claimed \cup {t}
        BY <1>11, <2>5 DEF Document
      <3>2. ASSUME config.display
            PROVE  /\ chrome'.view = [chrome.view EXCEPT ![t] = "default"]
                   /\ chrome'.screen = [chrome.screen EXCEPT ![t] = "surface"]
        <4>1. chrome' = PushMetrics(s)
          BY <1>11, <2>5, <3>2 DEF Document
        <4>2. PushMetrics(s) = [chrome EXCEPT !.view[t] = "default", !.screen[t] = "surface"]
          BY <2>1 DEF PushMetrics
        <4> QED BY <4>1, <4>2 DEF TypeOK, Browsers
      <3>3. ASSUME ~config.display
            PROVE  chrome' = chrome
        BY <1>11, <2>5, <3>3 DEF Document
      <3>4. /\ chrome.view \in [Targets -> {"default", "client"}]
            /\ chrome.screen \in [Targets -> {"default", "client", "surface"}]
            /\ asked.view \subseteq Targets
        BY DEF TypeOK, Browsers, Wishes
      <3>5. ViewportKept'
        BY <2>1, <2>2, <2>3, <2>5, <3>2, <3>3, <3>4 DEF ViewportKept, WishRecorded
      <3>6. WishRecorded' /\ ClearsAreCrossed'
        BY <2>2, <2>3 DEF WishRecorded, ClearsAreCrossed
      <3>7. \A u : On(u)' = On(u)
        BY <2>2 DEF On
      <3>8. ASSUME config.display, NEW u \in viewports \cup claimed' \cup asked'.document
            PROVE  \/ chrome'.screen[u] = "surface"
                   \/ On(u) \cap clearing # {} \/ u \in asked.crossed
        <4>1. CASE u = t
          BY <4>1, <2>1, <3>2, <3>4, <3>8
        <4>2. CASE u # t
          <5>1. u \in viewports \cup claimed \cup asked.document
            BY <4>2, <3>1, <2>3, <3>8
          <5>2. chrome'.screen[u] = chrome.screen[u]
            <6>1. u \in Targets
              BY <5>1 DEF TypeOK, Registry, Wishes
            <6> QED BY <4>2, <3>2, <3>4, <3>8, <6>1
          <5> QED BY <5>1, <5>2, <3>8 DEF ScreenClaimed
        <4> QED BY <4>1, <4>2
      <3>9. ScreenClaimed'
        BY <2>2, <2>3, <3>7, <3>8 DEF ScreenClaimed
      <3> QED BY <3>5, <3>6, <3>9
    <2> QED BY <2>4, <2>5
  <1>12. ASSUME NEW s \in Sessions, NEW names \in SUBSET Names, SetExtraHTTPHeaders(s, names)
        PROVE  DisplayInv'
    BY <1>12, DisplayFrame DEF TypeOK, Browsers, SetExtraHTTPHeaders, Command, Effect
  <1>13. ASSUME NEW s \in Sessions, NEW p \in Patterns, FetchEnable(s, p)
        PROVE  DisplayInv'
    BY <1>13, DisplayFrame DEF TypeOK, Browsers, Wishes, FetchEnable, Command, Effect,
                               Note
  <1>14. ASSUME NEW s \in Sessions, FetchDisable(s)
        PROVE  DisplayInv'
    BY <1>14, DisplayFrame DEF TypeOK, Browsers, Wishes, FetchDisable, Command, Effect,
                               Note
  <1>15. ASSUME NEW s \in Sessions \cup {Root}, NEW wait \in BOOLEAN, SetAutoAttach(s, wait)
        PROVE  DisplayInv'
    BY <1>15, DisplayFrame DEF TypeOK, Browsers, Wishes, SetAutoAttach, Command, Effect,
                               Note
  <1>16. ASSUME NEW s \in Sessions,
               RequestPauses(s) \/ RequestPaused(s) \/ ClientContinues(s) \/ ClientResumes(s)
        PROVE  DisplayInv'
    BY <1>16, DisplayFrame DEF TypeOK, Browsers, RequestPauses, RequestPaused,
                   ClientContinues, ClientResumes, broker
  <1>17. CASE UNCHANGED vars
    BY <1>17, DisplayFrame DEF vars, broker
  <1> QED BY <1>1, <1>2, <1>7, <1>8, <1>9, <1>10, <1>11, <1>12, <1>13, <1>14, <1>15, <1>16,
             <1>17 DEF Next, Client, Browser
-----------------------------------------------------------------------------
LEMMA InvInit == Init => IInv
  <1> SUFFICES ASSUME Init
               PROVE  IInv
    OBVIOUS
  <1>1. TypeOK
    BY TypeInit
  <1>2. /\ asked.view = {} /\ asked.document = {} /\ viewports = {} /\ claimed = {}
        /\ clearing = {} /\ \A s \in Sessions : session[s].stage = "fresh"
    BY DEF Init
  <1> QED BY <1>1, <1>2 DEF IInv, ClaimedHeadersHold, AuthStaysOn, ViewportKept,
             WishRecorded, ClearsAreCrossed, ScreenClaimed

LEMMA InvStep == IInv /\ [Next]_vars => IInv'
  BY TypeStep, HeadersStep, AuthStep, DisplayStep DEF IInv, DisplayInv

THEOREM Invariance == Spec => []IInv
  BY InvInit, InvStep, PTL DEF Spec

(* The broker's tables and the browser's state keep their types, and what  *)
(* is kept per target is kept for registered targets alone.                *)
THEOREM TypeCorrect == Spec => []TypeOK
  BY Invariance, PTL DEF IInv

(* A claimed header holds on every session (broker.ts:471).                *)
THEOREM ClaimsOutlastTheClient == Spec => []ClaimedHeadersHold
  BY Invariance, PTL DEF IInv

(* Interception for proxy auth cannot be switched off (broker.ts:291).      *)
THEOREM AuthCannotBeSwitchedOff == Spec => []AuthStaysOn
  BY Invariance, PTL DEF IInv

(* The client's viewport is replaced only by a clear that crossed it        *)
(* (broker.ts:239).                                                        *)
THEOREM ClientKeepsItsViewport == Spec => []ViewportKept
  BY Invariance, PTL DEF IInv

(* A page with a document reports the claimed monitor (broker.ts:306).      *)
THEOREM MonitorIsClaimed == Spec => []MonitorHolds
  <1>1. IInv => MonitorHolds
    BY DEF IInv, ScreenClaimed, MonitorHolds
  <1> QED BY Invariance, <1>1, PTL
=============================================================================
