-------------------------------- MODULE Contexts --------------------------------
(***************************************************************************)
(* The execution contexts core announces for one page, whose Runtime       *)
(* domain it never enables: the contexts plugin (src/src/core/contexts.ts) *)
(* between the browser, which commits documents and answers commands, and  *)
(* a client that keeps the contexts it has heard of.                       *)
(*                                                                         *)
(* Abstracted.  A context is the frame, the document and the world it      *)
(* belongs to; asking twice for a world gives the same context.  The       *)
(* commands with which mainWorld finds a frame's context are one.  The     *)
(* browser keeps its events and replies in order; the proxy settles a      *)
(* reply as it comes, while events queue up in the chain of the session    *)
(* (module Ordering), so a reply overtakes them.  The echo of a setContent *)
(* tag keeps no state and is left out.                                     *)
(***************************************************************************)
EXTENDS Naturals, Sequences, Functions

CONSTANTS
    Main, Subs,     \* the top frame and the subframes, in tree order
    MaxLoads,       \* bound: documents committed
    MaxFaults,      \* bound: commands answered too late, or without a name
    None

Frames   == {Main} \cup Range(Subs)
Tree     == <<Main>> \o Subs

ASSUME ContextsAssumption ==
    /\ Subs \in Seq(Range(Subs)) /\ Main \notin Range(Subs)
    /\ None \notin Nat \cup [frame : Frames, doc : Nat, world : {"main", "util", "iso"}]

VARIABLES
    doc,        \* the browser: the document of each frame, 0 before, None after
    loads,      \* how many documents were committed
    iso,        \* a world of the client's own: "no", "asked", "told"
    calls,      \* commands on their way to the browser
    wire,       \* its events and replies on their way to the proxy
    chain,      \* the events the proxy has still to handle
    ready,      \* ctx.state: ready, and frames with the loaderId and the
    frames,     \*   contexts of each; gen tells one object from the next
    provides,   \* the calls of provide that wait for a reply
    walk,       \* setupSession: "no", "tree", "on", "over", "broken"
    left,       \* the places in the tree the walk has still to provide, with
                \*   the document each had then
    seen,       \* the client: the contexts it takes for live
    told,       \* the client: the newest document it has heard of, by frame
    lost,       \* history: a command was given up
    faults,     \* how many, and names that were not given
    unnamed     \* history: the main worlds the browser did not name

browser == <<doc, loads>>
plugin  == <<ready, frames, provides, walk, left>>
client  == <<seen, told>>
fault   == <<lost, faults, unnamed>>
vars    == <<browser, iso, calls, wire, chain, plugin, client, fault>>

Worlds     == {"main", "util"}
Ctx(f, w)  == [frame |-> f, doc |-> doc[f], world |-> w]
Exists(f)  == doc[f] \in Nat \ {0}
NoFrame(g) == [gen |-> g, loader |-> 0, contexts |-> {}]

Init ==
    /\ doc = [f \in Frames |-> IF f = Main THEN 1 ELSE 0] /\ loads = 1
    /\ iso = "no" /\ calls = <<>> /\ wire = <<>> /\ chain = <<>>
    /\ ready = FALSE /\ frames = [f \in Frames |-> NoFrame(0)] /\ provides = {}
    /\ walk = "no" /\ left = {}
    /\ seen = {} /\ told = [f \in Frames |-> 0]
    /\ lost = FALSE /\ faults = 0 /\ unnamed = {}
-----------------------------------------------------------------------------
(* The browser commits a document; a top-level one takes the subframes with *)
(* it.  A subframe may also be removed by the page.                        *)
Commit(f) ==
    /\ loads < MaxLoads /\ doc[f] # None /\ Exists(Main)
    /\ loads' = loads + 1
    /\ doc' = [g \in Frames |-> IF g = f THEN loads + 1
                                ELSE IF f = Main /\ Exists(g) THEN None ELSE doc[g]]
    /\ wire' = Append(wire, [kind |-> "document", frame |-> f, doc |-> loads + 1])
    /\ UNCHANGED <<iso, calls, chain, plugin, client, fault>>

RemoveFrame(f) ==
    /\ f # Main /\ Exists(f)
    /\ doc' = [doc EXCEPT ![f] = None]
    /\ wire' = Append(wire, [kind |-> "removed", frame |-> f, doc |-> 0])
    /\ UNCHANGED <<loads, iso, calls, chain, plugin, client, fault>>

(* It answers the next command: a world of the document the frame shows by  *)
(* now, an error if the frame is gone, the tree as it is.  What it says of  *)
(* the owner of a subframe may name no document: the reply is then no      *)
(* error, and names no context.                                            *)
Execute ==
    /\ calls # <<>> /\ calls' = Tail(calls)
    /\ LET c == Head(calls) IN
       \/ /\ c.world = "main" /\ c.frame # Main /\ Exists(c.frame)
          /\ wire' = Append(wire, [kind |-> "reply", to |-> c.to, named |-> FALSE,
                                   ctx |-> Ctx(c.frame, "main")])
          /\ faults < MaxFaults /\ faults' = faults + 1
          /\ unnamed' = unnamed \cup {Ctx(c.frame, "main")}
       \/ /\ wire' = Append(wire,
                CASE c.world = "tree" -> [kind |-> "tree", doc |-> doc]
                  [] c.world = "iso"  ->
                       [kind |-> "response", ctx |-> IF Exists(c.frame) THEN Ctx(c.frame, "iso") ELSE None]
                  [] OTHER ->
                       [kind |-> "reply", to |-> c.to, named |-> TRUE,
                        ctx |-> IF Exists(c.frame) THEN Ctx(c.frame, c.world) ELSE None])
          /\ UNCHANGED <<faults, unnamed>>
    /\ UNCHANGED <<browser, iso, chain, plugin, client, lost>>
-----------------------------------------------------------------------------
Call(f, w, to) == [frame |-> f, world |-> w, to |-> to]

(* provide, up to its first await: what was announced for the outgoing      *)
(* document is retracted.  fs are the frames, s what the client has seen.  *)
(* Mutant: the client is not told.                                         *)
ProvideUnsaid(f, d, walking, fs, s) ==
    IF fs[f].loader = d
    THEN /\ frames' = fs /\ seen' = s /\ UNCHANGED <<provides, calls>>
    ELSE LET p == [frame |-> f, doc |-> d, gen |-> fs[f].gen, walking |-> walking, world |-> "main"]
         IN  /\ frames' = [fs EXCEPT ![f].loader = d, ![f].contexts = {}]
             /\ seen' = s
             /\ provides' = provides \cup {p}
             /\ calls' = Append(calls, Call(f, "main", p))

Provide(f, d, walking, fs, s) ==
    IF fs[f].loader = d
    THEN /\ frames' = fs /\ seen' = s /\ UNCHANGED <<provides, calls>>
    ELSE LET p == [frame |-> f, doc |-> d, gen |-> fs[f].gen, walking |-> walking, world |-> "main"]
         IN  /\ frames' = [fs EXCEPT ![f].loader = d, ![f].contexts = {}]
             /\ seen' = s \ fs[f].contexts
             /\ provides' = provides \cup {p}
             /\ calls' = Append(calls, Call(f, "main", p))

(* announce. *)
Announce(c) ==
    /\ frames' = [frames EXCEPT ![c.frame].contexts = @ \cup {c}]
    /\ seen' = IF c \in frames[c.frame].contexts THEN seen ELSE seen \cup {c}

(* current, in provide. *)
Current(p) == frames[p.frame].loader = p.doc /\ frames[p.frame].gen = p.gen

(* A reply to provide: announce the context it names, if it names one, and  *)
(* go on to the utility world, unless another document has come.  A command *)
(* that failed ends the walk it is part of.                                *)
Settle(p, c, named) ==
    /\ walk' = IF p.walking /\ c = None THEN "broken" ELSE walk
    /\ lost' = (lost \/ (p.walking /\ c = None))
    /\ IF c # None /\ Current(p)
       THEN /\ IF named THEN Announce(c) ELSE UNCHANGED <<frames, seen>>
            /\ IF p.world = "main"
               THEN LET q == [p EXCEPT !.world = "util"]
                    IN  /\ provides' = (provides \ {p}) \cup {q}
                        /\ calls' = Append(calls, Call(p.frame, "util", q))
               ELSE provides' = provides \ {p} /\ UNCHANGED calls
       ELSE provides' = provides \ {p} /\ UNCHANGED <<frames, seen, calls>>

(* The frames of the tree that showed a document. *)
Found(m) == {<<i, m.doc[Tree[i]]>> : i \in {j \in DOMAIN Tree : m.doc[Tree[j]] \in Nat \ {0}}}

(* onmessage: a reply is settled as it comes, the rest waits in the chain. *)
Take ==
    /\ wire # <<>> /\ wire' = Tail(wire)
    /\ LET m == Head(wire) IN
       \/ /\ m.kind = "reply"
          /\ IF m.to \in provides THEN Settle(m.to, m.ctx, m.named)
             ELSE UNCHANGED <<walk, lost, frames, seen, provides, calls>>
          /\ UNCHANGED <<chain, left>>
       \/ /\ m.kind = "tree"
          /\ IF walk = "tree"
             THEN walk' = "on" /\ left' = Found(m)
             ELSE UNCHANGED <<walk, left>>
          /\ UNCHANGED <<chain, frames, seen, provides, calls, lost>>
       \/ /\ m.kind \in {"document", "removed", "response"}
          /\ chain' = Append(chain, m)
          /\ UNCHANGED <<walk, left, frames, seen, provides, calls, lost>>
    /\ UNCHANGED <<browser, iso, ready, told, faults, unnamed>>

(* setupSession: the walk goes on to the next frame of the tree it was      *)
(* given, parents first, when no provide of its own is waiting.            *)
WalkOn ==
    /\ walk = "on" /\ \A p \in provides : ~p.walking
    /\ IF left = {}
       THEN walk' = "over" /\ UNCHANGED <<left, frames, seen, provides, calls>>
       ELSE \E e \in left :
            /\ \A o \in left : e[1] <= o[1]
            /\ left' = left \ {e} /\ UNCHANGED walk
            /\ Provide(Tree[e[1]], e[2], TRUE, frames, seen)
    /\ UNCHANGED <<browser, iso, wire, chain, ready, told, fault>>

(* The timer of ctx.send. *)
Timeout ==
    /\ faults < MaxFaults /\ faults' = faults + 1 /\ lost' = TRUE
    /\ \/ walk = "tree" /\ walk' = "broken" /\ UNCHANGED provides
       \/ \E p \in provides :
            /\ provides' = provides \ {p}
            /\ walk' = IF p.walking THEN "broken" ELSE walk
    /\ UNCHANGED <<browser, iso, calls, wire, chain, ready, frames, left, client, unnamed>>
-----------------------------------------------------------------------------
(* onRequest: Runtime.enable is answered and never forwarded; the first one *)
(* sets the session up.  Mutant: the frames there already are left out.     *)
EnableRuntimeBare ==
    /\ ~ready /\ ready' = TRUE
    /\ UNCHANGED <<browser, iso, calls, wire, chain, frames, provides, walk, left, client, fault>>

EnableRuntime ==
    /\ ~ready /\ ready' = TRUE
    /\ walk' = "tree" /\ calls' = Append(calls, Call(None, "tree", None))
    /\ UNCHANGED <<browser, iso, wire, chain, frames, provides, left, client, fault>>

(* The client creates a world of its own; pendingIso holds it. *)
CreateIsolatedWorld(f) ==
    /\ iso = "no" /\ ready /\ told[f] # 0 /\ iso' = "asked"
    /\ calls' = Append(calls, Call(f, "iso", None))
    /\ UNCHANGED <<browser, wire, chain, plugin, client, fault>>

(* onDocument, and the event on its way to the client.  A top-level commit  *)
(* clears the whole page.  Mutant: only the frame itself.                  *)
OnDocumentAlone(f, d) ==
    IF ~ready THEN UNCHANGED <<frames, seen, provides, calls>>
    ELSE Provide(f, d, FALSE, frames, seen)

OnDocument(f, d) ==
    IF ~ready THEN UNCHANGED <<frames, seen, provides, calls>>
    ELSE IF f = Main
         THEN Provide(f, d, FALSE, [g \in Frames |-> NoFrame(frames[g].gen + 1)], {})
         ELSE Provide(f, d, FALSE, frames, seen)

HandleEvent ==
    /\ chain # <<>> /\ chain' = Tail(chain)
    /\ LET m == Head(chain) IN
       \/ /\ m.kind = "document"
          /\ OnDocument(m.frame, m.doc)
          /\ told' = [g \in Frames |-> IF g = m.frame THEN m.doc
                                       ELSE IF m.frame = Main THEN 0 ELSE told[g]]
          /\ UNCHANGED iso
       \/ /\ m.kind = "removed"
          /\ seen' = {c \in seen : c.frame # m.frame}
          /\ told' = [told EXCEPT ![m.frame] = 0]
          /\ UNCHANGED <<iso, frames, provides, calls>>
       \/ /\ m.kind = "response" /\ iso' = "told"
          /\ IF m.ctx # None THEN Announce(m.ctx) ELSE UNCHANGED <<frames, seen>>
          /\ UNCHANGED <<told, provides, calls>>
    /\ UNCHANGED <<browser, wire, ready, walk, left, fault>>

Work == Execute \/ Take \/ WalkOn \/ HandleEvent

Next ==
    \/ Work \/ Timeout \/ EnableRuntime
    \/ \E f \in Frames : Commit(f) \/ RemoveFrame(f) \/ CreateIsolatedWorld(f)

(* The browser answers and the event loop takes what has come. *)
FairSpec == Init /\ [][Next]_vars /\ WF_vars(Work)
-----------------------------------------------------------------------------
(* The client takes no context for live that belongs to a document it has  *)
(* been told the frame has left, whatever reply overtook which event.      *)
NoGhosts == \A c \in seen : c.doc >= told[c.frame]

(* A frame has one main world and one utility world at a time: announcing  *)
(* a second is what makes a client give up the first.  It happens only     *)
(* while the event that retires the first waits in the chain: two calls of *)
(* provide for one document, the one of the walk and the one of its own    *)
(* event, are then both current, and a reply overtakes the event.          *)
Retiring(f) ==
    \E i \in DOMAIN chain : chain[i].kind \in {"document", "removed"} /\ chain[i].frame \in {f, Main}

OneOfAKind ==
    \A c, e \in seen :
        (c.frame = e.frame /\ c.world = e.world /\ c.world # "iso" /\ c # e) => Retiring(c.frame)

(* Whenever everything has been answered and handled, the client has the   *)
(* two worlds of every frame, of the document it shows, but for the main    *)
(* worlds the browser did not name, and unless a command was given up:      *)
(* nothing is tried again then, and a walk that loses one frame loses those *)
(* after it.                                                               *)
Quiet == calls = <<>> /\ wire = <<>> /\ chain = <<>> /\ provides = {} /\ walk \in {"over", "broken"}

SettlesRight ==
    (Quiet /\ ~lost) =>
        LET right == {Ctx(f, w) : f \in {g \in Frames : Exists(g)}, w \in Worlds}
            has   == {c \in seen : c.world \in Worlds}
        IN  has \subseteq right /\ right \ has \subseteq unnamed

(* A client that enabled the runtime hears of the page's main world.       *)
ContextsArrive ==
    ready ~> (lost \/ Ctx(Main, "main") \in seen)
=============================================================================
