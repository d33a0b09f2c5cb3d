-------------------------------- MODULE PageProofs --------------------------------
(***************************************************************************)
(* Theorems about what a page is to its two readers, for every tree of     *)
(* frames and any number of documents, sessions and pool slots: the        *)
(* execution contexts a client takes for live (Contexts), and the identity *)
(* a session is sealed with and its data dir is opened under (Identities). *)
(***************************************************************************)
EXTENDS Contexts, Identities, SequenceTheorems, FiniteSetTheorems, WellFoundedInduction, TLAPS

Documents  == Nat \cup {None}
Context    == [frame : Frames, doc : Nat, world : Worlds \cup {"iso"}]
Provision  == [frame : Frames, doc : Nat, gen : Nat, walking : BOOLEAN, world : Worlds]
FrameState == [gen : Nat, loader : Nat, contexts : SUBSET Context]

TreeCall == Call(None, "tree", None)
Calls    == {TreeCall} \cup {Call(f, "iso", None) : f \in Frames}
                       \cup {Call(p.frame, p.world, p) : p \in Provision}

Events    == [kind : {"document", "removed"}, frame : Frames, doc : Nat]
Trees     == [kind : {"tree"}, doc : [Frames -> Documents]]
Responses == [kind : {"response"}, ctx : Context \cup {None}]
Replies   == [kind : {"reply"}, to : Provision, named : BOOLEAN, ctx : Context \cup {None}]

TypeOK ==
    /\ doc \in [Frames -> Documents] /\ loads \in Nat
    /\ iso \in {"no", "asked", "told"} /\ ready \in BOOLEAN
    /\ calls \in Seq(Calls)
    /\ wire \in Seq(Events \cup Trees \cup Responses \cup Replies)
    /\ chain \in Seq(Events \cup Responses)
    /\ frames \in [Frames -> FrameState] /\ provides \subseteq Provision
    /\ walk \in {"no", "tree", "on", "over", "broken"}
    /\ left \subseteq (DOMAIN Tree) \X Nat
    /\ seen \subseteq Context /\ told \in [Frames -> Nat]
    /\ lost \in BOOLEAN /\ faults \in Nat /\ unnamed \subseteq Context

(* Nothing is asked before the client enables the runtime. *)
Asleep ==
    ~ready =>
        /\ walk = "no" /\ iso = "no" /\ calls = <<>> /\ provides = {} /\ left = {} /\ seen = {}
        /\ \A i \in DOMAIN wire : wire[i] \in Events
        /\ \A i \in DOMAIN chain : chain[i] \in Events

(* What a frame has of contexts is of its own and of the document it is at, *)
(* and the client has no others.                                           *)
Kept ==
    /\ \A c \in seen : c \in frames[c.frame].contexts
    /\ \A f \in Frames : \A c \in frames[f].contexts : c.frame = f /\ c.doc >= frames[f].loader

(* The tree is asked for once, before any world of the client's own.       *)
TreeFirst ==
    /\ \A i, j \in DOMAIN calls : i < j => calls[j] # TreeCall
    /\ \A i, j \in DOMAIN wire : wire[i] \in Responses /\ i < j => wire[j] \notin Trees
    /\ \A i \in DOMAIN wire : wire[i] \in Responses =>
           \A j \in DOMAIN calls : calls[j] # TreeCall
    /\ \A i \in DOMAIN chain : chain[i] \in Responses =>
           /\ \A j \in DOMAIN calls : calls[j] # TreeCall
           /\ \A j \in DOMAIN wire : wire[j] \notin Trees

(* m says that frame f is at document d; m brings context c.               *)
Says(m, f, d) ==
    \/ m \in Events /\ m.kind = "document" /\ m.frame = f /\ m.doc = d
    \/ m \in Trees /\ m.doc[f] = d /\ d \in Nat

Brings(m, c) == m \in Responses \cup Replies /\ m.ctx = c /\ c # None

(* What the proxy, its walk and the client have heard of frame f.          *)
Heard(f, d) ==
    \/ d = told[f] \/ d = frames[f].loader
    \/ \E i \in DOMAIN Tree : Tree[i] = f /\ <<i, d>> \in left

(* The browser's documents are the newest there are ...                    *)
Outdated(m) == \A f \in Frames, d \in Nat : doc[f] \in Nat /\ Says(m, f, d) => d <= doc[f]

Newest ==
    /\ \A f \in Frames : doc[f] \in Nat => doc[f] <= loads
    /\ \A f \in Frames, d \in Nat : doc[f] \in Nat /\ Heard(f, d) => d <= doc[f]
    /\ \A i \in DOMAIN wire : Outdated(wire[i])
    /\ \A i \in DOMAIN chain : Outdated(chain[i])

(* ... and a context on its way is as new as all that was said before it.  *)
Precedes(m, n) == \A c \in Context, d \in Nat : Says(m, c.frame, d) /\ Brings(n, c) => d <= c.doc
Follows(m)     == \A c \in Context, d \in Nat : Heard(c.frame, d) /\ Brings(m, c) => d <= c.doc

InTurn ==
    /\ \A i, j \in DOMAIN wire : i < j => Precedes(wire[i], wire[j])
    /\ \A i, j \in DOMAIN chain : i < j => Precedes(chain[i], chain[j])
    /\ \A i \in DOMAIN chain, j \in DOMAIN wire : Precedes(chain[i], wire[j])
    /\ \A j \in DOMAIN wire : Follows(wire[j])
    /\ \A j \in DOMAIN chain : Follows(chain[j])

IInv == TypeOK /\ Asleep /\ Kept /\ TreeFirst /\ Newest /\ InTurn /\ NoGhosts
-----------------------------------------------------------------------------
Messages == Events \cup Trees \cup Responses \cup Replies

LEMMA Added ==
    ASSUME NEW S, NEW s \in Seq(S), NEW e \in S
    PROVE  /\ Append(s, e) \in Seq(S)
           /\ Append(s, e)[Len(s) + 1] = e
           /\ \A i \in DOMAIN s : i \in Nat /\ i \in DOMAIN Append(s, e) /\ Append(s, e)[i] = s[i]
           /\ \A i \in DOMAIN Append(s, e) :
                  /\ i \in Nat
                  /\ (i \in DOMAIN s /\ i <= Len(s)) \/ i = Len(s) + 1
  <1>1. /\ Append(s, e) \in Seq(S) /\ Len(Append(s, e)) = Len(s) + 1
        /\ (\A i \in 1..Len(s) : Append(s, e)[i] = s[i]) /\ Append(s, e)[Len(s) + 1] = e
    BY AppendProperties
  <1>2. DOMAIN s = 1..Len(s) /\ Len(s) \in Nat
    OBVIOUS
  <1>3. DOMAIN Append(s, e) = 1..Len(s) + 1
    BY <1>1
  <1> QED BY <1>1, <1>2, <1>3

LEMMA Taken ==
    ASSUME NEW S, NEW s \in Seq(S), s # <<>>
    PROVE  /\ Tail(s) \in Seq(S) /\ Head(s) \in S
           /\ 1 \in DOMAIN s /\ s[1] = Head(s)
           /\ \A i \in DOMAIN Tail(s) : i \in Nat /\ i >= 1 /\ i + 1 \in DOMAIN s /\ Tail(s)[i] = s[i + 1]
  <1>1. Tail(s) \in Seq(S) /\ Head(s) \in S /\ Len(Tail(s)) = Len(s) - 1 /\ Len(s) \in Nat \ {0}
        /\ \A i \in 1..Len(Tail(s)) : Tail(s)[i] = s[i + 1]
    BY HeadTailProperties, EmptySeq
  <1>2. DOMAIN s = 1..Len(s) /\ DOMAIN Tail(s) = 1..Len(s) - 1
    BY <1>1
  <1> QED BY <1>1, <1>2

LEMMA Kinds ==
    /\ \A m \in Messages :
        /\ m.kind = "reply" <=> m \in Replies
        /\ m.kind = "tree" <=> m \in Trees
        /\ m.kind = "response" <=> m \in Responses
        /\ m.kind \in {"document", "removed"} <=> m \in Events
    /\ \A m \in Replies : m.to \in Provision /\ m.ctx \in Context \cup {None}
    /\ \A m \in Responses : m.ctx \in Context \cup {None}
    /\ \A m \in Trees : m.doc \in [Frames -> Documents]
    /\ \A m \in Events : m.frame \in Frames /\ m.doc \in Nat
  BY DEF Messages, Events, Trees, Responses, Replies

LEMMA TreeFacts ==
    Main \in Frames /\ \A i \in DOMAIN Tree : Tree[i] \in Frames
  <1> QED BY DEF Tree, Frames, Range

(* The call that Execute takes, and what it makes of it.                    *)
Answers(m) ==
    /\ m \in Trees => Head(calls) = TreeCall /\ m.doc = doc
    /\ m \in Responses => Head(calls) # TreeCall
    /\ \A c : Brings(m, c) => c \in Context /\ doc[c.frame] \in Nat /\ c.doc = doc[c.frame]

LEMMA Executes ==
    ASSUME TypeOK, Execute
    PROVE  /\ calls # <<>> /\ calls' = Tail(calls)
           /\ \E m \in Trees \cup Responses \cup Replies : wire' = Append(wire, m) /\ Answers(m)
           /\ faults' \in Nat /\ unnamed' \subseteq Context /\ unnamed \subseteq unnamed'
  <1> DEFINE c == Head(calls)
             Answered == \E m \in Trees \cup Responses \cup Replies : wire' = Append(wire, m) /\ Answers(m)
  <1>1. calls # <<>> /\ calls \in Seq(Calls) /\ c \in Calls
    BY Taken DEF Execute, TypeOK
  <1> HIDE DEF c
  <1>2. doc \in [Frames -> Documents]
    BY DEF TypeOK
  <1>3. \A f \in Frames, w \in Worlds \cup {"iso"} : Exists(f) =>
            Ctx(f, w) \in Context /\ doc[f] \in Nat /\ Ctx(f, w).frame = f /\ Ctx(f, w).doc = doc[f]
    BY <1>2 DEF Exists, Ctx, Context
  <1>4. ASSUME c = TreeCall PROVE Answered
    <2> DEFINE m == [kind |-> "tree", doc |-> doc]
    <2>1. c.world = "tree"
      BY <1>4 DEF TreeCall, Call
    <2>2. wire' = Append(wire, m)
      BY <2>1 DEF Execute, c
    <2>3. m \in Trees /\ m \notin Responses /\ m \notin Replies /\ m.doc = doc
      BY <1>2 DEF Trees, Responses, Replies
    <2> HIDE DEF m
    <2> QED BY <1>4, <2>2, <2>3 DEF Brings, c, Answers
  <1>5. ASSUME NEW f \in Frames, c = Call(f, "iso", None) PROVE Answered
    <2> DEFINE x == IF Exists(f) THEN Ctx(f, "iso") ELSE None
               m == [kind |-> "response", ctx |-> x]
    <2>1. c.world = "iso" /\ c.frame = f /\ c # TreeCall
      BY <1>5 DEF TreeCall, Call
    <2>2. wire' = Append(wire, m)
      BY <2>1 DEF Execute, c
    <2>3. x \in Context \cup {None} /\ (x # None => x \in Context /\ doc[x.frame] \in Nat /\ x.doc = doc[x.frame])
      BY <1>3
    <2> HIDE DEF x
    <2>4. m \in Responses /\ m \notin Trees /\ m.ctx = x
      BY <2>3 DEF Trees, Responses
    <2> HIDE DEF m
    <2> QED BY <2>1, <2>2, <2>3, <2>4 DEF Brings, c, Answers
  <1>6. ASSUME NEW p \in Provision, c = Call(p.frame, p.world, p) PROVE Answered
    <2> DEFINE x == IF Exists(p.frame) THEN Ctx(p.frame, p.world) ELSE None
               m == [kind |-> "reply", to |-> p, named |-> TRUE, ctx |-> x]
               y == Ctx(p.frame, "main")
               n == [kind |-> "reply", to |-> p, named |-> FALSE, ctx |-> y]
    <2>1. /\ c.world \in Worlds /\ c.world = p.world /\ c.frame = p.frame /\ c.to = p
          /\ p.frame \in Frames /\ c # TreeCall /\ c.world \notin {"tree", "iso"}
      BY <1>6 DEF TreeCall, Call, Provision, Worlds
    <2>2. wire' = Append(wire, m) \/ (Exists(p.frame) /\ wire' = Append(wire, n))
      BY <2>1 DEF Execute, c
    <2>3. x \in Context \cup {None} /\ (x # None => x \in Context /\ doc[x.frame] \in Nat /\ x.doc = doc[x.frame])
      BY <1>3, <2>1
    <2>4. Exists(p.frame) => y \in Context /\ doc[y.frame] \in Nat /\ y.doc = doc[y.frame]
      BY <1>3, <2>1 DEF Worlds
    <2> HIDE DEF x, y
    <2>5. m \in Replies /\ m \notin Trees /\ m \notin Responses /\ m.ctx = x
      BY <2>3 DEF Trees, Replies, Responses
    <2>6. Exists(p.frame) => n \in Replies /\ n \notin Trees /\ n \notin Responses /\ n.ctx = y
      BY <2>4 DEF Trees, Replies, Responses
    <2> HIDE DEF m, n
    <2>7. Answers(m) /\ (Exists(p.frame) => Answers(n))
      BY <2>1, <2>3, <2>4, <2>5, <2>6 DEF Brings, c, Answers
    <2> QED BY <2>2, <2>5, <2>6, <2>7
  <1>7. Answered
    BY <1>1, <1>4, <1>5, <1>6 DEF Calls
  <1>8. faults' \in Nat /\ unnamed' \subseteq Context /\ unnamed \subseteq unnamed'
    <2>1. UNCHANGED <<faults, unnamed>>
          \/ (c.frame # Main /\ c.world = "main" /\ Exists(c.frame) /\ faults' = faults + 1
              /\ unnamed' = unnamed \cup {Ctx(c.frame, "main")})
      BY DEF Execute, c
    <2>2. c.world = "main" => c.frame \in Frames
      BY <1>1 DEF Calls, TreeCall, Call, Provision
    <2> QED BY <1>3, <2>1, <2>2 DEF TypeOK, Worlds
  <1> QED BY <1>1, <1>7, <1>8 DEF Execute

(* What provide does to the frames, to the client and to the calls. fs and s *)
(* are what it starts from.                                                *)
KeptBy(fs, s) ==
    /\ \A c \in s : c \in fs[c.frame].contexts
    /\ \A f \in Frames : \A c \in fs[f].contexts : c.frame = f /\ c.doc >= fs[f].loader

NewCall == calls' = calls \/ \E e \in Calls : e # TreeCall /\ calls' = Append(calls, e)

LEMMA Provides ==
    ASSUME TypeOK, NEW f \in Frames, NEW d \in Nat, NEW w \in BOOLEAN,
           NEW fs \in [Frames -> FrameState], NEW s \in SUBSET Context,
           Provide(f, d, w, fs, s)
    PROVE  /\ frames' \in [Frames -> FrameState] /\ seen' \subseteq s
           /\ provides' \subseteq Provision /\ NewCall
           /\ frames'[f].loader = d
           /\ \A g \in Frames \ {f} : frames'[g].loader = fs[g].loader
           /\ KeptBy(fs, s) => KeptBy(frames', seen')
  <1>1. CASE fs[f].loader = d
    BY <1>1 DEF Provide, TypeOK, NewCall
  <1>2. CASE fs[f].loader # d
    <2> DEFINE p == [frame |-> f, doc |-> d, gen |-> fs[f].gen, walking |-> w, world |-> "main"]
               e == Call(f, "main", p)
    <2>0. fs[f] \in FrameState
      OBVIOUS
    <2>1. p \in Provision
      BY <2>0 DEF Provision, FrameState, Worlds
    <2>2. e \in Calls /\ e # TreeCall
      <3>1. p.frame = f /\ p.world = "main"
        OBVIOUS
      <3> HIDE DEF p
      <3>2. e = Call(p.frame, p.world, p)
        BY <3>1
      <3>3. e.world = "main" /\ TreeCall.world = "tree"
        BY DEF Call, TreeCall
      <3> HIDE DEF e
      <3> QED BY <2>1, <3>2, <3>3 DEF Calls
    <2>3. /\ frames' = [fs EXCEPT ![f].loader = d, ![f].contexts = {}]
          /\ seen' = s \ fs[f].contexts /\ provides' = provides \cup {p} /\ calls' = Append(calls, e)
      BY <1>2 DEF Provide
    <2> HIDE DEF p, e
    <2>4. /\ frames' \in [Frames -> FrameState]
          /\ frames'[f].loader = d /\ frames'[f].contexts = {}
          /\ \A g \in Frames \ {f} : frames'[g] = fs[g]
      BY <2>3, <2>0 DEF FrameState
    <2>5. KeptBy(fs, s) => KeptBy(frames', seen')
      <3> SUFFICES ASSUME KeptBy(fs, s) PROVE KeptBy(frames', seen')
        OBVIOUS
      <3>1. \A c \in seen' : c.frame \in Frames /\ c \in fs[c.frame].contexts /\ c.frame # f
        BY <2>3 DEF KeptBy, Context
      <3> QED BY <2>4, <3>1 DEF KeptBy
    <2> QED BY <2>1, <2>2, <2>3, <2>4, <2>5 DEF TypeOK, NewCall
  <1> QED BY <1>1, <1>2

(* What announce does to them.                                             *)
LEMMA Announces ==
    ASSUME TypeOK, NEW c \in Context, Announce(c), Kept,
           c.doc >= frames[c.frame].loader, c.doc >= told[c.frame], NoGhosts
    PROVE  /\ frames' \in [Frames -> FrameState] /\ seen' \subseteq Context
           /\ \A g \in Frames : frames'[g].loader = frames[g].loader
           /\ KeptBy(frames', seen')
           /\ \A e \in seen' : e.doc >= told[e.frame]
  <1>1. c.frame \in Frames /\ c.doc \in Nat
    BY DEF Context
  <1>2. frames \in [Frames -> FrameState] /\ seen \subseteq Context
    BY DEF TypeOK
  <1>3. /\ frames' \in [Frames -> FrameState]
        /\ \A g \in Frames : frames'[g].loader = frames[g].loader
        /\ \A g \in Frames \ {c.frame} : frames'[g].contexts = frames[g].contexts
        /\ frames'[c.frame].contexts = frames[c.frame].contexts \cup {c}
    <2>1. frames' = [frames EXCEPT ![c.frame].contexts = @ \cup {c}]
      BY DEF Announce
    <2>2. frames[c.frame] \in FrameState
      BY <1>1, <1>2
    <2> QED BY <1>1, <1>2, <2>1, <2>2 DEF FrameState
  <1>4. seen' \subseteq seen \cup {c}
    BY DEF Announce
  <1>5. \A e \in seen : e.frame \in Frames
    BY <1>2 DEF Context
  <1> QED BY <1>1, <1>2, <1>3, <1>4, <1>5 DEF Kept, KeptBy, NoGhosts

-----------------------------------------------------------------------------
LEMMA Silent ==
    ASSUME NEW m \in Messages, NEW n \in Messages
    PROVE  /\ m \in Responses \cup Replies => Precedes(m, n) /\ Outdated(m)
           /\ n \in Events \cup Trees => Precedes(m, n) /\ Follows(n)
           /\ m \in Events => m \notin Trees \cup Responses \cup Replies
           /\ m \in Trees => m \notin Responses \cup Replies
           /\ m \in Replies => m \notin Responses
  <1>1. /\ m \in Responses \cup Replies => m \notin Events \cup Trees
        /\ n \in Events \cup Trees => n \notin Responses \cup Replies
        /\ m \in Events => m \notin Trees \cup Responses \cup Replies
        /\ m \in Trees => m \notin Responses \cup Replies
        /\ m \in Replies => m \notin Responses
    BY Kinds
  <1> QED BY <1>1 DEF Precedes, Outdated, Follows, Says, Brings

LEMMA Typed ==
    ASSUME TypeOK
    PROVE  /\ wire \in Seq(Messages) /\ chain \in Seq(Messages)
           /\ \A i \in DOMAIN wire : wire[i] \in Messages
           /\ \A i \in DOMAIN chain : chain[i] \in Messages
  <1>1. wire \in Seq(Messages) /\ chain \in Seq(Messages)
    BY DEF TypeOK, Messages
  <1> QED BY <1>1

(* The browser says m, after all it has said before. *)
LEMMA Sent ==
    ASSUME TypeOK, Newest, InTurn, NEW m \in Messages, wire' = Append(wire, m),
           UNCHANGED <<told, frames, left, chain>>,
           \A g \in Frames : doc'[g] \in Nat =>
               doc[g] \in Nat /\ doc[g] <= doc'[g] /\ doc'[g] <= loads',
           Outdated(m)', Follows(m),
           \A i \in DOMAIN wire : Precedes(wire[i], m),
           \A i \in DOMAIN chain : Precedes(chain[i], m)
    PROVE  Newest' /\ InTurn'
  <1>1. /\ \A i \in DOMAIN wire : i \in Nat /\ i \in DOMAIN wire' /\ wire'[i] = wire[i]
        /\ \A i \in DOMAIN wire' : i \in Nat /\ ((i \in DOMAIN wire /\ i <= Len(wire)) \/ i = Len(wire) + 1)
        /\ wire'[Len(wire) + 1] = m /\ Len(wire) \in Nat
    BY Typed, Added
  <1>2. \A g \in Frames, d \in Nat : Heard(g, d)' <=> Heard(g, d)
    BY DEF Heard
  <1>3. Newest'
    <2>1. \A n \in Messages : Outdated(n) => Outdated(n)'
      BY DEF Outdated
    <2>2. \A i \in DOMAIN wire' : Outdated(wire[i])'
      <3> SUFFICES ASSUME NEW i \in DOMAIN wire' PROVE Outdated(wire[i])'
        OBVIOUS
      <3>1. PICK n : n = wire'[i]
        OBVIOUS
      <3>2. Outdated(n)'
        BY <1>1, <2>1, <3>1, Typed DEF Newest
      <3> QED BY <3>1, <3>2
    <2>3. \A i \in DOMAIN chain' : Outdated(chain[i])'
      <3> SUFFICES ASSUME NEW i \in DOMAIN chain' PROVE Outdated(chain[i])'
        OBVIOUS
      <3>1. PICK n : n = chain'[i]
        OBVIOUS
      <3>2. Outdated(n)'
        BY <2>1, <3>1, Typed DEF Newest
      <3> QED BY <3>1, <3>2
    <2>4. \A g \in Frames, d \in Nat : doc'[g] \in Nat /\ Heard(g, d)' => d <= doc'[g]
      BY <1>2 DEF Newest
    <2> QED BY <2>2, <2>3, <2>4 DEF Newest
  <1>4. InTurn'
    <2>1. \A n \in Messages : Follows(n) => Follows(n)'
      BY DEF Follows, Heard
    <2>2. \A i \in DOMAIN wire' : Follows(wire[i])'
      <3> SUFFICES ASSUME NEW i \in DOMAIN wire' PROVE Follows(wire[i])'
        OBVIOUS
      <3>1. PICK n : n = wire'[i]
        OBVIOUS
      <3>2. Follows(n)'
        BY <1>1, <2>1, <3>1, Typed DEF InTurn
      <3> QED BY <3>1, <3>2
    <2>3. \A i \in DOMAIN chain' : Follows(chain[i])'
      <3> SUFFICES ASSUME NEW i \in DOMAIN chain' PROVE Follows(chain[i])'
        OBVIOUS
      <3>1. PICK n : n = chain'[i]
        OBVIOUS
      <3>2. Follows(n)'
        BY <2>1, <3>1, Typed DEF InTurn
      <3> QED BY <3>1, <3>2
    <2>4. \A i, j \in DOMAIN wire' : i < j => Precedes(wire'[i], wire'[j])
      BY <1>1 DEF InTurn
    <2>5. \A i \in DOMAIN chain', j \in DOMAIN wire' : Precedes(chain'[i], wire'[j])
      BY <1>1 DEF InTurn
    <2>6. \A i, j \in DOMAIN chain' : i < j => Precedes(chain'[i], chain'[j])
      BY DEF InTurn
    <2> QED BY <2>2, <2>3, <2>4, <2>5, <2>6 DEF InTurn
  <1> QED BY <1>3, <1>4

(* An event of the browser, whatever it makes of the documents. *)
LEMMA EventSent ==
    ASSUME IInv, NEW m \in Events, wire' = Append(wire, m),
           UNCHANGED <<iso, calls, chain, ready, frames, provides, walk, left, seen, told, lost, faults, unnamed>>,
           doc' \in [Frames -> Documents], loads' \in Nat,
           \A g \in Frames : doc'[g] \in Nat =>
               doc[g] \in Nat /\ doc[g] <= doc'[g] /\ doc'[g] <= loads',
           Outdated(m)'
    PROVE  IInv'
  <1>0. TypeOK /\ Asleep /\ Kept /\ TreeFirst /\ Newest /\ InTurn /\ NoGhosts
    BY DEF IInv
  <1>1. m \in Messages /\ m \notin Trees \cup Responses \cup Replies
    BY Silent DEF Messages
  <1>2. /\ \A i \in DOMAIN wire : i \in Nat /\ i \in DOMAIN wire' /\ wire'[i] = wire[i]
        /\ \A i \in DOMAIN wire' : i \in Nat /\ ((i \in DOMAIN wire /\ i <= Len(wire)) \/ i = Len(wire) + 1)
        /\ wire' \in Seq(Messages) /\ wire'[Len(wire) + 1] = m /\ Len(wire) \in Nat
    BY <1>0, <1>1, Typed, Added
  <1>3. TypeOK'
    BY <1>0, <1>2 DEF TypeOK, Messages
  <1>4. Asleep'
    BY <1>0, <1>2 DEF Asleep
  <1>5. TreeFirst'
    BY <1>0, <1>1, <1>2 DEF TreeFirst
  <1>6. Kept' /\ NoGhosts'
    BY <1>0 DEF Kept, NoGhosts
  <1>7. \A n \in Messages : Precedes(n, m) /\ Follows(m)
    BY <1>1, Silent
  <1>8. Newest' /\ InTurn'
    <2>1. \A i \in DOMAIN wire : Precedes(wire[i], m)
      BY <1>0, <1>7, Typed
    <2>2. \A i \in DOMAIN chain : Precedes(chain[i], m)
      BY <1>0, <1>7, Typed
    <2> QED BY <1>0, <1>1, <1>7, <2>1, <2>2, Sent
  <1> QED BY <1>3, <1>4, <1>5, <1>6, <1>8 DEF IInv

LEMMA CommitStep ==
    ASSUME IInv, NEW f \in Frames, Commit(f)
    PROVE  IInv'
  <1>1. TypeOK /\ Newest
    BY DEF IInv
  <1>2. PICK m : m = [kind |-> "document", frame |-> f, doc |-> loads + 1]
    OBVIOUS
  <1>3. /\ doc \in [Frames -> Documents] /\ loads \in Nat /\ doc[f] # None
        /\ loads' = loads + 1 /\ wire' = Append(wire, m)
        /\ UNCHANGED <<iso, calls, chain, ready, frames, provides, walk, left, seen, told, lost, faults, unnamed>>
        /\ doc' = [g \in Frames |-> IF g = f THEN loads + 1
                                    ELSE IF f = Main /\ Exists(g) THEN None ELSE doc[g]]
    BY <1>1, <1>2 DEF Commit, TypeOK, plugin, client, fault
  <1>4. m \in Events /\ m \notin Trees
    BY <1>2, <1>3, Silent DEF Events, Messages
  <1>5. doc' \in [Frames -> Documents]
    BY <1>3 DEF Documents
  <1>6. \A g \in Frames : doc'[g] \in Nat => doc[g] \in Nat /\ doc[g] <= loads
                          /\ doc'[g] = (IF g = f THEN loads + 1 ELSE doc[g])
    BY <1>1, <1>3, ContextsAssumption DEF Newest, Documents
  <1>7. \A g \in Frames, d \in Nat : Says(m, g, d) => g = f /\ d = loads'
    BY <1>2, <1>3, <1>4 DEF Says
  <1>8. Outdated(m)'
    BY <1>3, <1>6, <1>7 DEF Outdated
  <1> QED BY <1>3, <1>4, <1>5, <1>6, <1>8, EventSent

LEMMA RemoveStep ==
    ASSUME IInv, NEW f \in Frames, RemoveFrame(f)
    PROVE  IInv'
  <1>1. TypeOK /\ Newest
    BY DEF IInv
  <1>2. PICK m : m = [kind |-> "removed", frame |-> f, doc |-> 0]
    OBVIOUS
  <1>3. /\ doc \in [Frames -> Documents] /\ loads' = loads /\ loads \in Nat
        /\ wire' = Append(wire, m) /\ doc' = [doc EXCEPT ![f] = None]
        /\ UNCHANGED <<iso, calls, chain, ready, frames, provides, walk, left, seen, told, lost, faults, unnamed>>
    BY <1>1, <1>2 DEF RemoveFrame, TypeOK, plugin, client, fault
  <1>4. m \in Events /\ m \notin Trees
    BY <1>2, Silent DEF Events, Messages
  <1>5. doc' \in [Frames -> Documents]
    BY <1>3 DEF Documents
  <1>6. \A g \in Frames : doc'[g] \in Nat => doc[g] \in Nat /\ doc[g] <= loads /\ doc'[g] = doc[g]
    BY <1>1, <1>3, ContextsAssumption DEF Newest
  <1>7. \A g \in Frames, d \in Nat : ~Says(m, g, d)
    BY <1>2, <1>4 DEF Says
  <1>8. Outdated(m)'
    BY <1>7 DEF Outdated
  <1> QED BY <1>3, <1>4, <1>5, <1>6, <1>8, EventSent

LEMMA ExecuteStep ==
    ASSUME IInv, Execute
    PROVE  IInv'
  <1>0. TypeOK /\ Asleep /\ Kept /\ TreeFirst /\ Newest /\ InTurn /\ NoGhosts
    BY DEF IInv
  <1>1. /\ calls # <<>> /\ calls' = Tail(calls)
        /\ \E m \in Trees \cup Responses \cup Replies : wire' = Append(wire, m) /\ Answers(m)
    BY <1>0, Executes
  <1>2. PICK m \in Trees \cup Responses \cup Replies : wire' = Append(wire, m) /\ Answers(m)
    BY <1>1
  <1>3. m \in Messages
    BY DEF Messages
  <1>4. UNCHANGED <<doc, loads, iso, chain, ready, frames, provides, walk, left, seen, told, lost>>
    BY DEF Execute, browser, plugin, client
  <1>5. /\ \A i \in DOMAIN wire : i \in Nat /\ i \in DOMAIN wire' /\ wire'[i] = wire[i]
        /\ \A i \in DOMAIN wire' : i \in Nat /\ ((i \in DOMAIN wire /\ i <= Len(wire)) \/ i = Len(wire) + 1)
        /\ wire' \in Seq(Messages) /\ wire'[Len(wire) + 1] = m /\ Len(wire) \in Nat
    BY <1>0, <1>2, <1>3, Typed, Added
  <1>6. /\ calls' \in Seq(Calls) /\ 1 \in DOMAIN calls /\ calls[1] = Head(calls)
        /\ \A i \in DOMAIN calls' : i \in Nat /\ i >= 1 /\ i + 1 \in DOMAIN calls /\ calls'[i] = calls[i + 1]
    <2>1. calls \in Seq(Calls)
      BY <1>0 DEF TypeOK
    <2> QED BY <1>1, <2>1, Taken
  <1>7. TypeOK'
    <2>1. faults' \in Nat /\ unnamed' \subseteq Context
      BY <1>0, Executes
    <2> QED BY <1>0, <1>4, <1>5, <1>6, <2>1 DEF TypeOK, Messages
  <1>8. Asleep' /\ Kept' /\ NoGhosts'
    BY <1>0, <1>1, <1>4 DEF Asleep, Kept, NoGhosts
  <1>9. TreeFirst'
    <2>1. \A i \in DOMAIN calls' : calls'[i] # TreeCall
      <3> SUFFICES ASSUME NEW i \in DOMAIN calls' PROVE calls'[i] # TreeCall
        OBVIOUS
      <3>1. 1 < i + 1
        BY <1>6
      <3> QED BY <1>0, <1>6, <3>1 DEF TreeFirst
    <2>2. CASE m \in Trees
      <3>1. calls[1] = TreeCall
        BY <1>2, <1>6, <2>2 DEF Answers
      <3>2. (\A i \in DOMAIN wire : wire[i] \notin Responses) /\ (\A i \in DOMAIN chain : chain[i] \notin Responses)
        BY <1>0, <1>6, <3>1 DEF TreeFirst
      <3>3. m \notin Responses
        BY <2>2, <1>3, Silent
      <3>4. \A i \in DOMAIN wire' : wire'[i] \notin Responses
        BY <1>5, <3>2, <3>3
      <3> QED BY <1>4, <2>1, <3>2, <3>4 DEF TreeFirst
    <2>3. CASE m \notin Trees
      <3>1. \A i, j \in DOMAIN wire' : wire'[i] \in Responses /\ i < j => wire'[j] \notin Trees
        BY <1>0, <1>5, <2>3 DEF TreeFirst
      <3>2. \A i \in DOMAIN chain' : chain'[i] \in Responses => \A j \in DOMAIN wire' : wire'[j] \notin Trees
        BY <1>0, <1>4, <1>5, <2>3 DEF TreeFirst
      <3> QED BY <2>1, <3>1, <3>2 DEF TreeFirst
    <2> QED BY <2>2, <2>3
  <1>10. Newest' /\ InTurn'
    <2>1. Outdated(m)'
      <3>1. CASE m \in Trees
        <4>1. m \notin Events /\ m.doc = doc
          BY <1>2, <1>3, <3>1, Silent DEF Answers
        <4> QED BY <1>4, <4>1 DEF Outdated, Says
      <3>2. CASE m \notin Trees
        <4>1. \A f, d : ~Says(m, f, d)
          BY <1>3, <3>2, Silent DEF Says
        <4> QED BY <4>1 DEF Outdated
      <3> QED BY <3>1, <3>2
    <2>2. \A c \in Context : Brings(m, c) => c.frame \in Frames /\ doc[c.frame] \in Nat /\ c.doc = doc[c.frame]
      BY <1>2 DEF Answers, Context
    <2>3. Follows(m)
      BY <1>0, <2>2 DEF Follows, Newest
    <2>4. \A n : Outdated(n) => Precedes(n, m)
      BY <2>2 DEF Outdated, Precedes
    <2>5. \A i \in DOMAIN wire : Precedes(wire[i], m)
      BY <1>0, <2>4 DEF Newest
    <2>6. \A i \in DOMAIN chain : Precedes(chain[i], m)
      BY <1>0, <2>4 DEF Newest
    <2>7. \A g \in Frames : doc'[g] \in Nat => doc[g] \in Nat /\ doc[g] <= doc'[g] /\ doc'[g] <= loads'
      BY <1>0, <1>4 DEF Newest
    <2> QED BY <1>0, <1>2, <1>3, <1>4, <2>1, <2>3, <2>5, <2>6, <2>7, Sent
  <1> QED BY <1>7, <1>8, <1>9, <1>10 DEF IInv

LEMMA Called ==
    ASSUME TypeOK, NewCall
    PROVE  /\ calls' \in Seq(Calls)
           /\ (\A i, j \in DOMAIN calls : i < j => calls[j] # TreeCall)
              => (\A i, j \in DOMAIN calls' : i < j => calls'[j] # TreeCall)
           /\ (\A i \in DOMAIN calls : calls[i] # TreeCall) => (\A i \in DOMAIN calls' : calls'[i] # TreeCall)
  <1>1. calls \in Seq(Calls)
    BY DEF TypeOK
  <1>2. CASE calls' = calls
    BY <1>1, <1>2
  <1>3. ASSUME NEW e \in Calls, e # TreeCall, calls' = Append(calls, e)
        PROVE  /\ calls' \in Seq(Calls)
               /\ (\A i, j \in DOMAIN calls : i < j => calls[j] # TreeCall)
                  => (\A i, j \in DOMAIN calls' : i < j => calls'[j] # TreeCall)
               /\ (\A i \in DOMAIN calls : calls[i] # TreeCall) => (\A i \in DOMAIN calls' : calls'[i] # TreeCall)
    <2>1. /\ \A i \in DOMAIN calls : i \in Nat /\ calls'[i] = calls[i]
          /\ \A i \in DOMAIN calls' : i \in Nat /\ ((i \in DOMAIN calls /\ i <= Len(calls)) \/ i = Len(calls) + 1)
          /\ calls' \in Seq(Calls) /\ calls'[Len(calls) + 1] = e /\ Len(calls) \in Nat
      BY <1>1, <1>3, Added
    <2> QED BY <1>3, <2>1
  <1> QED BY <1>2, <1>3 DEF NewCall

(* The proxy takes m from the wire. *)
LEMMA Received ==
    ASSUME TypeOK, Newest, InTurn, wire # <<>>, wire' = Tail(wire), chain' = chain,
           UNCHANGED <<doc, loads>>,
           \A g \in Frames, d \in Nat : Heard(g, d)' =>
               \/ Heard(g, d)
               \/ Says(Head(wire), g, d) /\ \A j \in DOMAIN chain : chain[j] \notin Responses
    PROVE  Newest' /\ InTurn'
  <1>1. /\ 1 \in DOMAIN wire /\ Head(wire) = wire[1]
        /\ \A i \in DOMAIN wire' : i \in Nat /\ 1 < i + 1 /\ i + 1 \in DOMAIN wire /\ wire'[i] = wire[i + 1]
    BY Typed, Taken
  <1>2. PICK m : m = wire[1]
    OBVIOUS
  <1>3. \A g \in Frames, d \in Nat : Heard(g, d)' =>
            Heard(g, d) \/ (Says(m, g, d) /\ \A j \in DOMAIN chain : chain[j] \notin Responses)
    BY <1>1, <1>2
  <1>4. Newest'
    <2>1. \A n : Outdated(n) => Outdated(n)'
      BY DEF Outdated
    <2>2. \A i \in DOMAIN wire' : Outdated(wire[i])'
      <3> SUFFICES ASSUME NEW i \in DOMAIN wire' PROVE Outdated(wire[i])'
        OBVIOUS
      <3>1. PICK n : n = wire'[i]
        OBVIOUS
      <3>2. Outdated(n)'
        BY <1>1, <2>1, <3>1 DEF Newest
      <3> QED BY <3>1, <3>2
    <2>3. \A i \in DOMAIN chain' : Outdated(chain[i])'
      <3> SUFFICES ASSUME NEW i \in DOMAIN chain' PROVE Outdated(chain[i])'
        OBVIOUS
      <3>1. PICK n : n = chain'[i]
        OBVIOUS
      <3>2. Outdated(n)'
        BY <2>1, <3>1 DEF Newest
      <3> QED BY <3>1, <3>2
    <2>4. \A g \in Frames, d \in Nat : doc'[g] \in Nat /\ Heard(g, d)' => d <= doc'[g]
      BY <1>1, <1>2, <1>3 DEF Newest, Outdated
    <2> QED BY <2>2, <2>3, <2>4 DEF Newest
  <1>5. InTurn'
    <2>1. \A n : Follows(n) /\ Precedes(m, n) => Follows(n)'
      <3>1. \A c \in Context : c.frame \in Frames
        BY DEF Context
      <3> QED BY <1>3, <3>1 DEF Follows, Precedes
    <2>2. \A i \in DOMAIN wire' : Follows(wire[i])'
      <3> SUFFICES ASSUME NEW i \in DOMAIN wire' PROVE Follows(wire[i])'
        OBVIOUS
      <3>1. PICK n : n = wire'[i]
        OBVIOUS
      <3>2. Follows(n)'
        BY <1>1, <1>2, <2>1, <3>1 DEF InTurn
      <3> QED BY <3>1, <3>2
    <2>3. \A i \in DOMAIN chain' : Follows(chain[i])'
      <3> SUFFICES ASSUME NEW i \in DOMAIN chain' PROVE Follows(chain[i])'
        OBVIOUS
      <3>1. PICK n : n = chain'[i]
        OBVIOUS
      <3>2. n = chain[i] /\ n \in Messages /\ Follows(n)
        BY <3>1, Typed DEF InTurn
      <3>3. CASE \A j \in DOMAIN chain : chain[j] \notin Responses
        <4>1. n \in Events
          <5>1. chain \in Seq(Events \cup Responses)
            BY DEF TypeOK
          <5> QED BY <3>2, <3>3, <5>1
        <4>2. \A c \in Context : ~Brings(n, c)
          BY <3>2, <4>1, Silent DEF Brings
        <4> QED BY <3>1, <4>2 DEF Follows
      <3>4. CASE ~ \A j \in DOMAIN chain : chain[j] \notin Responses
        <4>1. \A g \in Frames, d \in Nat : Heard(g, d)' => Heard(g, d)
          BY <1>3, <3>4
        <4>2. \A c \in Context : c.frame \in Frames
          BY DEF Context
        <4>3. Follows(n)'
          BY <3>2, <4>1, <4>2 DEF Follows
        <4> QED BY <3>1, <4>3
      <3> QED BY <3>3, <3>4
    <2>4. \A i, j \in DOMAIN wire' : i < j => Precedes(wire'[i], wire'[j])
      <3> SUFFICES ASSUME NEW i \in DOMAIN wire', NEW j \in DOMAIN wire', i < j
                   PROVE  Precedes(wire'[i], wire'[j])
        OBVIOUS
      <3>1. i + 1 \in DOMAIN wire /\ j + 1 \in DOMAIN wire /\ i + 1 < j + 1
        BY <1>1
      <3> QED BY <1>1, <3>1 DEF InTurn
    <2>5. \A i \in DOMAIN chain', j \in DOMAIN wire' : Precedes(chain'[i], wire'[j])
      BY <1>1 DEF InTurn
    <2>6. \A i, j \in DOMAIN chain' : i < j => Precedes(chain'[i], chain'[j])
      BY DEF InTurn
    <2> QED BY <2>2, <2>3, <2>4, <2>5, <2>6 DEF InTurn
  <1> QED BY <1>4, <1>5

(* What was outdated or came after all that was said before still is and   *)
(* does, when the proxy has heard nothing new.                             *)
LEMMA Unmoved ==
    ASSUME UNCHANGED <<doc, loads>>, Newest,
           \A g \in Frames, d \in Nat : Heard(g, d)' => Heard(g, d) \/ d = 0,
           \A i \in DOMAIN wire' : Outdated(wire'[i]) /\ Follows(wire'[i]),
           \A i \in DOMAIN chain' : Outdated(chain'[i]) /\ Follows(chain'[i])
    PROVE  /\ Newest'
           /\ \A i \in DOMAIN wire' : Follows(wire[i])'
           /\ \A i \in DOMAIN chain' : Follows(chain[i])'
  <1>1. \A n : Outdated(n) => Outdated(n)'
    BY DEF Outdated
  <1>2. \A n : Follows(n) => Follows(n)'
    <2>1. \A c \in Context : c.frame \in Frames /\ c.doc \in Nat
      BY DEF Context
    <2> QED BY <2>1 DEF Follows
  <1>3. \A i \in DOMAIN wire' : Outdated(wire[i])' /\ Follows(wire[i])'
    <2> SUFFICES ASSUME NEW i \in DOMAIN wire' PROVE Outdated(wire[i])' /\ Follows(wire[i])'
      OBVIOUS
    <2>1. PICK n : n = wire'[i]
      OBVIOUS
    <2>2. Outdated(n)' /\ Follows(n)'
      BY <1>1, <1>2, <2>1
    <2> QED BY <2>1, <2>2
  <1>4. \A i \in DOMAIN chain' : Outdated(chain[i])' /\ Follows(chain[i])'
    <2> SUFFICES ASSUME NEW i \in DOMAIN chain' PROVE Outdated(chain[i])' /\ Follows(chain[i])'
      OBVIOUS
    <2>1. PICK n : n = chain'[i]
      OBVIOUS
    <2>2. Outdated(n)' /\ Follows(n)'
      BY <1>1, <1>2, <2>1
    <2> QED BY <2>1, <2>2
  <1>5. \A g \in Frames, d \in Nat : doc'[g] \in Nat /\ Heard(g, d)' => d <= doc'[g]
    BY DEF Newest
  <1> QED BY <1>3, <1>4, <1>5 DEF Newest

(* The proxy puts what it takes at the end of the chain. *)
LEMMA Queued ==
    ASSUME TypeOK, Newest, InTurn, wire # <<>>, wire' = Tail(wire),
           chain' = Append(chain, Head(wire)), UNCHANGED <<doc, loads, told, frames, left>>
    PROVE  Newest' /\ InTurn'
  <1>1. /\ 1 \in DOMAIN wire /\ Head(wire) = wire[1] /\ Head(wire) \in Messages
        /\ \A i \in DOMAIN wire' : i \in Nat /\ 1 < i + 1 /\ i + 1 \in DOMAIN wire /\ wire'[i] = wire[i + 1]
    BY Typed, Taken
  <1>2. /\ \A i \in DOMAIN chain : i \in Nat /\ chain'[i] = chain[i]
        /\ \A i \in DOMAIN chain' : i \in Nat /\ ((i \in DOMAIN chain /\ i <= Len(chain)) \/ i = Len(chain) + 1)
        /\ chain'[Len(chain) + 1] = wire[1] /\ Len(chain) \in Nat
    BY <1>1, Typed, Added
  <1>3. \A g \in Frames, d \in Nat : Heard(g, d)' => Heard(g, d) \/ d = 0
    BY DEF Heard
  <1>4. \A i \in DOMAIN wire' : Outdated(wire'[i]) /\ Follows(wire'[i])
    BY <1>1 DEF Newest, InTurn
  <1>5. \A i \in DOMAIN chain' : Outdated(chain'[i]) /\ Follows(chain'[i])
    BY <1>1, <1>2 DEF Newest, InTurn
  <1>6. Newest' /\ (\A i \in DOMAIN wire' : Follows(wire[i])') /\ (\A i \in DOMAIN chain' : Follows(chain[i])')
    BY <1>3, <1>4, <1>5, Unmoved
  <1>7. \A i, j \in DOMAIN wire' : i < j => Precedes(wire'[i], wire'[j])
    <2> SUFFICES ASSUME NEW i \in DOMAIN wire', NEW j \in DOMAIN wire', i < j
                 PROVE  Precedes(wire'[i], wire'[j])
      OBVIOUS
    <2>1. i + 1 \in DOMAIN wire /\ j + 1 \in DOMAIN wire /\ i + 1 < j + 1
      BY <1>1
    <2> QED BY <1>1, <2>1 DEF InTurn
  <1>8. \A i \in DOMAIN chain', j \in DOMAIN wire' : Precedes(chain'[i], wire'[j])
    BY <1>1, <1>2 DEF InTurn
  <1>9. \A i, j \in DOMAIN chain' : i < j => Precedes(chain'[i], chain'[j])
    BY <1>1, <1>2 DEF InTurn
  <1> QED BY <1>6, <1>7, <1>8, <1>9 DEF InTurn

(* The first of the chain is handled, and heard. *)
LEMMA Handled ==
    ASSUME TypeOK, Newest, InTurn, chain # <<>>, chain' = Tail(chain), wire' = wire,
           UNCHANGED <<doc, loads>>,
           \A g \in Frames, d \in Nat : Heard(g, d)' => Heard(g, d) \/ d = 0 \/ Says(Head(chain), g, d)
    PROVE  Newest' /\ InTurn'
  <1>1. /\ 1 \in DOMAIN chain /\ Head(chain) = chain[1]
        /\ \A i \in DOMAIN chain' : i \in Nat /\ 1 < i + 1 /\ i + 1 \in DOMAIN chain /\ chain'[i] = chain[i + 1]
    BY Typed, Taken
  <1>2. PICK m : m = chain[1]
    OBVIOUS
  <1>3. \A g \in Frames, d \in Nat : Heard(g, d)' => Heard(g, d) \/ d = 0 \/ Says(m, g, d)
    BY <1>1, <1>2
  <1>4. Newest'
    <2>1. \A n : Outdated(n) => Outdated(n)'
      BY DEF Outdated
    <2>2. \A i \in DOMAIN wire' : Outdated(wire[i])'
      <3> SUFFICES ASSUME NEW i \in DOMAIN wire' PROVE Outdated(wire[i])'
        OBVIOUS
      <3>1. PICK n : n = wire'[i]
        OBVIOUS
      <3>2. Outdated(n)'
        BY <2>1, <3>1 DEF Newest
      <3> QED BY <3>1, <3>2
    <2>3. \A i \in DOMAIN chain' : Outdated(chain[i])'
      <3> SUFFICES ASSUME NEW i \in DOMAIN chain' PROVE Outdated(chain[i])'
        OBVIOUS
      <3>1. PICK n : n = chain'[i]
        OBVIOUS
      <3>2. Outdated(n)'
        BY <1>1, <2>1, <3>1 DEF Newest
      <3> QED BY <3>1, <3>2
    <2>4. \A g \in Frames, d \in Nat : doc'[g] \in Nat /\ Heard(g, d)' => d <= doc'[g]
      BY <1>1, <1>2, <1>3 DEF Newest, Outdated
    <2> QED BY <2>2, <2>3, <2>4 DEF Newest
  <1>5. InTurn'
    <2>1. \A n : Follows(n) /\ Precedes(m, n) => Follows(n)'
      <3>1. \A c \in Context : c.frame \in Frames /\ c.doc \in Nat
        BY DEF Context
      <3> QED BY <1>3, <3>1 DEF Follows, Precedes
    <2>2. \A i \in DOMAIN wire' : Follows(wire[i])'
      <3> SUFFICES ASSUME NEW i \in DOMAIN wire' PROVE Follows(wire[i])'
        OBVIOUS
      <3>1. PICK n : n = wire'[i]
        OBVIOUS
      <3>2. Follows(n)'
        BY <1>1, <1>2, <2>1, <3>1 DEF InTurn
      <3> QED BY <3>1, <3>2
    <2>3. \A i \in DOMAIN chain' : Follows(chain[i])'
      <3> SUFFICES ASSUME NEW i \in DOMAIN chain' PROVE Follows(chain[i])'
        OBVIOUS
      <3>1. PICK n : n = chain'[i]
        OBVIOUS
      <3>2. Follows(n)'
        BY <1>1, <1>2, <2>1, <3>1 DEF InTurn
      <3> QED BY <3>1, <3>2
    <2>4. \A i, j \in DOMAIN chain' : i < j => Precedes(chain'[i], chain'[j])
      <3> SUFFICES ASSUME NEW i \in DOMAIN chain', NEW j \in DOMAIN chain', i < j
                   PROVE  Precedes(chain'[i], chain'[j])
        OBVIOUS
      <3>1. i + 1 \in DOMAIN chain /\ j + 1 \in DOMAIN chain /\ i + 1 < j + 1
        BY <1>1
      <3> QED BY <1>1, <3>1 DEF InTurn
    <2>5. \A i \in DOMAIN chain', j \in DOMAIN wire' : Precedes(chain'[i], wire'[j])
      BY <1>1 DEF InTurn
    <2>6. \A i, j \in DOMAIN wire' : i < j => Precedes(wire'[i], wire'[j])
      BY DEF InTurn
    <2> QED BY <2>2, <2>3, <2>4, <2>5, <2>6 DEF InTurn
  <1> QED BY <1>4, <1>5

(* Nothing is taken and nothing said. *)
LEMMA Waiting ==
    ASSUME TypeOK, Newest, InTurn, UNCHANGED <<wire, chain, doc, loads>>,
           \A g \in Frames, d \in Nat : Heard(g, d)' => Heard(g, d) \/ d = 0
    PROVE  Newest' /\ InTurn'
  <1>1. \A i \in DOMAIN wire' : Outdated(wire'[i]) /\ Follows(wire'[i])
    BY DEF Newest, InTurn
  <1>2. \A i \in DOMAIN chain' : Outdated(chain'[i]) /\ Follows(chain'[i])
    BY DEF Newest, InTurn
  <1>3. Newest' /\ (\A i \in DOMAIN wire' : Follows(wire[i])') /\ (\A i \in DOMAIN chain' : Follows(chain[i])')
    BY <1>1, <1>2, Unmoved
  <1>4. /\ \A i, j \in DOMAIN wire' : i < j => Precedes(wire'[i], wire'[j])
        /\ \A i \in DOMAIN chain', j \in DOMAIN wire' : Precedes(chain'[i], wire'[j])
        /\ \A i, j \in DOMAIN chain' : i < j => Precedes(chain'[i], chain'[j])
    BY DEF InTurn
  <1> QED BY <1>3, <1>4 DEF InTurn

LEMMA Settles ==
    ASSUME TypeOK, Kept, NoGhosts, NEW p \in provides, NEW c \in Context \cup {None}, NEW n, Settle(p, c, n),
           c # None => c.doc >= frames[c.frame].loader /\ c.doc >= told[c.frame]
    PROVE  /\ frames' \in [Frames -> FrameState] /\ seen' \subseteq Context
           /\ \A g \in Frames : frames'[g].loader = frames[g].loader
           /\ KeptBy(frames', seen')
           /\ \A e \in seen' : e.doc >= told[e.frame]
           /\ provides' \subseteq Provision /\ NewCall
           /\ walk' \in {"no", "tree", "on", "over", "broken"} /\ lost' \in BOOLEAN
  <1>1. /\ p \in Provision /\ provides \subseteq Provision /\ calls \in Seq(Calls)
        /\ frames \in [Frames -> FrameState] /\ seen \subseteq Context
        /\ walk \in {"no", "tree", "on", "over", "broken"} /\ lost \in BOOLEAN
    BY DEF TypeOK
  <1>2. walk' \in {"no", "tree", "on", "over", "broken"} /\ lost' \in BOOLEAN
    BY <1>1 DEF Settle
  <1>3. CASE c # None /\ Current(p)
    <2>1. c \in Context /\ (Announce(c) \/ UNCHANGED <<frames, seen>>)
      BY <1>3 DEF Settle
    <2>2. /\ frames' \in [Frames -> FrameState] /\ seen' \subseteq Context
          /\ \A g \in Frames : frames'[g].loader = frames[g].loader
          /\ KeptBy(frames', seen')
          /\ \A e \in seen' : e.doc >= told[e.frame]
      <3>1. CASE Announce(c)
        BY <1>3, <2>1, <3>1, Announces
      <3>2. CASE UNCHANGED <<frames, seen>>
        BY <1>1, <3>2 DEF Kept, KeptBy, NoGhosts
      <3> QED BY <2>1, <3>1, <3>2
    <2>3. PICK q : q = [p EXCEPT !.world = "util"]
      OBVIOUS
    <2>4. q \in Provision /\ q.frame = p.frame /\ q.world = "util"
      BY <1>1, <2>3 DEF Provision, Worlds
    <2>5. Call(p.frame, "util", q) \in Calls /\ Call(p.frame, "util", q) # TreeCall
      <3>1. Call(p.frame, "util", q) = Call(q.frame, q.world, q)
        BY <2>4
      <3>2. Call(p.frame, "util", q).world = "util" /\ TreeCall.world = "tree"
        BY DEF Call, TreeCall
      <3> QED BY <2>4, <3>1, <3>2 DEF Calls
    <2>6. provides' \subseteq Provision /\ NewCall
      <3>1. CASE p.world = "main"
        <4>1. provides' = (provides \ {p}) \cup {q} /\ calls' = Append(calls, Call(p.frame, "util", q))
          BY <1>3, <2>3, <3>1 DEF Settle
        <4> QED BY <1>1, <2>4, <2>5, <4>1 DEF NewCall
      <3>2. CASE p.world # "main"
        BY <1>1, <1>3, <3>2 DEF Settle, NewCall
      <3> QED BY <3>1, <3>2
    <2> QED BY <1>2, <2>2, <2>6
  <1>4. CASE ~ (c # None /\ Current(p))
    <2>1. provides' = provides \ {p} /\ UNCHANGED <<frames, seen, calls>>
      BY <1>4 DEF Settle
    <2> QED BY <1>1, <1>2, <2>1 DEF NewCall, Kept, KeptBy, NoGhosts
  <1> QED BY <1>3, <1>4

LEMMA TakeStep ==
    ASSUME IInv, Take
    PROVE  IInv'
  <1>0. TypeOK /\ Asleep /\ Kept /\ TreeFirst /\ Newest /\ InTurn /\ NoGhosts
    BY DEF IInv
  <1>1. wire # <<>> /\ wire' = Tail(wire) /\ UNCHANGED <<doc, loads, iso, ready, told, faults, unnamed>>
    BY DEF Take, browser
  <1>2. PICK m : m = Head(wire)
    OBVIOUS
  <1>3. /\ 1 \in DOMAIN wire /\ wire[1] = m /\ m \in Messages
        /\ \A i \in DOMAIN wire' : i \in Nat /\ 1 < i + 1 /\ i + 1 \in DOMAIN wire /\ wire'[i] = wire[i + 1]
        /\ wire' \in Seq(Messages)
    BY <1>0, <1>1, <1>2, Typed, Taken
  <1>4. \A i, j \in DOMAIN wire' : wire'[i] \in Responses /\ i < j => wire'[j] \notin Trees
    <2> SUFFICES ASSUME NEW i \in DOMAIN wire', NEW j \in DOMAIN wire', wire'[i] \in Responses, i < j
                 PROVE  wire'[j] \notin Trees
      OBVIOUS
    <2>1. i + 1 < j + 1
      BY <1>3
    <2> QED BY <1>0, <1>3, <2>1 DEF TreeFirst
  <1>5. ASSUME m \in Replies PROVE IInv'
    <2>1. /\ chain' = chain /\ left' = left
          /\ IF m.to \in provides THEN Settle(m.to, m.ctx, m.named)
             ELSE UNCHANGED <<walk, lost, frames, seen, provides, calls>>
      <3>1. m.kind = "reply"
        BY <1>3, <1>5, Kinds
      <3> QED BY <1>2, <3>1 DEF Take
    <2>2. m.ctx \in Context \cup {None}
      BY <1>5, Kinds
    <2>3. m.ctx # None => m.ctx.doc >= frames[m.ctx.frame].loader /\ m.ctx.doc >= told[m.ctx.frame]
      <3> SUFFICES ASSUME m.ctx # None
                   PROVE  m.ctx.doc >= frames[m.ctx.frame].loader /\ m.ctx.doc >= told[m.ctx.frame]
        OBVIOUS
      <3>1. m.ctx \in Context /\ m.ctx.frame \in Frames /\ m.ctx.doc \in Nat /\ Brings(m, m.ctx)
        BY <1>5, <2>2 DEF Brings, Context
      <3>2. frames[m.ctx.frame].loader \in Nat /\ told[m.ctx.frame] \in Nat
        BY <1>0, <3>1 DEF TypeOK, FrameState
      <3>3. Follows(m)
        BY <1>0, <1>3 DEF InTurn
      <3>4. \A d \in Nat : Heard(m.ctx.frame, d) => d <= m.ctx.doc
        BY <3>1, <3>3 DEF Follows
      <3> QED BY <3>1, <3>2, <3>4 DEF Heard
    <2>4. /\ frames' \in [Frames -> FrameState] /\ seen' \subseteq Context
          /\ \A g \in Frames : frames'[g].loader = frames[g].loader
          /\ KeptBy(frames', seen')
          /\ \A e \in seen' : e.doc >= told[e.frame]
          /\ provides' \subseteq Provision /\ NewCall
          /\ walk' \in {"no", "tree", "on", "over", "broken"} /\ lost' \in BOOLEAN
      <3>1. CASE m.to \in provides
        BY <1>0, <2>1, <2>2, <2>3, <3>1, Settles
      <3>2. CASE m.to \notin provides
        BY <1>0, <2>1, <3>2 DEF TypeOK, Kept, KeptBy, NoGhosts, NewCall
      <3> QED BY <3>1, <3>2
    <2>5. ready
      <3>1. m \notin Events
        BY <1>3, <1>5, Silent
      <3> QED BY <1>0, <1>3, <3>1 DEF Asleep, TypeOK
    <2>6. TypeOK'
      <3>1. calls' \in Seq(Calls)
        BY <1>0, <2>4, Called
      <3> QED BY <1>0, <1>1, <1>3, <2>1, <2>4, <3>1 DEF TypeOK, Messages
    <2>7. Asleep' /\ Kept' /\ NoGhosts'
      BY <1>1, <2>4, <2>5 DEF Asleep, Kept, KeptBy, NoGhosts
    <2>8. TreeFirst'
      <3>1. \A i, j \in DOMAIN calls' : i < j => calls'[j] # TreeCall
        BY <1>0, <2>4, Called DEF TreeFirst
      <3>2. \A i \in DOMAIN wire' : wire'[i] \in Responses => \A j \in DOMAIN calls' : calls'[j] # TreeCall
        BY <1>0, <1>3, <2>4, Called DEF TreeFirst
      <3>3. \A i \in DOMAIN chain' : chain'[i] \in Responses =>
                (\A j \in DOMAIN calls' : calls'[j] # TreeCall) /\ (\A j \in DOMAIN wire' : wire'[j] \notin Trees)
        BY <1>0, <1>3, <2>1, <2>4, Called DEF TreeFirst
      <3> QED BY <1>4, <3>1, <3>2, <3>3 DEF TreeFirst
    <2>9. Newest' /\ InTurn'
      <3>1. \A g \in Frames, d \in Nat : Heard(g, d)' => Heard(g, d)
        BY <1>1, <2>1, <2>4 DEF Heard
      <3> QED BY <1>0, <1>1, <2>1, <3>1, Received
    <2> QED BY <2>6, <2>7, <2>8, <2>9 DEF IInv
  <1>6. ASSUME m \in Trees PROVE IInv'
    <2>1. /\ UNCHANGED <<chain, frames, seen, provides, calls, lost>>
          /\ walk' \in {"no", "tree", "on", "over", "broken"}
          /\ left' = left \/ left' = Found(m)
      <3>1. m.kind = "tree"
        BY <1>3, <1>6, Kinds
      <3> QED BY <1>0, <1>2, <3>1 DEF Take, TypeOK
    <2>2. m.doc \in [Frames -> Documents]
      BY <1>6, Kinds
    <2>3. \A i \in DOMAIN Tree, d \in Nat : <<i, d>> \in Found(m) => Says(m, Tree[i], d)
      BY <1>6, TreeFacts DEF Found, Says
    <2>4. Found(m) \subseteq (DOMAIN Tree) \X Nat
      BY DEF Found
    <2>5. \A j \in DOMAIN chain : chain[j] \notin Responses
      BY <1>0, <1>3, <1>6 DEF TreeFirst
    <2>6. ready
      <3>1. m \notin Events
        BY <1>3, <1>6, Silent
      <3> QED BY <1>0, <1>3, <3>1 DEF Asleep, TypeOK
    <2>7. TypeOK'
      BY <1>0, <1>1, <1>3, <2>1, <2>4 DEF TypeOK, Messages
    <2>8. Asleep' /\ Kept' /\ NoGhosts'
      BY <1>0, <1>1, <2>1, <2>6 DEF Asleep, Kept, NoGhosts
    <2>9. TreeFirst'
      BY <1>0, <1>3, <1>4, <2>1 DEF TreeFirst
    <2>10. Newest' /\ InTurn'
      <3>1. \A g \in Frames, d \in Nat : Heard(g, d)' => Heard(g, d) \/ Says(m, g, d)
        BY <1>1, <2>1, <2>3 DEF Heard
      <3> QED BY <1>0, <1>1, <1>2, <2>1, <2>5, <3>1, Received
    <2> QED BY <2>7, <2>8, <2>9, <2>10 DEF IInv
  <1>7. ASSUME m \in Events \cup Responses PROVE IInv'
    <2>1. chain' = Append(chain, m) /\ UNCHANGED <<walk, left, frames, seen, provides, calls, lost>>
      <3>1. m.kind \in {"document", "removed", "response"}
        BY <1>3, <1>7, Kinds
      <3> QED BY <1>2, <3>1 DEF Take
    <2>2. chain \in Seq(Events \cup Responses)
      BY <1>0 DEF TypeOK
    <2>3. /\ \A i \in DOMAIN chain : i \in Nat /\ chain'[i] = chain[i]
          /\ \A i \in DOMAIN chain' : i \in Nat /\ ((i \in DOMAIN chain /\ i <= Len(chain)) \/ i = Len(chain) + 1)
          /\ chain'[Len(chain) + 1] = m /\ Len(chain) \in Nat
          /\ chain' \in Seq(Events \cup Responses)
      BY <1>7, <2>1, <2>2, Added
    <2>4. TypeOK'
      BY <1>0, <1>1, <1>3, <2>1, <2>3 DEF TypeOK, Messages
    <2>5. Kept' /\ NoGhosts'
      BY <1>0, <1>1, <2>1 DEF Kept, NoGhosts
    <2>6. Asleep'
      BY <1>0, <1>1, <1>3, <2>1, <2>3 DEF Asleep
    <2>7. TreeFirst'
      <3>1. m \in Responses => (\A j \in DOMAIN calls : calls[j] # TreeCall)
                               /\ (\A j \in DOMAIN wire' : wire'[j] \notin Trees)
        BY <1>0, <1>3 DEF TreeFirst
      <3> QED BY <1>0, <1>3, <1>4, <2>1, <2>3, <3>1 DEF TreeFirst
    <2>8. Newest' /\ InTurn'
      BY <1>0, <1>1, <1>2, <2>1, Queued
    <2> QED BY <2>4, <2>5, <2>6, <2>7, <2>8 DEF IInv
  <1> QED BY <1>3, <1>5, <1>6, <1>7 DEF Messages

(* What a document's event does to the frames and the client, told of it.  *)
LEMMA Documented ==
    ASSUME TypeOK, Asleep, Kept, NoGhosts, NEW f \in Frames, NEW d \in Nat, OnDocument(f, d),
           told' = [g \in Frames |-> IF g = f THEN d ELSE IF f = Main THEN 0 ELSE told[g]]
    PROVE  /\ frames' \in [Frames -> FrameState] /\ seen' \subseteq Context
           /\ provides' \subseteq Provision /\ NewCall
           /\ \A g \in Frames : frames'[g].loader \in {0, frames[g].loader}
                                \/ (g = f /\ frames'[g].loader = d)
           /\ Kept' /\ NoGhosts'
           /\ ~ready => UNCHANGED <<seen, provides, calls>>
  <1>0. /\ frames \in [Frames -> FrameState] /\ seen \subseteq Context /\ provides \subseteq Provision
        /\ told \in [Frames -> Nat] /\ calls \in Seq(Calls)
    BY DEF TypeOK
  <1>1. \A g \in Frames : told'[g] \in Nat /\ frames[g] \in FrameState
    BY <1>0
  <1>2. CASE ~ready
    <2>1. UNCHANGED <<frames, seen, provides, calls>> /\ seen = {}
      BY <1>2 DEF OnDocument, Asleep
    <2> QED BY <1>0, <1>2, <2>1 DEF Kept, NoGhosts, NewCall
  <1>3. CASE ready /\ f = Main
    <2>0. PICK fs : fs = [g \in Frames |-> NoFrame(frames[g].gen + 1)]
      OBVIOUS
    <2>1. Provide(f, d, FALSE, fs, {})
      BY <1>3, <2>0 DEF OnDocument
    <2>2. fs \in [Frames -> FrameState] /\ \A g \in Frames : fs[g].loader = 0 /\ fs[g].contexts = {}
      BY <1>1, <2>0 DEF NoFrame, FrameState
    <2>3. KeptBy(fs, {})
      BY <2>2 DEF KeptBy
    <2>4. /\ frames' \in [Frames -> FrameState] /\ seen' \subseteq {}
          /\ provides' \subseteq Provision /\ NewCall
          /\ frames'[f].loader = d
          /\ \A g \in Frames \ {f} : frames'[g].loader = fs[g].loader
          /\ KeptBy(frames', seen')
      <3>1. PICK s \in SUBSET Context : s = {}
        OBVIOUS
      <3>2. Provide(f, d, FALSE, fs, s) /\ KeptBy(fs, s) /\ FALSE \in BOOLEAN
        BY <2>1, <2>3, <3>1
      <3>3. /\ frames' \in [Frames -> FrameState] /\ seen' \subseteq s
            /\ provides' \subseteq Provision /\ NewCall
            /\ frames'[f].loader = d
            /\ \A g \in Frames \ {f} : frames'[g].loader = fs[g].loader
            /\ KeptBy(frames', seen')
        <4>1. fs \in [Frames -> FrameState] /\ s \in SUBSET Context
          BY <2>2, <3>1
        <4> QED BY <3>2, <4>1, Provides
      <3> QED BY <3>1, <3>3
    <2> QED BY <1>3, <2>2, <2>4 DEF Kept, KeptBy, NoGhosts
  <1>4. CASE ready /\ f # Main
    <2>1. Provide(f, d, FALSE, frames, seen)
      BY <1>4 DEF OnDocument
    <2>2. KeptBy(frames, seen)
      BY DEF Kept, KeptBy
    <2>3. /\ frames' \in [Frames -> FrameState] /\ seen' \subseteq seen
          /\ provides' \subseteq Provision /\ NewCall
          /\ frames'[f].loader = d
          /\ \A g \in Frames \ {f} : frames'[g].loader = frames[g].loader
          /\ KeptBy(frames', seen')
      <3>1. seen \in SUBSET Context /\ FALSE \in BOOLEAN
        BY <1>0
      <3> QED BY <1>0, <2>1, <2>2, <3>1, Provides
    <2>4. NoGhosts'
      <3> SUFFICES ASSUME NEW c \in seen' PROVE c.doc >= told'[c.frame]
        BY DEF NoGhosts
      <3>1. c \in seen /\ c \in Context /\ c.frame \in Frames
        BY <1>0, <2>3 DEF Context
      <3>2. CASE c.frame = f
        <4>1. c \in frames'[f].contexts
          BY <2>3, <3>2 DEF KeptBy
        <4>2. c.doc >= frames'[f].loader
          BY <2>3, <4>1 DEF KeptBy
        <4> QED BY <2>3, <3>2, <4>2
      <3>3. CASE c.frame # f
        BY <1>4, <3>1, <3>3 DEF NoGhosts
      <3> QED BY <3>2, <3>3
    <2> QED BY <1>0, <1>4, <2>3, <2>4 DEF Kept, KeptBy
  <1> QED BY <1>2, <1>3, <1>4

LEMMA HandleStep ==
    ASSUME IInv, HandleEvent
    PROVE  IInv'
  <1>0. TypeOK /\ Asleep /\ Kept /\ TreeFirst /\ Newest /\ InTurn /\ NoGhosts
    BY DEF IInv
  <1>1. /\ chain # <<>> /\ chain' = Tail(chain)
        /\ UNCHANGED <<doc, loads, wire, ready, walk, left, lost, faults, unnamed>>
    BY DEF HandleEvent, browser, fault
  <1>2. PICK m : m = Head(chain)
    OBVIOUS
  <1>3. chain \in Seq(Events \cup Responses) /\ told \in [Frames -> Nat]
    BY <1>0 DEF TypeOK
  <1>4. /\ 1 \in DOMAIN chain /\ chain[1] = m /\ m \in Events \cup Responses
        /\ \A i \in DOMAIN chain' : i \in Nat /\ 1 < i + 1 /\ i + 1 \in DOMAIN chain /\ chain'[i] = chain[i + 1]
        /\ chain' \in Seq(Events \cup Responses)
    BY <1>1, <1>2, <1>3, Taken
  <1>5. m \in Messages
    BY <1>4 DEF Messages
  <1>6. /\ frames' \in [Frames -> FrameState] /\ seen' \subseteq Context
        /\ provides' \subseteq Provision /\ NewCall
        /\ Kept' /\ NoGhosts' /\ told' \in [Frames -> Nat] /\ iso' \in {"no", "asked", "told"}
        /\ ~ready => UNCHANGED <<seen, provides, calls, iso>>
        /\ \A g \in Frames, d \in Nat : Heard(g, d)' => Heard(g, d) \/ d = 0 \/ Says(m, g, d)
    <2>1. CASE m.kind = "document"
      <3>1. m \in Events /\ m.frame \in Frames /\ m.doc \in Nat
        BY <1>5, <2>1, Kinds
      <3>2. /\ OnDocument(m.frame, m.doc) /\ UNCHANGED iso
            /\ told' = [g \in Frames |-> IF g = m.frame THEN m.doc
                                         ELSE IF m.frame = Main THEN 0 ELSE told[g]]
        BY <1>2, <2>1 DEF HandleEvent
      <3>3. /\ frames' \in [Frames -> FrameState] /\ seen' \subseteq Context
            /\ provides' \subseteq Provision /\ NewCall
            /\ \A g \in Frames : frames'[g].loader \in {0, frames[g].loader}
                                 \/ (g = m.frame /\ frames'[g].loader = m.doc)
            /\ Kept' /\ NoGhosts'
            /\ ~ready => UNCHANGED <<seen, provides, calls>>
        BY <1>0, <3>1, <3>2, Documented
      <3>4. told' \in [Frames -> Nat]
        BY <1>3, <3>1, <3>2
      <3>5. \A g \in Frames, d \in Nat : Heard(g, d)' => Heard(g, d) \/ d = 0 \/ Says(m, g, d)
        BY <1>1, <2>1, <3>1, <3>2, <3>3 DEF Heard, Says
      <3> QED BY <1>0, <3>2, <3>3, <3>4, <3>5 DEF TypeOK
    <2>2. CASE m.kind = "removed"
      <3>1. m \in Events /\ m.frame \in Frames
        BY <1>5, <2>2, Kinds
      <3>2. /\ seen' = {c \in seen : c.frame # m.frame} /\ told' = [told EXCEPT ![m.frame] = 0]
            /\ UNCHANGED <<iso, frames, provides, calls>>
        BY <1>2, <2>2 DEF HandleEvent
      <3>3. Kept'
        BY <1>0, <3>2 DEF Kept
      <3>4. NoGhosts'
        <4>1. \A c \in seen : c.frame \in Frames
          BY <1>0 DEF TypeOK, Context
        <4> QED BY <1>0, <1>3, <3>2, <4>1 DEF NoGhosts
      <3>5. told' \in [Frames -> Nat]
        BY <1>3, <3>2
      <3>6. \A g \in Frames, d \in Nat : Heard(g, d)' => Heard(g, d) \/ d = 0
        BY <1>1, <1>3, <3>2 DEF Heard
      <3>7. ~ready => seen' = seen
        BY <1>0, <3>2 DEF Asleep
      <3> QED BY <1>0, <3>2, <3>3, <3>4, <3>5, <3>6, <3>7 DEF TypeOK, NewCall
    <2>3. CASE m.kind = "response"
      <3>1. m \in Responses /\ m.ctx \in Context \cup {None} /\ m \notin Events
        <4>1. m \in Responses
          BY <1>5, <2>3, Kinds
        <4>2. m \notin Events
          BY <1>5, <4>1, Silent
        <4> QED BY <4>1, <4>2, Kinds
      <3>2. ready
        BY <1>0, <1>4, <3>1 DEF Asleep, TypeOK
      <3>3. /\ iso' = "told" /\ UNCHANGED <<told, provides, calls>>
            /\ IF m.ctx # None THEN Announce(m.ctx) ELSE UNCHANGED <<frames, seen>>
        BY <1>2, <2>3 DEF HandleEvent
      <3>4. /\ frames' \in [Frames -> FrameState] /\ seen' \subseteq Context
            /\ \A g \in Frames : frames'[g].loader = frames[g].loader
            /\ KeptBy(frames', seen')
            /\ \A e \in seen' : e.doc >= told[e.frame]
        <4>1. CASE m.ctx = None
          BY <1>0, <3>3, <4>1 DEF TypeOK, Kept, KeptBy, NoGhosts
        <4>2. CASE m.ctx # None
          <5>1. m.ctx \in Context /\ m.ctx.frame \in Frames /\ m.ctx.doc \in Nat /\ Brings(m, m.ctx)
            BY <3>1, <4>2 DEF Brings, Context
          <5>2. frames[m.ctx.frame].loader \in Nat /\ told[m.ctx.frame] \in Nat
            BY <1>0, <5>1 DEF TypeOK, FrameState
          <5>3. Follows(m)
            BY <1>0, <1>4 DEF InTurn
          <5>4. \A d \in Nat : Heard(m.ctx.frame, d) => d <= m.ctx.doc
            BY <5>1, <5>3 DEF Follows
          <5>5. m.ctx.doc >= frames[m.ctx.frame].loader /\ m.ctx.doc >= told[m.ctx.frame]
            BY <5>1, <5>2, <5>4 DEF Heard
          <5> QED BY <1>0, <3>3, <4>2, <5>1, <5>5, Announces
        <4> QED BY <4>1, <4>2
      <3>5. \A g \in Frames, d \in Nat : Heard(g, d)' => Heard(g, d)
        BY <1>1, <3>3, <3>4 DEF Heard
      <3> QED BY <1>0, <1>3, <3>2, <3>3, <3>4, <3>5 DEF TypeOK, NewCall, Kept, KeptBy, NoGhosts
    <2> QED BY <1>2, <2>1, <2>2, <2>3 DEF HandleEvent
  <1>7. TypeOK'
    <2>1. calls' \in Seq(Calls)
      BY <1>0, <1>6, Called
    <2> QED BY <1>0, <1>1, <1>4, <1>6, <2>1 DEF TypeOK
  <1>8. Asleep'
    BY <1>0, <1>1, <1>4, <1>6 DEF Asleep
  <1>9. TreeFirst'
    <2>1. \A i, j \in DOMAIN calls' : i < j => calls'[j] # TreeCall
      BY <1>0, <1>6, Called DEF TreeFirst
    <2>2. \A i \in DOMAIN wire' : wire'[i] \in Responses => \A j \in DOMAIN calls' : calls'[j] # TreeCall
      BY <1>0, <1>1, <1>6, Called DEF TreeFirst
    <2>3. \A i \in DOMAIN chain' : chain'[i] \in Responses =>
              (\A j \in DOMAIN calls' : calls'[j] # TreeCall) /\ (\A j \in DOMAIN wire' : wire'[j] \notin Trees)
      BY <1>0, <1>1, <1>4, <1>6, Called DEF TreeFirst
    <2> QED BY <1>0, <1>1, <2>1, <2>2, <2>3 DEF TreeFirst
  <1>10. Newest' /\ InTurn'
    BY <1>0, <1>1, <1>2, <1>6, Handled
  <1> QED BY <1>6, <1>7, <1>8, <1>9, <1>10 DEF IInv

LEMMA WalkStep ==
    ASSUME IInv, WalkOn
    PROVE  IInv'
  <1>0. TypeOK /\ Asleep /\ Kept /\ TreeFirst /\ Newest /\ InTurn /\ NoGhosts
    BY DEF IInv
  <1>1. /\ walk = "on" /\ UNCHANGED <<doc, loads, iso, wire, chain, ready, told, lost, faults, unnamed>>
    BY DEF WalkOn, browser, fault
  <1>2. ready
    BY <1>0, <1>1 DEF Asleep, TypeOK
  <1>3. CASE left = {}
    <2>1. walk' = "over" /\ UNCHANGED <<left, frames, seen, provides, calls>>
      BY <1>3 DEF WalkOn
    <2>2. TypeOK'
      BY <1>0, <1>1, <2>1 DEF TypeOK
    <2>3. Asleep' /\ Kept' /\ TreeFirst' /\ NoGhosts'
      BY <1>0, <1>1, <1>2, <2>1 DEF Asleep, Kept, TreeFirst, NoGhosts
    <2>4. \A g \in Frames, d \in Nat : Heard(g, d)' => Heard(g, d) \/ d = 0
      BY <1>1, <2>1 DEF Heard
    <2> QED BY <1>0, <1>1, <2>2, <2>3, <2>4, Waiting DEF IInv
  <1>4. CASE left # {}
    <2>1. PICK e \in left : /\ left' = left \ {e} /\ UNCHANGED walk
                            /\ Provide(Tree[e[1]], e[2], TRUE, frames, seen)
      BY <1>4 DEF WalkOn
    <2>2. left \subseteq (DOMAIN Tree) \X Nat /\ frames \in [Frames -> FrameState] /\ seen \in SUBSET Context
      BY <1>0 DEF TypeOK
    <2>3. PICK i \in DOMAIN Tree, d \in Nat : e = <<i, d>>
      BY <2>1, <2>2
    <2>4. PICK f \in Frames : f = Tree[i]
      BY <2>3, TreeFacts
    <2>5. Provide(f, d, TRUE, frames, seen) /\ d \in Nat /\ <<i, d>> \in left
      BY <2>1, <2>3, <2>4
    <2>6. KeptBy(frames, seen) /\ TRUE \in BOOLEAN
      BY <1>0 DEF Kept, KeptBy
    <2>7. /\ frames' \in [Frames -> FrameState] /\ seen' \subseteq seen
          /\ provides' \subseteq Provision /\ NewCall
          /\ frames'[f].loader = d
          /\ \A g \in Frames \ {f} : frames'[g].loader = frames[g].loader
          /\ KeptBy(frames, seen) => KeptBy(frames', seen')
      <3>1. TypeOK /\ f \in Frames /\ d \in Nat /\ TRUE \in BOOLEAN
        BY <1>0, <2>4, <2>5
      <3>2. frames \in [Frames -> FrameState] /\ seen \in SUBSET Context
        BY <2>2
      <3> QED BY <2>5, <3>1, <3>2, Provides
    <2>8. TypeOK'
      <3>1. calls' \in Seq(Calls)
        BY <1>0, <2>7, Called
      <3> QED BY <1>0, <1>1, <2>1, <2>2, <2>7, <3>1 DEF TypeOK
    <2>9. Asleep' /\ Kept' /\ NoGhosts'
      BY <1>0, <1>1, <1>2, <2>6, <2>7 DEF Asleep, Kept, KeptBy, NoGhosts
    <2>10. TreeFirst'
      <3>1. \A j, k \in DOMAIN calls' : j < k => calls'[k] # TreeCall
        BY <1>0, <2>7, Called DEF TreeFirst
      <3>2. \A j \in DOMAIN wire' : wire'[j] \in Responses => \A k \in DOMAIN calls' : calls'[k] # TreeCall
        BY <1>0, <1>1, <2>7, Called DEF TreeFirst
      <3>3. \A j \in DOMAIN chain' : chain'[j] \in Responses =>
                (\A k \in DOMAIN calls' : calls'[k] # TreeCall) /\ (\A k \in DOMAIN wire' : wire'[k] \notin Trees)
        BY <1>0, <1>1, <2>7, Called DEF TreeFirst
      <3> QED BY <1>0, <1>1, <3>1, <3>2, <3>3 DEF TreeFirst
    <2>11. \A g \in Frames, n \in Nat : Heard(g, n)' => Heard(g, n) \/ n = 0
      BY <1>1, <2>1, <2>3, <2>4, <2>5, <2>7 DEF Heard
    <2> QED BY <1>0, <1>1, <2>8, <2>9, <2>10, <2>11, Waiting DEF IInv
  <1> QED BY <1>3, <1>4

LEMMA TimeoutStep ==
    ASSUME IInv, Timeout
    PROVE  IInv'
  <1>0. TypeOK /\ Asleep /\ Kept /\ TreeFirst /\ Newest /\ InTurn /\ NoGhosts
    BY DEF IInv
  <1>1. /\ UNCHANGED <<doc, loads, iso, calls, wire, chain, ready, frames, left, seen, told>>
        /\ lost' = TRUE /\ faults' = faults + 1 /\ unnamed' = unnamed
        /\ provides' \subseteq provides /\ walk' \in {walk, "broken"}
        /\ ready
    BY <1>0 DEF Timeout, browser, client, Asleep, TypeOK
  <1>2. TypeOK'
    BY <1>0, <1>1 DEF TypeOK
  <1>3. Asleep' /\ Kept' /\ TreeFirst' /\ NoGhosts'
    BY <1>0, <1>1 DEF Asleep, Kept, TreeFirst, NoGhosts
  <1>4. \A g \in Frames, d \in Nat : Heard(g, d)' => Heard(g, d) \/ d = 0
    BY <1>1 DEF Heard
  <1> QED BY <1>0, <1>1, <1>2, <1>3, <1>4, Waiting DEF IInv

LEMMA EnableStep ==
    ASSUME IInv, EnableRuntime
    PROVE  IInv'
  <1>0. TypeOK /\ Asleep /\ Kept /\ TreeFirst /\ Newest /\ InTurn /\ NoGhosts
    BY DEF IInv
  <1>1. /\ UNCHANGED <<doc, loads, iso, wire, chain, frames, provides, left, seen, told, lost, faults, unnamed>>
        /\ ~ready /\ ready' = TRUE /\ walk' = "tree" /\ calls' = Append(calls, TreeCall)
    BY DEF EnableRuntime, browser, client, fault, TreeCall
  <1>2. calls = <<>> /\ TreeCall \in Calls
    BY <1>0, <1>1 DEF Asleep, Calls
  <1>3. calls' \in Seq(Calls) /\ \A i \in DOMAIN calls' : i = 1
    BY <1>1, <1>2
  <1>4. TypeOK'
    BY <1>0, <1>1, <1>3 DEF TypeOK
  <1>5. Asleep' /\ Kept' /\ NoGhosts'
    BY <1>0, <1>1 DEF Asleep, Kept, NoGhosts
  <1>6. /\ \A i \in DOMAIN wire : wire[i] \notin Responses
        /\ \A i \in DOMAIN chain : chain[i] \notin Responses
    <2>1. \A m \in Events : m \notin Responses
      BY Silent DEF Messages
    <2> QED BY <1>0, <1>1, <2>1 DEF Asleep
  <1>7. TreeFirst'
    BY <1>1, <1>3, <1>6 DEF TreeFirst
  <1>8. \A g \in Frames, d \in Nat : Heard(g, d)' => Heard(g, d) \/ d = 0
    BY <1>1 DEF Heard
  <1> QED BY <1>0, <1>1, <1>4, <1>5, <1>7, <1>8, Waiting DEF IInv

LEMMA CreateStep ==
    ASSUME IInv, NEW f \in Frames, CreateIsolatedWorld(f)
    PROVE  IInv'
  <1>0. TypeOK /\ Asleep /\ Kept /\ TreeFirst /\ Newest /\ InTurn /\ NoGhosts
    BY DEF IInv
  <1>1. /\ UNCHANGED <<doc, loads, wire, chain, frames, provides, walk, left, seen, told, lost, faults, unnamed>>
        /\ ready /\ ready' = ready /\ iso' = "asked" /\ calls' = Append(calls, Call(f, "iso", None))
    BY DEF CreateIsolatedWorld, browser, plugin, client, fault
  <1>2. NewCall
    <2>1. Call(f, "iso", None) \in Calls
      BY DEF Calls
    <2>2. Call(f, "iso", None) # TreeCall
      BY DEF Call, TreeCall
    <2> QED BY <1>1, <2>1, <2>2 DEF NewCall
  <1>3. TypeOK'
    <2>1. calls' \in Seq(Calls)
      BY <1>0, <1>2, Called
    <2> QED BY <1>0, <1>1, <2>1 DEF TypeOK
  <1>4. Asleep' /\ Kept' /\ NoGhosts'
    BY <1>0, <1>1 DEF Asleep, Kept, NoGhosts
  <1>5. TreeFirst'
    <2>1. \A j, k \in DOMAIN calls' : j < k => calls'[k] # TreeCall
      BY <1>0, <1>2, Called DEF TreeFirst
    <2>2. \A j \in DOMAIN wire' : wire'[j] \in Responses => \A k \in DOMAIN calls' : calls'[k] # TreeCall
      BY <1>0, <1>1, <1>2, Called DEF TreeFirst
    <2>3. \A j \in DOMAIN chain' : chain'[j] \in Responses =>
              (\A k \in DOMAIN calls' : calls'[k] # TreeCall) /\ (\A k \in DOMAIN wire' : wire'[k] \notin Trees)
      BY <1>0, <1>1, <1>2, Called DEF TreeFirst
    <2> QED BY <1>0, <1>1, <2>1, <2>2, <2>3 DEF TreeFirst
  <1>6. \A g \in Frames, d \in Nat : Heard(g, d)' => Heard(g, d) \/ d = 0
    BY <1>1 DEF Heard
  <1> QED BY <1>0, <1>1, <1>3, <1>4, <1>5, <1>6, Waiting DEF IInv

LEMMA Start == Init => IInv
  <1> SUFFICES ASSUME Init PROVE IInv
    OBVIOUS
  <1>1. /\ doc = [f \in Frames |-> IF f = Main THEN 1 ELSE 0] /\ loads = 1
        /\ iso = "no" /\ calls = <<>> /\ wire = <<>> /\ chain = <<>>
        /\ ready = FALSE /\ frames = [f \in Frames |-> NoFrame(0)] /\ provides = {}
        /\ walk = "no" /\ left = {} /\ seen = {} /\ told = [f \in Frames |-> 0]
        /\ lost = FALSE /\ faults = 0 /\ unnamed = {}
    BY DEF Init
  <1>2. frames \in [Frames -> FrameState] /\ \A f \in Frames : frames[f].loader = 0 /\ frames[f].contexts = {}
    BY <1>1 DEF NoFrame, FrameState
  <1>3. TypeOK
    <2>1. doc \in [Frames -> Documents]
      BY <1>1 DEF Documents
    <2>2. told \in [Frames -> Nat]
      BY <1>1
    <2>3. calls \in Seq(Calls) /\ wire \in Seq(Events \cup Trees \cup Responses \cup Replies)
          /\ chain \in Seq(Events \cup Responses)
      BY <1>1
    <2> QED BY <1>1, <1>2, <2>1, <2>2, <2>3 DEF TypeOK
  <1>4. Asleep /\ Kept /\ TreeFirst /\ NoGhosts
    BY <1>1, <1>2 DEF Asleep, Kept, TreeFirst, NoGhosts
  <1>5. \A f \in Frames, d \in Nat : Heard(f, d) => d = 0
    BY <1>1, <1>2 DEF Heard
  <1>6. Newest
    BY <1>1, <1>5 DEF Newest
  <1>7. InTurn
    BY <1>1 DEF InTurn
  <1> QED BY <1>3, <1>4, <1>6, <1>7 DEF IInv

LEMMA Inductive == IInv /\ [Next]_vars => IInv'
  <1> SUFFICES ASSUME IInv, [Next]_vars PROVE IInv'
    OBVIOUS
  <1>1. CASE UNCHANGED vars
    <2>0. TypeOK /\ Asleep /\ Kept /\ TreeFirst /\ Newest /\ InTurn /\ NoGhosts
      BY DEF IInv
    <2>1. UNCHANGED <<doc, loads, iso, calls, wire, chain, ready, frames, provides, walk, left,
                      seen, told, lost, faults, unnamed>>
      BY <1>1 DEF vars, browser, plugin, client, fault
    <2>2. TypeOK'
      BY <2>0, <2>1 DEF TypeOK
    <2>3. Asleep' /\ Kept' /\ TreeFirst' /\ NoGhosts'
      BY <2>0, <2>1 DEF Asleep, Kept, TreeFirst, NoGhosts
    <2>4. \A g \in Frames, d \in Nat : Heard(g, d)' => Heard(g, d) \/ d = 0
      BY <2>1 DEF Heard
    <2> QED BY <2>0, <2>1, <2>2, <2>3, <2>4, Waiting DEF IInv
  <1> QED BY <1>1, CommitStep, RemoveStep, ExecuteStep, TakeStep, WalkStep, HandleStep,
             TimeoutStep, EnableStep, CreateStep DEF Next, Work

LEMMA Invariance == FairSpec => []IInv
  BY Start, Inductive, PTL DEF FairSpec

(* The frames, the calls and the messages stay in the states the code can  *)
(* name.                                                                   *)
THEOREM TypeSafety == FairSpec => []TypeOK
  <1>1. IInv => TypeOK
    BY DEF IInv
  <1> QED BY <1>1, Invariance, PTL

(* No context that provide or onResponse announces is older than what the  *)
(* client has been told of its frame, and none is left when it is told     *)
(* more, whatever replies overtake which events.                           *)
THEOREM OnlyLiveContexts == FairSpec => []NoGhosts
  <1>1. IInv => NoGhosts
    BY DEF IInv
  <1> QED BY <1>1, Invariance, PTL
-----------------------------------------------------------------------------
(* News of the document a frame shows; an event after which the client has *)
(* to give a context up; and one that undoes what was done for the frame.  *)
News(f) == [kind |-> "document", frame |-> f, doc |-> doc[f]]

Retires(m, c) ==
    /\ m \in Events
    /\ \/ m.kind = "document" /\ m.frame = c.frame /\ m.doc > c.doc
       \/ m.kind = "document" /\ m.frame = Main /\ c.frame # Main
       \/ m.kind = "removed" /\ m.frame = c.frame

Undoes(m, f) ==
    /\ m \in Events /\ m.kind = "document"
    /\ \/ m.frame = f /\ m.doc # doc[f]
       \/ m.frame = Main /\ f # Main

(* What the browser said last of a frame is behind all that undoes it.     *)
Coming == Range(chain) \cup Range(wire)

Followed(f) ==
    /\ \A i \in DOMAIN chain : Undoes(chain[i], f) =>
           \/ \E j \in DOMAIN chain : i < j /\ chain[j] = News(f)
           \/ \E j \in DOMAIN wire : wire[j] = News(f)
    /\ \A i \in DOMAIN wire : Undoes(wire[i], f) => \E j \in DOMAIN wire : i < j /\ wire[j] = News(f)

Sound(m) ==
    /\ m \in Events /\ m.kind = "removed" => doc[m.frame] = None
    /\ m \in Events /\ m.kind = "document" => m.doc # 0
    /\ m \in Responses /\ m.ctx # None => m.ctx.world = "iso"

Announced ==
    /\ \A f \in Frames : Exists(f) => Followed(f)
    /\ \A m \in Coming : Sound(m)

(* A frame that is asked for a world has shown a document, and has no       *)
(* answer only if it is gone; an answer is of the document it shows, or     *)
(* an event that retires it is behind it, and is on record if it leaves the *)
(* context unnamed.  The tree comes once.                                  *)
Truthful(m, i) ==
    /\ ~m.named => m.ctx \in unnamed
    /\ m.ctx = None => doc[m.to.frame] = None
    /\ m.ctx # None =>
        /\ m.ctx.frame = m.to.frame /\ m.ctx.world = m.to.world /\ m.ctx.doc # 0
        /\ doc[m.ctx.frame] \in Nat => m.ctx.doc <= doc[m.ctx.frame]
        /\ doc[m.ctx.frame] = m.ctx.doc \/ \E j \in DOMAIN wire : i < j /\ Retires(wire[j], m.ctx)

Asking ==
    /\ \A i \in DOMAIN calls : calls[i].world \in Worlds => doc[calls[i].frame] # 0
    /\ \A i \in DOMAIN wire : wire[i] \in Replies => Truthful(wire[i], i)
    /\ \A e \in left : e[2] # 0
    /\ \A i, j \in DOMAIN wire : wire[i] \in Trees /\ wire[j] \in Trees => i = j
    /\ \A i \in DOMAIN wire, j \in DOMAIN calls : wire[i] \in Trees => calls[j] # TreeCall

(* A world the client takes for live is of the document its frame shows, or *)
(* an event that retires it is on its way; and of a frame that is there,    *)
(* the client has what the plugin keeps.                                   *)
Retired(c) == \E m \in Coming : Retires(m, c)

Live ==
    /\ \A c \in seen : c.world \in Worlds => c.doc # 0 /\ (doc[c.frame] = c.doc \/ Retired(c))
    /\ \A f \in Frames : \A c \in frames[f].contexts : c \in seen \/ doc[f] = None

(* Who is at work for a frame: a call of provide, the news, the walk.      *)
Working(f, w) == \E p \in provides : p.frame = f /\ p.world = w /\ Current(p)

Provided(f) ==
    /\ Ctx(f, "main") \in seen \cup unnamed \/ Working(f, "main")
    /\ Ctx(f, "util") \in seen \cup unnamed \/ Working(f, "main") \/ Working(f, "util")

InNews(f) == News(f) \in Coming
InTree(f) ==
    /\ walk = "tree"
    /\ \/ \E i \in DOMAIN calls : calls[i] = TreeCall
       \/ \E i \in DOMAIN wire : wire[i] \in Trees /\ wire[i].doc[f] \in Nat \ {0}
InWalk(f) == walk = "on" /\ \E e \in left : Tree[e[1]] = f

Attends(f) ==
    /\ frames[f].loader = doc[f] => Provided(f)
    /\ frames[f].loader \notin {0, doc[f]} => Provided(f) \/ InNews(f)
    /\ frames[f].loader = 0 => InNews(f) \/ InTree(f) \/ InWalk(f)

Attended ==
    /\ ~ready => \A f \in Frames : frames[f].loader = 0
    /\ walk = "broken" => lost
    /\ ready /\ ~lost => \A f \in Frames : Exists(f) => Attends(f)

SInv == Announced /\ Asking /\ Live /\ Attended
-----------------------------------------------------------------------------
LEMMA Grown ==
    ASSUME NEW S, NEW s \in Seq(S), NEW e \in S
    PROVE  /\ Range(Append(s, e)) = Range(s) \cup {e}
           /\ \A i \in DOMAIN s : i \in DOMAIN Append(s, e) /\ Append(s, e)[i] = s[i] /\ i \in Nat
           /\ \A i \in DOMAIN Append(s, e) : i \in Nat /\ (i \in DOMAIN s \/ Append(s, e)[i] = e)
           /\ \E j \in DOMAIN Append(s, e) : /\ Append(s, e)[j] = e /\ \A i \in DOMAIN s : i < j
                                  /\ \A i \in DOMAIN Append(s, e) : i \in DOMAIN s \/ i = j
  <1>1. /\ Append(s, e) \in Seq(S) /\ Append(s, e)[Len(s) + 1] = e
        /\ \A i \in DOMAIN s : i \in Nat /\ i \in DOMAIN Append(s, e) /\ Append(s, e)[i] = s[i]
        /\ \A i \in DOMAIN Append(s, e) : i \in Nat /\ ((i \in DOMAIN s /\ i <= Len(s)) \/ i = Len(s) + 1)
    BY Added
  <1>2. Len(s) + 1 \in DOMAIN Append(s, e) /\ \A i \in DOMAIN s : i < Len(s) + 1
    <2>1. Len(Append(s, e)) = Len(s) + 1 /\ Len(s) \in Nat
      BY AppendProperties
    <2> QED BY <1>1, <2>1
  <1>3. Range(Append(s, e)) = Range(s) \cup {e}
    BY <1>1, <1>2 DEF Range
  <1> QED BY <1>1, <1>2, <1>3

LEMMA Shrunk ==
    ASSUME NEW S, NEW s \in Seq(S), s # <<>>
    PROVE  /\ Range(s) = Range(Tail(s)) \cup {Head(s)}
           /\ 1 \in DOMAIN s /\ s[1] = Head(s) /\ Head(s) \in S
           /\ \A i \in DOMAIN Tail(s) : i \in Nat /\ i + 1 \in DOMAIN s /\ 1 < i + 1 /\ Tail(s)[i] = s[i + 1]
           /\ \A i \in DOMAIN s : i = 1 \/ (i \in Nat /\ i > 1 /\ i - 1 \in DOMAIN Tail(s) /\ Tail(s)[i - 1] = s[i])
  <1>1. /\ Tail(s) \in Seq(S) /\ Head(s) \in S /\ 1 \in DOMAIN s /\ s[1] = Head(s)
        /\ \A i \in DOMAIN Tail(s) : i \in Nat /\ i >= 1 /\ i + 1 \in DOMAIN s /\ Tail(s)[i] = s[i + 1]
    BY Taken
  <1>2. \A i \in DOMAIN s : i = 1 \/ (i \in Nat /\ i > 1 /\ i - 1 \in DOMAIN Tail(s) /\ Tail(s)[i - 1] = s[i])
    <2>1. Len(Tail(s)) = Len(s) - 1 /\ Len(s) \in Nat \ {0}
      BY HeadTailProperties, EmptySeq
    <2>2. DOMAIN s = 1..Len(s) /\ DOMAIN Tail(s) = 1..Len(s) - 1
      BY <1>1, <2>1
    <2>3. \A i \in 1..Len(s) : i = 1 \/ (i > 1 /\ i - 1 \in 1..Len(s) - 1 /\ i = (i - 1) + 1)
      BY <2>1
    <2> QED BY <1>1, <2>2, <2>3
  <1>3. Range(s) = Range(Tail(s)) \cup {Head(s)}
    <2>1. Range(s) \subseteq Range(Tail(s)) \cup {Head(s)}
      <3> SUFFICES ASSUME NEW i \in DOMAIN s PROVE s[i] \in Range(Tail(s)) \cup {Head(s)}
        BY DEF Range
      <3>1. CASE i = 1
        BY <1>1, <3>1
      <3>2. CASE i # 1
        <4>1. i - 1 \in DOMAIN Tail(s) /\ Tail(s)[i - 1] = s[i]
          BY <1>2, <3>2
        <4> QED BY <4>1 DEF Range
      <3> QED BY <3>1, <3>2
    <2>2. Range(Tail(s)) \cup {Head(s)} \subseteq Range(s)
      BY <1>1 DEF Range
    <2> QED BY <2>1, <2>2
  <1> QED BY <1>1, <1>2, <1>3

(* The browser says m, of a frame that it has moved or removed.            *)
Moves(m) ==
    /\ m \in Events /\ wire' = Append(wire, m)
    /\ UNCHANGED <<calls, chain, ready, frames, provides, walk, left, seen, lost, unnamed>>
    /\ \A g \in Frames :
        /\ doc[g] = None => doc'[g] = None
        /\ doc[g] # 0 => doc'[g] # 0
        /\ doc'[g] \in Nat => doc[g] \in Nat /\ doc[g] <= doc'[g]
        /\ doc'[g] # doc[g] =>
            /\ \A c \in Context : c.frame = g /\ c.doc = doc[g] => Retires(m, c)
            /\ Exists(g)' => m = News(g)'
        /\ Exists(g)' => ~Undoes(m, g)'
    /\ Sound(m)'

LEMMA MovesAnnounced ==
    ASSUME TypeOK, Announced, NEW m, Moves(m)
    PROVE  Announced'
  <1>1. wire \in Seq(Messages) /\ m \in Messages /\ wire' = Append(wire, m) /\ chain' = chain
        /\ doc \in [Frames -> Documents]
    BY Typed DEF Moves, Messages, TypeOK
  <1>2. /\ Range(wire') = Range(wire) \cup {m}
        /\ \A i \in DOMAIN wire : i \in DOMAIN wire' /\ wire'[i] = wire[i] /\ i \in Nat
        /\ \A i \in DOMAIN wire' : i \in Nat /\ (i \in DOMAIN wire \/ wire'[i] = m)
    BY <1>1, Grown
  <1>3. PICK last \in DOMAIN wire' : wire'[last] = m /\ \A i \in DOMAIN wire : i < last
    BY <1>1, Grown
  <1>4. ASSUME NEW f \in Frames, Exists(f)' PROVE Followed(f)'
    <2>1. ~Undoes(m, f)'
      BY <1>4 DEF Moves
    <2>2. CASE doc'[f] = doc[f]
      <3>1. Exists(f) /\ News(f)' = News(f) /\ \A n : Undoes(n, f)' <=> Undoes(n, f)
        BY <1>4, <2>2 DEF Exists, News, Undoes
      <3>2. Followed(f)
        BY <3>1 DEF Announced
      <3>3. \A i \in DOMAIN chain' : Undoes(chain'[i], f) =>
               \/ \E j \in DOMAIN chain' : i < j /\ chain'[j] = News(f)
               \/ \E j \in DOMAIN wire' : wire'[j] = News(f)
        BY <1>1, <1>2, <3>2 DEF Followed
      <3>4. \A i \in DOMAIN wire' : Undoes(wire'[i], f) =>
               \E j \in DOMAIN wire' : i < j /\ wire'[j] = News(f)
        BY <1>2, <2>1, <3>1, <3>2 DEF Followed
      <3> QED BY <3>1, <3>3, <3>4 DEF Followed
    <2>3. CASE doc'[f] # doc[f]
      <3>1. m = News(f)'
        BY <1>4, <2>3 DEF Moves
      <3> QED BY <1>2, <1>3, <2>1, <3>1 DEF Followed
    <2> QED BY <2>2, <2>3
  <1>5. ASSUME NEW n \in Coming' PROVE Sound(n)'
    <2>1. n \in Coming \/ n = m
      BY <1>1, <1>2 DEF Coming
    <2>2. n \in Events => n.frame \in Frames
      BY DEF Events
    <2> QED BY <2>1, <2>2 DEF Announced, Sound, Moves
  <1> QED BY <1>4, <1>5 DEF Announced

LEMMA MovesAsking ==
    ASSUME TypeOK, Asking, NEW m, Moves(m)
    PROVE  Asking'
  <1>1. /\ wire \in Seq(Messages) /\ m \in Messages /\ m \in Events /\ wire' = Append(wire, m)
        /\ UNCHANGED <<calls, left, unnamed>> /\ calls \in Seq(Calls)
        /\ doc \in [Frames -> Documents] /\ \A i \in DOMAIN wire : wire[i] \in Messages
    BY Typed DEF Moves, Messages, TypeOK
  <1>2. /\ \A i \in DOMAIN wire : i \in DOMAIN wire' /\ wire'[i] = wire[i] /\ i \in Nat
        /\ \A i \in DOMAIN wire' : i \in Nat /\ (i \in DOMAIN wire \/ wire'[i] = m)
    BY <1>1, Grown
  <1>3. PICK last \in DOMAIN wire' : wire'[last] = m /\ \A i \in DOMAIN wire : i < last
    BY <1>1, Grown
  <1>4. m \notin Replies /\ m \notin Trees
    BY <1>1, Silent
  <1>5. ASSUME NEW i \in DOMAIN calls', calls'[i].world \in Worlds
        PROVE  doc'[calls'[i].frame] # 0
    <2>1. calls[i] \in Calls /\ calls[i].world \in Worlds
      BY <1>1, <1>5
    <2>2. calls[i].frame \in Frames
      BY <2>1 DEF Calls, Call, Provision, TreeCall, Worlds
    <2> QED BY <1>1, <2>1, <2>2 DEF Asking, Moves
  <1>6. ASSUME NEW i \in DOMAIN wire', wire'[i] \in Replies
        PROVE  Truthful(wire[i], i)'
    <2>1. i \in DOMAIN wire /\ wire'[i] = wire[i] /\ Truthful(wire[i], i) /\ wire[i] \in Replies
      BY <1>2, <1>4, <1>6 DEF Asking
    <2>2. PICK n : n = wire[i]
      OBVIOUS
    <2>3. n \in Replies /\ Truthful(n, i)
      BY <2>1, <2>2
    <2>4. n.to \in Provision /\ n.to.frame \in Frames /\ n.ctx \in Context \cup {None}
      BY <2>3, Kinds DEF Provision
    <2>5. n.ctx # None => n.ctx \in Context /\ n.ctx.frame \in Frames /\ n.ctx.doc \in Nat
      BY <2>4 DEF Context
    <2>6. n.ctx = None => doc'[n.to.frame] = None
      BY <2>3, <2>4 DEF Truthful, Moves
    <2>7. ASSUME n.ctx # None
          PROVE  /\ doc'[n.ctx.frame] \in Nat => n.ctx.doc <= doc'[n.ctx.frame]
                 /\ doc'[n.ctx.frame] = n.ctx.doc \/ \E j \in DOMAIN wire' : i < j /\ Retires(wire'[j], n.ctx)
      <3>1. /\ doc[n.ctx.frame] \in Nat => n.ctx.doc <= doc[n.ctx.frame]
            /\ doc[n.ctx.frame] = n.ctx.doc \/ \E j \in DOMAIN wire : i < j /\ Retires(wire[j], n.ctx)
        BY <2>3, <2>7 DEF Truthful
      <3>2. doc'[n.ctx.frame] \in Nat => doc[n.ctx.frame] \in Nat /\ doc[n.ctx.frame] <= doc'[n.ctx.frame]
        BY <2>5, <2>7 DEF Moves
      <3>3. doc'[n.ctx.frame] \in Nat => n.ctx.doc <= doc'[n.ctx.frame]
        BY <2>5, <2>7, <3>1, <3>2
      <3>4. CASE \E j \in DOMAIN wire : i < j /\ Retires(wire[j], n.ctx)
        BY <1>2, <3>3, <3>4
      <3>5. CASE doc[n.ctx.frame] = n.ctx.doc /\ doc'[n.ctx.frame] = doc[n.ctx.frame]
        BY <3>3, <3>5
      <3>6. CASE doc[n.ctx.frame] = n.ctx.doc /\ doc'[n.ctx.frame] # doc[n.ctx.frame]
        <4>1. Retires(m, n.ctx)
          BY <2>5, <2>7, <3>6 DEF Moves
        <4> QED BY <1>3, <2>1, <3>3, <4>1
      <3> QED BY <3>1, <3>4, <3>5, <3>6
    <2>8. /\ n.ctx # None => n.ctx.frame = n.to.frame /\ n.ctx.world = n.to.world /\ n.ctx.doc # 0
          /\ ~n.named => n.ctx \in unnamed
      BY <2>3 DEF Truthful
    <2>9. wire'[i] = n
      BY <2>1, <2>2
    <2> QED BY <1>1, <2>6, <2>7, <2>8, <2>9 DEF Truthful
  <1>7. \A i, j \in DOMAIN wire' : wire'[i] \in Trees /\ wire'[j] \in Trees => i = j
    BY <1>2, <1>4 DEF Asking
  <1>8. \A i \in DOMAIN wire', j \in DOMAIN calls' : wire'[i] \in Trees => calls'[j] # TreeCall
    BY <1>1, <1>2, <1>4 DEF Asking
  <1> QED BY <1>1, <1>5, <1>6, <1>7, <1>8 DEF Asking

LEMMA MovesLive ==
    ASSUME TypeOK, Live, NEW m, Moves(m)
    PROVE  Live'
  <1>1. wire \in Seq(Messages) /\ m \in Messages /\ wire' = Append(wire, m) /\ chain' = chain
        /\ seen' = seen /\ frames' = frames /\ seen \subseteq Context
    BY Typed DEF Moves, Messages, TypeOK
  <1>2. Coming' = Coming \cup {m}
    <2>1. Range(wire') = Range(wire) \cup {m}
      BY <1>1, Grown
    <2> QED BY <1>1, <2>1 DEF Coming
  <1>3. ASSUME NEW c \in seen', c.world \in Worlds
        PROVE  c.doc # 0 /\ (doc'[c.frame] = c.doc \/ Retired(c)')
    <2>1. c \in Context /\ c.frame \in Frames /\ c.doc # 0 /\ (doc[c.frame] = c.doc \/ Retired(c))
      BY <1>1, <1>3 DEF Live, Context
    <2>2. CASE Retired(c)
      BY <1>2, <2>1, <2>2 DEF Retired
    <2>3. CASE doc[c.frame] = c.doc /\ doc'[c.frame] = doc[c.frame]
      BY <2>1, <2>3
    <2>4. CASE doc[c.frame] = c.doc /\ doc'[c.frame] # doc[c.frame]
      <3>1. Retires(m, c)
        BY <2>1, <2>4 DEF Moves
      <3> QED BY <1>2, <2>1, <3>1 DEF Retired
    <2> QED BY <2>1, <2>2, <2>3, <2>4
  <1>4. \A f \in Frames : \A c \in frames'[f].contexts : c \in seen' \/ doc'[f] = None
    BY <1>1 DEF Live, Moves
  <1> QED BY <1>3, <1>4 DEF Live

LEMMA MovesAttended ==
    ASSUME TypeOK, Newest, Attended, NEW m, Moves(m)
    PROVE  Attended'
  <1>1. /\ wire \in Seq(Messages) /\ m \in Messages /\ wire' = Append(wire, m) /\ chain' = chain
        /\ UNCHANGED <<seen, frames, provides, walk, left, calls, ready, lost, unnamed>>
        /\ frames \in [Frames -> FrameState]
    BY Typed DEF Moves, Messages, TypeOK
  <1>2. /\ Coming' = Coming \cup {m}
        /\ \A i \in DOMAIN wire : i \in DOMAIN wire' /\ wire'[i] = wire[i]
    <2>1. Range(wire') = Range(wire) \cup {m} /\ \A i \in DOMAIN wire : i \in DOMAIN wire' /\ wire'[i] = wire[i]
      BY <1>1, Grown
    <2> QED BY <1>1, <2>1 DEF Coming
  <1>3. ASSUME ready, ~lost, NEW f \in Frames, Exists(f)' PROVE Attends(f)'
    <2>1. CASE doc'[f] = doc[f]
      <3>1. Exists(f) /\ Ctx(f, "main")' = Ctx(f, "main") /\ Ctx(f, "util")' = Ctx(f, "util") /\ News(f)' = News(f)
        BY <1>3, <2>1 DEF Exists, Ctx, News
      <3>2. Attends(f)
        BY <1>3, <3>1 DEF Attended
      <3>3. Provided(f) <=> Provided(f)'
        BY <1>1, <3>1 DEF Provided, Working, Current
      <3>4. (InNews(f) => InNews(f)') /\ (InTree(f) => InTree(f)') /\ (InWalk(f) => InWalk(f)')
        BY <1>1, <1>2, <3>1 DEF InNews, InTree, InWalk
      <3> QED BY <1>1, <2>1, <3>2, <3>3, <3>4 DEF Attends
    <2>2. CASE doc'[f] # doc[f]
      <3>1. m = News(f)' /\ doc'[f] \in Nat /\ doc[f] \in Nat /\ doc[f] <= doc'[f]
        BY <1>3, <2>2 DEF Moves, Exists
      <3>2. InNews(f)'
        BY <1>2, <3>1 DEF InNews
      <3>3. frames[f].loader \in Nat /\ frames[f].loader <= doc[f]
        <4>1. frames[f].loader \in Nat /\ Heard(f, frames[f].loader)
          BY <1>1 DEF FrameState, Heard
        <4> QED BY <3>1, <4>1 DEF Newest
      <3>4. frames'[f].loader # doc'[f]
        BY <1>1, <2>2, <3>1, <3>3
      <3> QED BY <3>2, <3>4 DEF Attends
    <2> QED BY <2>1, <2>2
  <1>4. (~ready' => \A f \in Frames : frames'[f].loader = 0) /\ (walk' = "broken" => lost')
    BY <1>1 DEF Attended
  <1> QED BY <1>1, <1>3, <1>4 DEF Attended

LEMMA Moved ==
    ASSUME TypeOK, Newest, SInv, NEW m, Moves(m)
    PROVE  SInv'
  BY MovesAnnounced, MovesAsking, MovesLive, MovesAttended DEF SInv

LEMMA CommitSettles ==
    ASSUME TypeOK, Newest, SInv, NEW f \in Frames, Commit(f)
    PROVE  SInv'
  <1>1. /\ doc[f] # None /\ loads' = loads + 1
        /\ doc' = [g \in Frames |-> IF g = f THEN loads + 1
                                    ELSE IF f = Main /\ Exists(g) THEN None ELSE doc[g]]
        /\ UNCHANGED <<calls, chain, ready, frames, provides, walk, left, seen, lost, unnamed>>
        /\ doc \in [Frames -> Documents] /\ loads \in Nat
    BY DEF Commit, TypeOK, plugin, client, fault
  <1>2. PICK m : m = [kind |-> "document", frame |-> f, doc |-> loads + 1]
    OBVIOUS
  <1>3. m \in Events /\ m.kind = "document" /\ m.frame = f /\ m.doc = loads + 1 /\ wire' = Append(wire, m)
    BY <1>1, <1>2 DEF Commit, Events
  <1>4. None \notin Nat
    BY ContextsAssumption
  <1>5. ASSUME NEW g \in Frames
        PROVE  /\ doc[g] = None => doc'[g] = None
               /\ doc[g] # 0 => doc'[g] # 0
               /\ doc'[g] \in Nat => doc[g] \in Nat /\ doc[g] <= doc'[g]
               /\ doc'[g] # doc[g] =>
                   /\ \A c \in Context : c.frame = g /\ c.doc = doc[g] => Retires(m, c)
                   /\ Exists(g)' => m = News(g)'
               /\ Exists(g)' => ~Undoes(m, g)'
    <2>1. CASE g = f
      <3>1. doc[g] \in Nat /\ doc[g] <= loads /\ doc'[g] = loads + 1
        BY <1>1, <2>1 DEF Documents, Newest
      <3>2. \A c \in Context : c.frame = g /\ c.doc = doc[g] => Retires(m, c)
        BY <1>1, <1>3, <2>1, <3>1 DEF Retires
      <3>3. m = News(g)'
        BY <1>2, <2>1, <3>1 DEF News
      <3>4. ~Undoes(m, g)'
        BY <1>3, <2>1, <3>1 DEF Undoes
      <3> QED BY <1>1, <1>4, <3>1, <3>2, <3>3, <3>4
    <2>2. CASE g # f /\ f = Main /\ Exists(g)
      <3>1. doc'[g] = None /\ ~Exists(g)'
        BY <1>1, <1>4, <2>2 DEF Exists
      <3>2. \A c \in Context : c.frame = g => Retires(m, c)
        BY <1>3, <2>2 DEF Retires
      <3> QED BY <1>4, <3>1, <3>2
    <2>3. CASE g # f /\ ~(f = Main /\ Exists(g))
      <3>1. doc'[g] = doc[g]
        BY <1>1, <2>3
      <3>2. Exists(g)' => ~Undoes(m, g)'
        BY <1>3, <2>3, <3>1 DEF Exists, Undoes
      <3>3. doc[g] \in Nat => doc[g] <= doc[g]
        OBVIOUS
      <3> QED BY <3>1, <3>2, <3>3
    <2> QED BY <2>1, <2>2, <2>3
  <1>6. Sound(m)'
    <2>1. m \notin Responses
      BY <1>3, Silent DEF Messages
    <2> QED BY <1>1, <1>3, <2>1 DEF Sound
  <1>7. Moves(m)
    BY <1>1, <1>3, <1>5, <1>6 DEF Moves
  <1> QED BY <1>7, Moved

LEMMA RemoveSettles ==
    ASSUME TypeOK, Newest, SInv, NEW f \in Frames, RemoveFrame(f)
    PROVE  SInv'
  <1>1. /\ Exists(f) /\ doc' = [doc EXCEPT ![f] = None]
        /\ UNCHANGED <<calls, chain, ready, frames, provides, walk, left, seen, lost, unnamed>>
        /\ doc \in [Frames -> Documents]
    BY DEF RemoveFrame, TypeOK, plugin, client, fault
  <1>2. PICK m : m = [kind |-> "removed", frame |-> f, doc |-> 0]
    OBVIOUS
  <1>3. m \in Events /\ m.kind = "removed" /\ m.frame = f /\ wire' = Append(wire, m)
    BY <1>1, <1>2 DEF RemoveFrame, Events
  <1>4. None \notin Nat
    BY ContextsAssumption
  <1>5. ASSUME NEW g \in Frames
        PROVE  /\ doc[g] = None => doc'[g] = None
               /\ doc[g] # 0 => doc'[g] # 0
               /\ doc'[g] \in Nat => doc[g] \in Nat /\ doc[g] <= doc'[g]
               /\ doc'[g] # doc[g] =>
                   /\ \A c \in Context : c.frame = g /\ c.doc = doc[g] => Retires(m, c)
                   /\ Exists(g)' => m = News(g)'
               /\ Exists(g)' => ~Undoes(m, g)'
    <2>0. ~Undoes(m, g)'
      BY <1>3 DEF Undoes
    <2>1. CASE g = f
      <3>1. doc'[g] = None /\ ~Exists(g)'
        BY <1>1, <1>4, <2>1 DEF Exists
      <3>2. \A c \in Context : c.frame = g => Retires(m, c)
        BY <1>3, <2>1 DEF Retires
      <3> QED BY <1>4, <3>1, <3>2
    <2>2. CASE g # f
      <3>1. doc'[g] = doc[g]
        BY <1>1, <2>2
      <3>2. doc[g] \in Nat => doc[g] <= doc[g]
        OBVIOUS
      <3> QED BY <2>0, <3>1, <3>2
    <2> QED BY <2>1, <2>2
  <1>6. Sound(m)'
    <2>1. m \notin Responses
      BY <1>3, Silent DEF Messages
    <2> QED BY <1>1, <1>3, <2>1 DEF Sound
  <1>7. Moves(m)
    BY <1>1, <1>3, <1>5, <1>6 DEF Moves
  <1> QED BY <1>7, Moved

(* The answer m to the call that Execute takes.                            *)
Answer(c, m) ==
    \/ c = TreeCall /\ m \in Trees /\ m.doc = doc
    \/ c # TreeCall /\ m \in Responses /\ (m.ctx # None => m.ctx.world = "iso")
    \/ /\ c # TreeCall /\ m \in Replies
       /\ m.ctx = None => doc[m.to.frame] = None
       /\ m.ctx # None => m.ctx = Ctx(m.to.frame, m.to.world) /\ Exists(m.to.frame)
       /\ ~m.named => m.ctx \in unnamed'

LEMMA ExecuteAnswers ==
    ASSUME TypeOK, Asking, Execute
    PROVE  /\ calls # <<>> /\ calls' = Tail(calls)
           /\ UNCHANGED <<doc, chain, ready, frames, provides, walk, left, seen, lost>>
           /\ unnamed \subseteq unnamed'
           /\ \E m \in Messages \ Events : wire' = Append(wire, m) /\ Answer(Head(calls), m)
  <1>1. /\ calls # <<>> /\ calls' = Tail(calls) /\ calls \in Seq(Calls) /\ doc \in [Frames -> Documents]
        /\ UNCHANGED <<doc, chain, ready, frames, provides, walk, left, seen, lost>>
        /\ unnamed \subseteq unnamed'
    BY Executes DEF Execute, TypeOK, browser, plugin, client
  <1>2. PICK c : c = Head(calls)
    OBVIOUS
  <1>3. 1 \in DOMAIN calls /\ calls[1] = c /\ c \in Calls
    BY <1>1, <1>2, Shrunk
  <1>4. \A n : n \in Trees \cup Responses \cup Replies => n \in Messages \ Events
    BY Silent DEF Messages
  <1>5. \A f \in Frames, w \in Worlds \cup {"iso"} : Exists(f) => Ctx(f, w) \in Context
    BY <1>1 DEF Exists, Ctx, Context
  <1>6. CASE c = TreeCall
    <2>1. wire' = Append(wire, [kind |-> "tree", doc |-> doc])
      BY <1>2, <1>6 DEF Execute, TreeCall, Call
    <2>2. [kind |-> "tree", doc |-> doc] \in Trees
      BY <1>1 DEF Trees
    <2> QED BY <1>1, <1>2, <1>4, <1>6, <2>1, <2>2 DEF Answer
  <1>7. ASSUME NEW f \in Frames, c = Call(f, "iso", None)
        PROVE  \E m \in Messages \ Events : wire' = Append(wire, m) /\ Answer(c, m)
    <2>1. PICK x : x = IF Exists(f) THEN Ctx(f, "iso") ELSE None
      OBVIOUS
    <2>2. wire' = Append(wire, [kind |-> "response", ctx |-> x])
      BY <1>2, <1>7, <2>1 DEF Execute, Call
    <2>3. x \in Context \cup {None} /\ (x # None => x.world = "iso")
      BY <1>5, <2>1 DEF Ctx
    <2>4. [kind |-> "response", ctx |-> x] \in Responses
      BY <2>3 DEF Responses
    <2>5. c # TreeCall
      BY <1>7 DEF Call, TreeCall
    <2> QED BY <1>4, <2>2, <2>3, <2>4, <2>5 DEF Answer
  <1>8. ASSUME NEW p \in Provision, c = Call(p.frame, p.world, p)
        PROVE  \E m \in Messages \ Events : wire' = Append(wire, m) /\ Answer(c, m)
    <2>1. p.frame \in Frames /\ p.world \in Worlds /\ p.world \notin {"tree", "iso"}
      BY DEF Provision, Worlds
    <2>2. PICK x : x = IF Exists(p.frame) THEN Ctx(p.frame, p.world) ELSE None
      OBVIOUS
    <2>3. PICK m : m = [kind |-> "reply", to |-> p, named |-> TRUE, ctx |-> x]
      OBVIOUS
    <2>4. c.world = p.world /\ c.frame = p.frame /\ c.to = p
      BY <1>8 DEF Call
    <2>5. \/ wire' = Append(wire, m)
          \/ /\ p.world = "main" /\ Exists(p.frame)
             /\ wire' = Append(wire, [kind |-> "reply", to |-> p, named |-> FALSE, ctx |-> x])
             /\ unnamed' = unnamed \cup {x}
      BY <1>2, <2>1, <2>2, <2>3, <2>4 DEF Execute
    <2>6. x \in Context \cup {None}
      BY <1>5, <2>1, <2>2
    <2>7. x = None => doc[p.frame] = None
      <3>1. doc[p.frame] # 0
        BY <1>3, <2>1, <2>4 DEF Asking
      <3>2. doc[p.frame] \in Nat \cup {None}
        BY <1>1, <2>1 DEF Documents
      <3>3. Exists(p.frame) => x # None
        <4>1. Exists(p.frame) => Ctx(p.frame, p.world) \in Context /\ x = Ctx(p.frame, p.world)
          BY <1>5, <2>1, <2>2
        <4>2. None \notin Context
          BY ContextsAssumption DEF Context, Worlds
        <4> QED BY <4>1, <4>2
      <3> QED BY <3>1, <3>2, <3>3 DEF Exists
    <2>8. x # None => x = Ctx(p.frame, p.world) /\ Exists(p.frame)
      BY <2>2
    <2>9. c # TreeCall
      BY <2>1, <2>4 DEF Call, TreeCall
    <2>10. CASE wire' = Append(wire, m)
      <3>1. m \in Replies /\ m.to = p /\ m.ctx = x /\ m.named
        BY <2>3, <2>6 DEF Replies
      <3> QED BY <1>4, <2>7, <2>8, <2>9, <2>10, <3>1 DEF Answer
    <2>11. CASE wire' # Append(wire, m)
      <3>1. PICK n : n = [kind |-> "reply", to |-> p, named |-> FALSE, ctx |-> x]
        OBVIOUS
      <3>2. n \in Replies /\ n.to = p /\ n.ctx = x
        BY <2>6, <3>1 DEF Replies
      <3>3. wire' = Append(wire, n) /\ x \in unnamed'
        BY <2>5, <2>11, <3>1
      <3> QED BY <1>4, <2>7, <2>8, <2>9, <3>2, <3>3 DEF Answer
    <2> QED BY <2>10, <2>11
  <1> QED BY <1>1, <1>2, <1>3, <1>6, <1>7, <1>8 DEF Calls

LEMMA ExecuteSettles ==
    ASSUME TypeOK, TreeFirst, SInv, Execute
    PROVE  SInv'
  <1>0. Announced /\ Asking /\ Live /\ Attended
    BY DEF SInv
  <1>1. /\ calls # <<>> /\ calls' = Tail(calls) /\ calls \in Seq(Calls) /\ wire \in Seq(Messages)
        /\ UNCHANGED <<doc, chain, ready, frames, provides, walk, left, seen, lost>>
        /\ unnamed \subseteq unnamed'
        /\ doc \in [Frames -> Documents] /\ \A i \in DOMAIN wire : wire[i] \in Messages
    BY <1>0, ExecuteAnswers, Typed DEF TypeOK
  <1>2. PICK c : c = Head(calls)
    OBVIOUS
  <1>3. PICK m \in Messages \ Events : wire' = Append(wire, m) /\ Answer(c, m)
    BY <1>0, <1>2, ExecuteAnswers
  <1>4. /\ 1 \in DOMAIN calls /\ calls[1] = c
        /\ \A i \in DOMAIN calls' : i \in Nat /\ i + 1 \in DOMAIN calls /\ 1 < i + 1 /\ calls'[i] = calls[i + 1]
        /\ \A i \in DOMAIN calls : i = 1 \/ (i - 1 \in DOMAIN calls' /\ calls'[i - 1] = calls[i])
    BY <1>1, <1>2, Shrunk
  <1>5. /\ Range(wire') = Range(wire) \cup {m}
        /\ \A i \in DOMAIN wire : i \in DOMAIN wire' /\ wire'[i] = wire[i] /\ i \in Nat
        /\ \A i \in DOMAIN wire' : i \in Nat /\ (i \in DOMAIN wire \/ wire'[i] = m)
    BY <1>1, <1>3, Grown
  <1>6. PICK last \in DOMAIN wire' : /\ wire'[last] = m /\ \A i \in DOMAIN wire : i < last
                                     /\ \A i \in DOMAIN wire' : i \in DOMAIN wire \/ i = last
    <2>1. wire' = Append(wire, m) /\ wire \in Seq(Messages) /\ m \in Messages
      BY <1>1, <1>3
    <2>2. \E j \in DOMAIN Append(wire, m) :
             /\ Append(wire, m)[j] = m /\ \A i \in DOMAIN wire : i < j
             /\ \A i \in DOMAIN Append(wire, m) : i \in DOMAIN wire \/ i = j
      BY <2>1, Grown
    <2> QED BY <2>1, <2>2
  <1>7. Coming' = Coming \cup {m}
    BY <1>1, <1>5 DEF Coming
  <1>8. \A f \in Frames : /\ Exists(f)' <=> Exists(f)
                          /\ News(f)' = News(f) /\ Ctx(f, "main")' = Ctx(f, "main") /\ Ctx(f, "util")' = Ctx(f, "util")
    BY <1>1 DEF Exists, News, Ctx
  <1>9. /\ m \in Trees => m \notin Responses \cup Replies
        /\ m \in Replies => m \notin Responses
    BY <1>3, Silent
  <1>10. Announced'
    <2>1. ASSUME NEW f \in Frames, Exists(f)' PROVE Followed(f)'
      <3>1. Followed(f)
        BY <1>0, <1>8, <2>1 DEF Announced
      <3>2. ~Undoes(m, f) /\ \A n : Undoes(n, f)' <=> Undoes(n, f)
        BY <1>1, <1>3 DEF Undoes
      <3>3. \A i \in DOMAIN chain' : Undoes(chain'[i], f) =>
               \/ \E j \in DOMAIN chain' : i < j /\ chain'[j] = News(f)
               \/ \E j \in DOMAIN wire' : wire'[j] = News(f)
        BY <1>1, <1>5, <3>1 DEF Followed
      <3>4. \A i \in DOMAIN wire' : Undoes(wire'[i], f) =>
               \E j \in DOMAIN wire' : i < j /\ wire'[j] = News(f)
        BY <1>5, <3>1, <3>2 DEF Followed
      <3> QED BY <1>8, <3>2, <3>3, <3>4 DEF Followed
    <2>2. ASSUME NEW n \in Coming' PROVE Sound(n)'
      <3>1. n \in Coming \/ n = m
        BY <1>7
      <3>2. Sound(m)
        BY <1>3, <1>9 DEF Sound, Answer
      <3> QED BY <1>0, <1>1, <3>1, <3>2 DEF Announced, Sound
    <2> QED BY <2>1, <2>2 DEF Announced
  <1>11. Asking'
    <2>1. \A i \in DOMAIN calls' : calls'[i].world \in Worlds => doc'[calls'[i].frame] # 0
      BY <1>0, <1>1, <1>4 DEF Asking
    <2>2. ASSUME NEW i \in DOMAIN wire', wire'[i] \in Replies
          PROVE  Truthful(wire[i], i)'
      <3>1. CASE i \in DOMAIN wire
        <4>1. wire'[i] = wire[i] /\ Truthful(wire[i], i)
          BY <1>0, <1>5, <2>2, <3>1 DEF Asking
        <4>2. PICK n : n = wire[i]
          OBVIOUS
        <4>3. Truthful(n, i) /\ wire'[i] = n
          BY <4>1, <4>2
        <4>4. (\E j \in DOMAIN wire : i < j /\ Retires(wire[j], n.ctx))
              => (\E j \in DOMAIN wire' : i < j /\ Retires(wire'[j], n.ctx))
          BY <1>5
        <4> QED BY <1>1, <4>3, <4>4 DEF Truthful
      <3>2. CASE i \notin DOMAIN wire
        <4>1. wire'[i] = m /\ m \in Replies
          BY <1>5, <2>2, <3>2
        <4>2. /\ ~m.named => m.ctx \in unnamed'
              /\ m.ctx = None => doc[m.to.frame] = None
              /\ m.ctx # None => m.ctx = Ctx(m.to.frame, m.to.world) /\ Exists(m.to.frame)
          BY <1>3, <1>9, <4>1 DEF Answer
        <4>3. m.ctx # None => /\ m.ctx.frame = m.to.frame /\ m.ctx.world = m.to.world
                              /\ m.ctx.doc = doc[m.to.frame] /\ m.ctx.doc # 0
                              /\ doc[m.ctx.frame] \in Nat => m.ctx.doc <= doc[m.ctx.frame]
          BY <4>2 DEF Ctx, Exists
        <4> QED BY <1>1, <4>1, <4>2, <4>3 DEF Truthful
      <3> QED BY <3>1, <3>2
    <2>3. ASSUME m \in Trees PROVE \A i \in DOMAIN wire : wire[i] \notin Trees
      <3>1. c = TreeCall
        BY <1>3, <1>9, <2>3 DEF Answer
      <3> QED BY <1>0, <1>4, <3>1 DEF Asking
    <2>4. \A i, j \in DOMAIN wire' : wire'[i] \in Trees /\ wire'[j] \in Trees => i = j
      BY <1>0, <1>5, <1>6, <2>3 DEF Asking
    <2>5. ASSUME NEW i \in DOMAIN wire', NEW j \in DOMAIN calls', wire'[i] \in Trees
          PROVE  calls'[j] # TreeCall
      <3>1. j + 1 \in DOMAIN calls /\ 1 < j + 1 /\ calls'[j] = calls[j + 1]
        BY <1>4
      <3> QED BY <1>4, <3>1 DEF TreeFirst
    <2> QED BY <1>0, <1>1, <2>1, <2>2, <2>4, <2>5 DEF Asking
  <1>12. Live'
    <2>1. \A e : Retired(e) => Retired(e)'
      BY <1>7 DEF Retired
    <2> QED BY <1>0, <1>1, <2>1 DEF Live
  <1>13. Attended'
    <2>1. ASSUME ready, ~lost, NEW f \in Frames, Exists(f)' PROVE Attends(f)'
      <3>1. Attends(f)
        BY <1>0, <1>8, <2>1 DEF Attended
      <3>2. Provided(f) => Provided(f)'
        BY <1>1, <1>8 DEF Provided, Working, Current
      <3>3. (InNews(f) => InNews(f)') /\ (InWalk(f) => InWalk(f)')
        BY <1>1, <1>7, <1>8 DEF InNews, InWalk
      <3>4. ASSUME InTree(f) PROVE InTree(f)'
        <4>1. CASE \E i \in DOMAIN wire : wire[i] \in Trees /\ wire[i].doc[f] \in Nat \ {0}
          BY <1>1, <1>5, <3>4, <4>1 DEF InTree
        <4>2. ASSUME NEW i \in DOMAIN calls, calls[i] = TreeCall PROVE InTree(f)'
          <5>1. CASE i # 1
            BY <1>1, <1>4, <3>4, <4>2, <5>1 DEF InTree
          <5>2. CASE i = 1
            <6>1. m \in Trees /\ m.doc = doc
              BY <1>3, <1>4, <4>2, <5>2 DEF Answer
            <6>2. doc[f] \in Nat \ {0}
              BY <1>8, <2>1 DEF Exists
            <6> QED BY <1>1, <1>6, <3>4, <6>1, <6>2 DEF InTree
          <5> QED BY <5>1, <5>2
        <4> QED BY <3>4, <4>1, <4>2 DEF InTree
      <3> QED BY <1>1, <3>1, <3>2, <3>3, <3>4 DEF Attends
    <2> QED BY <1>0, <1>1, <2>1 DEF Attended
  <1> QED BY <1>10, <1>11, <1>12, <1>13 DEF SInv

(* The calls are those there were and some that are not for the tree.      *)
Adds ==
    /\ \A i \in DOMAIN calls : i \in DOMAIN calls' /\ calls'[i] = calls[i]
    /\ \A i \in DOMAIN calls' :
           i \in DOMAIN calls \/ (calls'[i] # TreeCall /\ (calls'[i].world \in Worlds => doc[calls'[i].frame] # 0))

LEMMA OneMore ==
    ASSUME TypeOK, NEW c \in Calls, calls' = Append(calls, c), c # TreeCall, c.world \in Worlds => doc[c.frame] # 0
    PROVE  Adds
  <1>1. calls \in Seq(Calls)
    BY DEF TypeOK
  <1>2. /\ \A i \in DOMAIN calls : i \in DOMAIN calls' /\ calls'[i] = calls[i]
        /\ \A i \in DOMAIN calls' : i \in DOMAIN calls \/ calls'[i] = c
    BY <1>1, Grown
  <1> QED BY <1>2 DEF Adds

LEMMA Unsaid ==
    ASSUME Announced, UNCHANGED <<doc, chain, wire>>
    PROVE  Announced'
  <1>1. Coming' = Coming /\ \A f \in Frames : (Exists(f)' <=> Exists(f)) /\ (Followed(f)' <=> Followed(f))
    BY DEF Coming, Followed, Undoes, News, Exists
  <1> QED BY <1>1 DEF Announced, Sound

LEMMA StillAsking ==
    ASSUME Asking, Adds, UNCHANGED <<doc, wire, unnamed>>, left' \subseteq left
    PROVE  Asking'
  <1>1. \A i : Truthful(wire[i], i)' <=> Truthful(wire[i], i)
    BY DEF Truthful
  <1>2. \A i \in DOMAIN calls' : calls'[i].world \in Worlds => doc'[calls'[i].frame] # 0
    BY DEF Asking, Adds
  <1>3. \A i \in DOMAIN wire', j \in DOMAIN calls' : wire'[i] \in Trees => calls'[j] # TreeCall
    BY DEF Asking, Adds
  <1> QED BY <1>1, <1>2, <1>3 DEF Asking

(* A frame nothing is taken from is attended to as before.                 *)
LEMMA Spared ==
    ASSUME NEW f \in Frames, doc'[f] = doc[f], Attends(f), unnamed' = unnamed,
           frames'[f].loader = frames[f].loader, frames'[f].gen = frames[f].gen,
           \A p \in provides : p.frame = f => p \in provides',
           \A c \in seen : c.frame = f => c \in seen',
           InNews(f) => InNews(f)',
           frames[f].loader = 0 /\ (InTree(f) \/ InWalk(f)) => (InNews(f) \/ InTree(f) \/ InWalk(f))'
    PROVE  Attends(f)'
  <1>1. Ctx(f, "main")' = Ctx(f, "main") /\ Ctx(f, "util")' = Ctx(f, "util")
        /\ Ctx(f, "main").frame = f /\ Ctx(f, "util").frame = f
    BY DEF Ctx
  <1>2. \A w : Working(f, w) => Working(f, w)'
    BY DEF Working, Current
  <1>3. Provided(f) => Provided(f)'
    BY <1>1, <1>2 DEF Provided
  <1> QED BY <1>3 DEF Attends

(* What provide leaves of the frames, the client and the calls it was given. *)
LEMMA Provisions ==
    ASSUME TypeOK, NEW f \in Frames, NEW d \in Nat, NEW w \in BOOLEAN,
           NEW fs \in [Frames -> FrameState], NEW s, Provide(f, d, w, fs, s), doc[f] # 0,
           \A c \in fs[f].contexts : c.frame = f
    PROVE  /\ Adds /\ provides \subseteq provides'
           /\ seen' \subseteq s /\ \A c \in s : c.frame # f => c \in seen'
           /\ frames'[f].loader = d /\ \A g \in Frames \ {f} : frames'[g] = fs[g]
           /\ \A g \in Frames : \A c \in frames'[g].contexts :
                 c \in fs[g].contexts /\ (c \in s /\ c.frame = g => c \in seen')
           /\ \/ fs[f].loader = d /\ frames' = fs /\ seen' = s /\ provides' = provides
              \/ Working(f, "main")'
  <1>1. CASE fs[f].loader = d
    <2>1. frames' = fs /\ seen' = s /\ UNCHANGED <<provides, calls>>
      BY <1>1 DEF Provide
    <2>2. Adds
      BY <2>1 DEF Adds
    <2> QED BY <1>1, <2>1, <2>2
  <1>2. CASE fs[f].loader # d
    <2>1. PICK p : p = [frame |-> f, doc |-> d, gen |-> fs[f].gen, walking |-> w, world |-> "main"]
      OBVIOUS
    <2>2. /\ frames' = [fs EXCEPT ![f].loader = d, ![f].contexts = {}]
          /\ seen' = s \ fs[f].contexts /\ provides' = provides \cup {p}
          /\ calls' = Append(calls, Call(f, "main", p))
      BY <1>2, <2>1 DEF Provide
    <2>3. fs[f] \in FrameState /\ fs[f].gen \in Nat
      BY DEF FrameState
    <2>4. p \in Provision /\ p.frame = f /\ p.world = "main" /\ p.doc = d /\ p.gen = fs[f].gen
      BY <2>1, <2>3 DEF Provision, Worlds
    <2>5. Adds
      <3>1. Call(f, "main", p) = Call(p.frame, p.world, p) /\ Call(f, "main", p).frame = f
            /\ Call(f, "main", p).world = "main"
        BY <2>4 DEF Call
      <3>2. Call(f, "main", p) \in Calls /\ Call(f, "main", p) # TreeCall
        BY <2>4, <3>1 DEF Calls, TreeCall, Call
      <3> QED BY <2>2, <3>1, <3>2, OneMore
    <2>6. /\ frames'[f].loader = d /\ frames'[f].gen = fs[f].gen /\ frames'[f].contexts = {}
          /\ \A g \in Frames \ {f} : frames'[g] = fs[g]
      BY <2>2, <2>3 DEF FrameState
    <2>7. Working(f, "main")'
      BY <2>2, <2>4, <2>6 DEF Working, Current
    <2>8. \A g \in Frames : \A c \in frames'[g].contexts :
             c \in fs[g].contexts /\ (c \in s /\ c.frame = g => c \in seen')
      BY <2>2, <2>6
    <2> QED BY <2>2, <2>5, <2>6, <2>7, <2>8
  <1> QED BY <1>1, <1>2

LEMMA TimeoutSettles ==
    ASSUME SInv, Timeout
    PROVE  SInv'
  <1>1. /\ UNCHANGED <<doc, calls, wire, chain, ready, frames, left, seen, unnamed>> /\ lost' = TRUE
    BY DEF Timeout, browser, client
  <1>2. Announced' /\ Asking'
    BY <1>1, Unsaid, StillAsking DEF SInv, Adds
  <1>3. Live'
    BY <1>1 DEF SInv, Live, Retired, Coming
  <1>4. Attended'
    BY <1>1 DEF SInv, Attended
  <1> QED BY <1>2, <1>3, <1>4 DEF SInv

LEMMA EnableSettles ==
    ASSUME TypeOK, Asleep, SInv, EnableRuntime
    PROVE  SInv'
  <1>1. /\ UNCHANGED <<doc, wire, chain, frames, provides, left, seen, lost, unnamed>>
        /\ ~ready /\ ready' = TRUE /\ walk' = "tree" /\ calls' = Append(calls, TreeCall)
    BY DEF EnableRuntime, browser, client, fault, TreeCall
  <1>2. calls = <<>> /\ calls' = <<TreeCall>> /\ left = {} /\ \A i \in DOMAIN wire : wire[i] \in Events
    BY <1>1 DEF Asleep
  <1>3. Announced'
    BY <1>1, Unsaid DEF SInv
  <1>4. Asking'
    <2>1. \A i \in DOMAIN wire : wire[i] \notin Trees \cup Replies
      BY <1>2, Silent DEF Messages
    <2>2. \A i \in DOMAIN calls' : calls'[i].world \notin Worlds
      BY <1>2 DEF TreeCall, Call, Worlds
    <2> QED BY <1>1, <1>2, <2>1, <2>2 DEF Asking
  <1>5. Live'
    BY <1>1 DEF SInv, Live, Retired, Coming
  <1>6. Attended'
    <2>1. ASSUME NEW f \in Frames, Exists(f)' PROVE Attends(f)'
      <3>1. frames'[f].loader = 0 /\ doc'[f] # 0
        BY <1>1, <2>1 DEF SInv, Attended, Exists
      <3>2. InTree(f)'
        BY <1>1, <1>2 DEF InTree
      <3> QED BY <3>1, <3>2 DEF Attends
    <2> QED BY <1>1, <2>1 DEF Attended
  <1> QED BY <1>3, <1>4, <1>5, <1>6 DEF SInv

LEMMA CreateSettles ==
    ASSUME TypeOK, SInv, NEW f \in Frames, CreateIsolatedWorld(f)
    PROVE  SInv'
  <1>1. /\ UNCHANGED <<doc, wire, chain, ready, frames, provides, walk, left, seen, lost, unnamed>>
        /\ calls' = Append(calls, Call(f, "iso", None))
    BY DEF CreateIsolatedWorld, browser, plugin, client, fault
  <1>2. Adds
    <2>1. Call(f, "iso", None) \in Calls /\ Call(f, "iso", None) # TreeCall /\ Call(f, "iso", None).world \notin Worlds
      BY DEF Calls, Call, TreeCall, Worlds
    <2> QED BY <1>1, <2>1, OneMore
  <1>3. Announced' /\ Asking'
    BY <1>1, <1>2, Unsaid, StillAsking DEF SInv
  <1>4. Live'
    BY <1>1 DEF SInv, Live, Retired, Coming
  <1>5. Attended'
    <2>1. ASSUME ready, ~lost, NEW g \in Frames, Exists(g)' PROVE Attends(g)'
      <3>1. Attends(g) /\ doc'[g] = doc[g]
        BY <1>1, <2>1 DEF SInv, Attended, Exists
      <3>2. (InNews(g) => InNews(g)') /\ (InTree(g) => InTree(g)') /\ (InWalk(g) => InWalk(g)')
        BY <1>1, <1>2 DEF InNews, InTree, InWalk, Coming, News, Adds
      <3> QED BY <1>1, <3>1, <3>2, Spared
    <2> QED BY <1>1, <2>1 DEF SInv, Attended
  <1> QED BY <1>3, <1>4, <1>5 DEF SInv

LEMMA WalkSettles ==
    ASSUME TypeOK, Asleep, Kept, Newest, SInv, WalkOn
    PROVE  SInv'
  <1>0. Announced /\ Asking /\ Live /\ Attended
    BY DEF SInv
  <1>1. /\ walk = "on" /\ UNCHANGED <<doc, wire, chain, ready, lost, unnamed>>
        /\ left \subseteq (DOMAIN Tree) \X Nat /\ frames \in [Frames -> FrameState] /\ seen \subseteq Context
    BY DEF WalkOn, browser, fault, TypeOK
  <1>2. Announced' /\ \A g \in Frames : InNews(g)' <=> InNews(g)
    BY <1>0, <1>1, Unsaid DEF InNews, Coming, News
  <1>3. CASE left = {}
    <2>1. walk' = "over" /\ UNCHANGED <<left, frames, seen, provides, calls>>
      BY <1>3 DEF WalkOn
    <2>2. Asking'
      BY <1>0, <1>1, <2>1, StillAsking DEF Adds
    <2>3. Live'
      BY <1>0, <1>1, <2>1 DEF Live, Retired, Coming
    <2>4. ASSUME ready, ~lost, NEW g \in Frames, Exists(g)' PROVE Attends(g)'
      <3>1. Attends(g) /\ doc'[g] = doc[g] /\ ~InTree(g) /\ ~InWalk(g)
        BY <1>0, <1>1, <1>3, <2>4 DEF Attended, Exists, InTree, InWalk
      <3> QED BY <1>1, <1>2, <2>1, <3>1, Spared
    <2>5. Attended'
      BY <1>0, <1>1, <2>1, <2>4 DEF Attended
    <2> QED BY <1>2, <2>2, <2>3, <2>5 DEF SInv
  <1>4. CASE left # {}
    <2>1. PICK e \in left : /\ left' = left \ {e} /\ UNCHANGED walk
                            /\ Provide(Tree[e[1]], e[2], TRUE, frames, seen)
      BY <1>4 DEF WalkOn
    <2>2. PICK i \in DOMAIN Tree, d \in Nat : e = <<i, d>>
      BY <1>1, <2>1
    <2>3. PICK f \in Frames : f = Tree[i]
      BY TreeFacts
    <2>4. Provide(f, d, TRUE, frames, seen) /\ <<i, d>> \in left /\ d # 0
      BY <1>0, <2>1, <2>2, <2>3 DEF Asking
    <2>5. doc[f] # 0
      <3>1. Heard(f, d)
        BY <2>3, <2>4 DEF Heard
      <3>2. doc[f] \in Nat => d <= doc[f]
        BY <3>1 DEF Newest
      <3> QED BY <2>4, <3>2
    <2>6. \A g \in Frames : \A c \in frames[g].contexts : c.frame = g
      BY DEF Kept
    <2>7. TRUE \in BOOLEAN
      OBVIOUS
    <2>8. /\ Adds /\ provides \subseteq provides'
          /\ seen' \subseteq seen /\ \A c \in seen : c.frame # f => c \in seen'
          /\ frames'[f].loader = d /\ \A g \in Frames \ {f} : frames'[g] = frames[g]
          /\ \A g \in Frames : \A c \in frames'[g].contexts :
                 c \in frames[g].contexts /\ (c \in seen /\ c.frame = g => c \in seen')
          /\ \/ frames[f].loader = d /\ frames' = frames /\ seen' = seen /\ provides' = provides
             \/ Working(f, "main")'
      BY <1>1, <2>4, <2>5, <2>6, <2>7, Provisions
    <2>9. Asking'
      BY <1>0, <1>1, <2>1, <2>8, StillAsking
    <2>10. Live'
      <3>1. \A c \in seen' : c.world \in Worlds => c.doc # 0 /\ (doc'[c.frame] = c.doc \/ Retired(c)')
        BY <1>0, <1>1, <2>8 DEF Live, Retired, Coming
      <3>2. \A g \in Frames : \A c \in frames'[g].contexts : c \in seen' \/ doc'[g] = None
        BY <1>0, <1>1, <2>6, <2>8 DEF Live
      <3> QED BY <3>1, <3>2 DEF Live
    <2>11. ASSUME ready, ~lost, NEW g \in Frames, Exists(g)' PROVE Attends(g)'
      <3>1. Attends(g) /\ doc'[g] = doc[g] /\ ~InTree(g)
        BY <1>0, <1>1, <2>11 DEF Attended, Exists, InTree
      <3>2. CASE g # f
        <4>1. InWalk(g) => InWalk(g)'
          BY <2>1, <2>2, <2>3, <3>2 DEF InWalk
        <4> QED BY <1>1, <1>2, <2>8, <3>1, <3>2, <4>1, Spared
      <3>3. CASE g = f /\ Working(f, "main")'
        <4>1. Provided(f)'
          BY <3>3 DEF Provided
        <4> QED BY <2>4, <2>8, <3>3, <4>1 DEF Attends
      <3>4. CASE g = f /\ frames[f].loader = d /\ frames' = frames /\ seen' = seen /\ provides' = provides
        BY <1>1, <1>2, <2>4, <3>1, <3>4, Spared
      <3> QED BY <2>8, <3>2, <3>3, <3>4
    <2>12. Attended'
      <3>1. ready
        BY <1>1 DEF Asleep, TypeOK
      <3>2. ready' = ready /\ lost' = lost /\ walk' = "on"
        BY <1>1, <2>1
      <3> QED BY <2>11, <3>1, <3>2 DEF Attended
    <2> QED BY <1>2, <2>9, <2>10, <2>12 DEF SInv
  <1> QED BY <1>3, <1>4

(* The message at hand leaves the wire, for the chain if it is an event or  *)
(* a response.                                                             *)
Takes(m) ==
    /\ wire # <<>> /\ m = Head(wire) /\ wire' = Tail(wire) /\ UNCHANGED <<doc, unnamed>>
    /\ \/ m \in Replies \cup Trees /\ chain' = chain
       \/ m \in Events \cup Responses /\ chain' = Append(chain, m)

LEMMA TakenOff ==
    ASSUME TypeOK, NEW m, Takes(m)
    PROVE  /\ 1 \in DOMAIN wire /\ wire[1] = m /\ m \in Messages
           /\ \A i \in DOMAIN wire' : i \in Nat /\ i + 1 \in DOMAIN wire /\ 1 < i + 1 /\ wire'[i] = wire[i + 1]
           /\ \A i \in DOMAIN wire : i = 1 \/ (i \in Nat /\ i > 1 /\ i - 1 \in DOMAIN wire' /\ wire'[i - 1] = wire[i])
           /\ Range(wire) = Range(wire') \cup {m}
           /\ Coming = Coming' \cup {m} /\ (m \in Events \cup Responses => Coming' = Coming)
  <1>1. /\ wire \in Seq(Messages) /\ chain \in Seq(Messages) /\ wire # <<>> /\ m = Head(wire) /\ wire' = Tail(wire)
    BY Typed DEF Takes
  <1>2. /\ 1 \in DOMAIN wire /\ wire[1] = m /\ m \in Messages
        /\ \A i \in DOMAIN wire' : i \in Nat /\ i + 1 \in DOMAIN wire /\ 1 < i + 1 /\ wire'[i] = wire[i + 1]
        /\ \A i \in DOMAIN wire : i = 1 \/ (i \in Nat /\ i > 1 /\ i - 1 \in DOMAIN wire' /\ wire'[i - 1] = wire[i])
        /\ Range(wire) = Range(wire') \cup {m}
    BY <1>1, Shrunk
  <1>3. CASE m \in Replies \cup Trees /\ chain' = chain
    <2>1. m \notin Events \cup Responses
      BY <1>2, <1>3, Silent
    <2> QED BY <1>2, <1>3, <2>1 DEF Coming
  <1>4. CASE m \in Events \cup Responses /\ chain' = Append(chain, m)
    <2>1. Range(chain') = Range(chain) \cup {m}
      BY <1>1, <1>2, <1>4, Grown
    <2> QED BY <1>2, <2>1 DEF Coming
  <1> QED BY <1>3, <1>4 DEF Takes

LEMMA TakesAnnounced ==
    ASSUME TypeOK, Announced, NEW m, Takes(m)
    PROVE  Announced'
  <1>1. /\ wire[1] = m /\ m \in Messages
        /\ \A i \in DOMAIN wire' : i \in Nat /\ i + 1 \in DOMAIN wire /\ 1 < i + 1 /\ wire'[i] = wire[i + 1]
        /\ \A i \in DOMAIN wire : i = 1 \/ (i \in Nat /\ i > 1 /\ i - 1 \in DOMAIN wire' /\ wire'[i - 1] = wire[i])
        /\ Coming = Coming' \cup {m} /\ 1 \in DOMAIN wire
    BY TakenOff
  <1>2. doc' = doc /\ chain \in Seq(Messages)
    BY Typed DEF Takes
  <1>3. ASSUME NEW f \in Frames, Exists(f)' PROVE Followed(f)'
    <2>1. Exists(f) /\ News(f)' = News(f) /\ \A n : Undoes(n, f)' <=> Undoes(n, f)
      BY <1>2, <1>3 DEF Exists, News, Undoes
    <2>2. Followed(f)
      BY <2>1 DEF Announced
    <2>3. News(f) \in Events
      BY <2>1 DEF News, Events, Exists
    <2>4. ASSUME NEW i \in DOMAIN wire', Undoes(wire'[i], f)
          PROVE  \E j \in DOMAIN wire' : i < j /\ wire'[j] = News(f)
      <3>1. i + 1 \in DOMAIN wire /\ Undoes(wire[i + 1], f) /\ i \in Nat
        BY <1>1, <2>4
      <3>2. PICK j \in DOMAIN wire : i + 1 < j /\ wire[j] = News(f)
        BY <2>2, <3>1 DEF Followed
      <3>3. j \in Nat /\ j - 1 \in DOMAIN wire' /\ wire'[j - 1] = News(f)
        BY <1>1, <3>1, <3>2
      <3> QED BY <3>1, <3>2, <3>3
    <2>5. CASE m \in Replies \cup Trees /\ chain' = chain
      <3>1. m \notin Events
        BY <1>1, <2>5, Silent
      <3>2. ASSUME NEW i \in DOMAIN chain', Undoes(chain'[i], f)
            PROVE  \/ \E j \in DOMAIN chain' : i < j /\ chain'[j] = News(f)
                   \/ \E j \in DOMAIN wire' : wire'[j] = News(f)
        <4>1. CASE \E j \in DOMAIN chain : i < j /\ chain[j] = News(f)
          BY <2>5, <4>1
        <4>2. ASSUME NEW j \in DOMAIN wire, wire[j] = News(f)
              PROVE  \E k \in DOMAIN wire' : wire'[k] = News(f)
          BY <1>1, <2>3, <3>1, <4>2
        <4> QED BY <2>2, <2>5, <3>2, <4>1, <4>2 DEF Followed
      <3> QED BY <2>1, <2>4, <3>2 DEF Followed
    <2>6. CASE m \in Events \cup Responses /\ chain' = Append(chain, m)
      <3>1. /\ \A i \in DOMAIN chain : i \in DOMAIN chain' /\ chain'[i] = chain[i]
            /\ \A i \in DOMAIN chain' : i \in DOMAIN chain \/ chain'[i] = m
        BY <1>1, <1>2, <2>6, Grown
      <3>2. PICK last \in DOMAIN chain' : chain'[last] = m /\ \A i \in DOMAIN chain : i < last
        BY <1>1, <1>2, <2>6, Grown
      <3>3. ASSUME NEW i \in DOMAIN chain', Undoes(chain'[i], f)
            PROVE  \/ \E j \in DOMAIN chain' : i < j /\ chain'[j] = News(f)
                   \/ \E j \in DOMAIN wire' : wire'[j] = News(f)
        <4>1. CASE i \in DOMAIN chain
          <5>1. CASE \E j \in DOMAIN chain : i < j /\ chain[j] = News(f)
            BY <3>1, <5>1
          <5>2. ASSUME NEW j \in DOMAIN wire, wire[j] = News(f)
                PROVE  \/ \E k \in DOMAIN chain' : i < k /\ chain'[k] = News(f)
                       \/ \E k \in DOMAIN wire' : wire'[k] = News(f)
            <6>1. CASE j = 1
              BY <1>1, <3>2, <4>1, <5>2, <6>1
            <6>2. CASE j # 1
              BY <1>1, <5>2, <6>2
            <6> QED BY <6>1, <6>2
          <5>3. Undoes(chain[i], f)
            BY <3>1, <3>3, <4>1
          <5> QED BY <2>2, <4>1, <5>1, <5>2, <5>3 DEF Followed
        <4>2. CASE i \notin DOMAIN chain
          <5>1. Undoes(wire[1], f)
            BY <1>1, <3>1, <3>3, <4>2
          <5>2. PICK j \in DOMAIN wire : 1 < j /\ wire[j] = News(f)
            BY <1>1, <2>2, <5>1 DEF Followed
          <5> QED BY <1>1, <5>2
        <4> QED BY <4>1, <4>2
      <3> QED BY <2>1, <2>4, <3>3 DEF Followed
    <2> QED BY <2>5, <2>6 DEF Takes
  <1>4. \A n \in Coming' : Sound(n)'
    BY <1>1, <1>2 DEF Announced, Sound
  <1> QED BY <1>3, <1>4 DEF Announced

LEMMA TakesAsking ==
    ASSUME TypeOK, Asking, NEW m, Takes(m), Adds, \A e \in left' : e[2] # 0
    PROVE  Asking'
  <1>1. /\ \A i \in DOMAIN wire' : i \in Nat /\ i + 1 \in DOMAIN wire /\ 1 < i + 1 /\ wire'[i] = wire[i + 1]
        /\ \A i \in DOMAIN wire : i = 1 \/ (i \in Nat /\ i > 1 /\ i - 1 \in DOMAIN wire' /\ wire'[i - 1] = wire[i])
        /\ doc' = doc
    BY TakenOff DEF Takes
  <1>2. \A i \in DOMAIN calls' : calls'[i].world \in Worlds => doc'[calls'[i].frame] # 0
    BY <1>1 DEF Asking, Adds
  <1>3. ASSUME NEW i \in DOMAIN wire', wire'[i] \in Replies
        PROVE  Truthful(wire[i], i)'
    <2>1. i \in Nat /\ i + 1 \in DOMAIN wire /\ wire[i + 1] \in Replies /\ wire'[i] = wire[i + 1]
      BY <1>1, <1>3
    <2>2. PICK n : n = wire[i + 1]
      OBVIOUS
    <2>3. Truthful(n, i + 1) /\ wire'[i] = n
      BY <2>1, <2>2 DEF Asking
    <2>4. ASSUME NEW j \in DOMAIN wire, i + 1 < j, Retires(wire[j], n.ctx)
          PROVE  \E k \in DOMAIN wire' : i < k /\ Retires(wire'[k], n.ctx)
      <3>1. j \in Nat /\ j - 1 \in DOMAIN wire' /\ wire'[j - 1] = wire[j]
        BY <1>1, <2>1, <2>4
      <3> QED BY <2>1, <2>4, <3>1
    <2>5. unnamed' = unnamed
      BY DEF Takes
    <2> QED BY <1>1, <2>3, <2>4, <2>5 DEF Truthful
  <1>4. ASSUME NEW i \in DOMAIN wire', NEW j \in DOMAIN wire', wire'[i] \in Trees, wire'[j] \in Trees
        PROVE  i = j
    <2>1. i + 1 = j + 1
      BY <1>1, <1>4 DEF Asking
    <2> QED BY <1>1, <2>1
  <1>5. \A i \in DOMAIN wire', j \in DOMAIN calls' : wire'[i] \in Trees => calls'[j] # TreeCall
    BY <1>1 DEF Asking, Adds
  <1> QED BY <1>2, <1>3, <1>4, <1>5 DEF Asking

(* What announcing c leaves of the frames and the client.                  *)
LEMMA Told ==
    ASSUME TypeOK, Live, NEW c \in Context, Announce(c)
    PROVE  /\ seen \subseteq seen' /\ seen' \subseteq seen \cup {c}
           /\ \A g \in Frames : frames'[g].loader = frames[g].loader /\ frames'[g].gen = frames[g].gen
           /\ c \in seen' \/ doc[c.frame] = None
           /\ \A g \in Frames : \A e \in frames'[g].contexts : e \in seen' \/ doc[g] = None
  <1>1. /\ frames' = [frames EXCEPT ![c.frame].contexts = @ \cup {c}]
        /\ seen' = IF c \in frames[c.frame].contexts THEN seen ELSE seen \cup {c}
        /\ frames \in [Frames -> FrameState] /\ c.frame \in Frames
    BY DEF Announce, TypeOK, Context
  <1>2. /\ \A g \in Frames : frames'[g].loader = frames[g].loader /\ frames'[g].gen = frames[g].gen
        /\ \A g \in Frames : frames'[g].contexts = IF g = c.frame THEN frames[g].contexts \cup {c}
                                                   ELSE frames[g].contexts
    BY <1>1 DEF FrameState
  <1>3. c \in seen' \/ doc[c.frame] = None
    BY <1>1 DEF Live
  <1>4. \A g \in Frames : \A e \in frames'[g].contexts : e \in seen' \/ doc[g] = None
    BY <1>1, <1>2, <1>3 DEF Live
  <1> QED BY <1>1, <1>2, <1>3, <1>4

LEMMA EveryFrame == \A f \in Frames : \E k \in DOMAIN Tree : Tree[k] = f
  <1>1. Subs \in Seq(Range(Subs))
    BY ContextsAssumption
  <1>2. Len(Tree) = 1 + Len(Subs) /\ Tree[1] = Main /\ DOMAIN Tree = 1..1 + Len(Subs)
        /\ Len(Subs) \in Nat /\ DOMAIN Subs = 1..Len(Subs)
        /\ \A i \in 1..Len(Subs) : Tree[1 + i] = Subs[i]
    BY <1>1 DEF Tree
  <1>3. \A i \in DOMAIN Subs : 1 + i \in DOMAIN Tree /\ Tree[1 + i] = Subs[i]
    BY <1>2
  <1>4. 1 \in DOMAIN Tree
    BY <1>2
  <1> QED BY <1>2, <1>3, <1>4 DEF Frames, Range

(* A context of a frame that has moved on since has news of it behind.     *)
LEMMA Overtaken ==
    ASSUME TypeOK, Announced, NEW f \in Frames, Exists(f), NEW i \in DOMAIN wire, NEW c \in Context,
           c.frame = f, Retires(wire[i], c)
    PROVE  \E j \in DOMAIN wire : i <= j /\ wire[j] = News(f)
  <1>1. PICK n : n = wire[i]
    OBVIOUS
  <1>2. n \in Events /\ Retires(n, c) /\ n \in Coming /\ i \in Nat /\ doc[f] \in Nat
    BY <1>1 DEF Retires, Coming, Range, TypeOK, Exists
  <1>3. CASE n.kind = "removed"
    <2>1. doc[f] = None
      BY <1>2, <1>3 DEF Retires, Announced, Sound
    <2> QED BY <1>2, <2>1, ContextsAssumption
  <1>4. CASE Undoes(n, f)
    <2>1. PICK j \in DOMAIN wire : i < j /\ wire[j] = News(f)
      BY <1>1, <1>4 DEF Announced, Followed
    <2>2. j \in Nat
      BY DEF TypeOK
    <2> QED BY <1>2, <2>1, <2>2
  <1>5. CASE n.kind = "document" /\ ~Undoes(n, f)
    <2>1. n.frame = f /\ n.doc = doc[f]
      BY <1>2, <1>5 DEF Retires, Undoes
    <2>2. n = News(f)
      BY <1>2, <1>5, <2>1 DEF News, Events
    <2>3. wire[i] = News(f) /\ i <= i
      BY <1>1, <1>2, <2>2
    <2> QED BY <2>3
  <1> QED BY <1>2, <1>3, <1>4, <1>5 DEF Events

LEMMA ReplySettles ==
    ASSUME TypeOK, Newest, InTurn, Announced, Asking, Live, Attended, NEW m \in Replies, Takes(m),
           UNCHANGED <<left, ready, unnamed>>, m.to \in provides, Settle(m.to, m.ctx, m.named)
    PROVE  Asking' /\ Live' /\ Attended'
  <1>1. /\ 1 \in DOMAIN wire /\ wire[1] = m /\ m \in Messages /\ doc' = doc
        /\ \A i \in DOMAIN wire : i = 1 \/ (i \in Nat /\ i > 1 /\ i - 1 \in DOMAIN wire' /\ wire'[i - 1] = wire[i])
        /\ Coming = Coming' \cup {m} /\ m \notin Events \cup Trees
    BY TakenOff, Silent DEF Takes
  <1>2. PICK p \in provides : p = m.to
    OBVIOUS
  <1>3. PICK c : c = m.ctx
    OBVIOUS
  <1>4. Settle(p, c, m.named) /\ p \in Provision /\ p.frame \in Frames /\ p.world \in Worlds /\ c \in Context \cup {None}
    BY <1>2, <1>3, Kinds DEF Provision
  <1>5. Truthful(m, 1)
    BY <1>1 DEF Asking
  <1>6. c = None => doc[p.frame] = None
    BY <1>2, <1>3, <1>5 DEF Truthful
  <1>7. ASSUME c # None
        PROVE  /\ c \in Context /\ c.frame = p.frame /\ c.world = p.world /\ c.doc # 0 /\ c.doc \in Nat
               /\ doc[p.frame] \in Nat => c.doc <= doc[p.frame]
               /\ doc[p.frame] = c.doc \/ \E j \in DOMAIN wire : 1 < j /\ Retires(wire[j], c)
               /\ frames[p.frame].loader \in Nat /\ frames[p.frame].loader <= c.doc
    <2>1. /\ c \in Context /\ c.frame = p.frame /\ c.world = p.world /\ c.doc # 0 /\ c.doc \in Nat
          /\ doc[p.frame] \in Nat => c.doc <= doc[p.frame]
          /\ doc[p.frame] = c.doc \/ \E j \in DOMAIN wire : 1 < j /\ Retires(wire[j], c)
      BY <1>2, <1>3, <1>4, <1>5, <1>7 DEF Truthful, Context
    <2>2. frames[p.frame].loader \in Nat
      BY <1>4 DEF TypeOK, FrameState
    <2>3. Brings(m, c) /\ Follows(m) /\ Heard(p.frame, frames[p.frame].loader)
      BY <1>1, <1>3, <1>7 DEF Brings, Heard, InTurn
    <2> QED BY <2>1, <2>2, <2>3 DEF Follows
  <1>8. \A e : Retired(e) => Retired(e)'
    BY <1>1 DEF Retired, Retires
  <1>9. \A f \in Frames : Exists(f) => (InNews(f) => InNews(f)')
    <2>1. \A f \in Frames : Exists(f) => News(f) \in Events /\ News(f)' = News(f)
      BY <1>1 DEF News, Events, Exists
    <2> QED BY <1>1, <2>1 DEF InNews
  <1>10. /\ walk' = IF p.walking /\ c = None THEN "broken" ELSE walk
         /\ lost' = (lost \/ (p.walking /\ c = None))
    BY <1>4 DEF Settle
  <1>11. Adds => \A f \in Frames : walk' = walk => (InTree(f) => InTree(f)') /\ (InWalk(f) => InWalk(f)')
    BY <1>1 DEF InTree, InWalk, Adds
  <1>12. (walk' = "broken" => lost') /\ (~lost' => ~lost /\ walk' = walk)
    BY <1>10 DEF Attended
  <1>13. CASE c # None /\ Current(p)
    <2>1. PICK q : q = [p EXCEPT !.world = "util"]
      OBVIOUS
    <2>2. q \in Provision /\ q.frame = p.frame /\ q.world = "util" /\ q.doc = p.doc /\ q.gen = p.gen
      BY <1>4, <2>1 DEF Provision, Worlds
    <2>3. /\ Announce(c) \/ (~m.named /\ UNCHANGED <<frames, seen>>)
          /\ \/ /\ p.world = "main" /\ provides' = (provides \ {p}) \cup {q}
                /\ calls' = Append(calls, Call(p.frame, "util", q))
             \/ p.world = "util" /\ provides' = provides \ {p} /\ UNCHANGED calls
      BY <1>4, <1>13, <2>1 DEF Settle, Worlds
    <2>4. doc[p.frame] # 0
      BY <1>7, <1>13
    <2>5. Adds
      <3>1. CASE UNCHANGED calls
        BY <3>1 DEF Adds
      <3>2. CASE calls' = Append(calls, Call(p.frame, "util", q))
        <4>1. Call(p.frame, "util", q) = Call(q.frame, q.world, q) /\ Call(p.frame, "util", q).frame = p.frame
              /\ Call(p.frame, "util", q).world = "util"
          BY <2>2 DEF Call
        <4>2. Call(p.frame, "util", q) \in Calls /\ Call(p.frame, "util", q) # TreeCall
          BY <2>2, <4>1 DEF Calls, TreeCall, Call
        <4> QED BY <2>4, <3>2, <4>1, <4>2, OneMore
      <3> QED BY <2>3, <3>1, <3>2
    <2>6. Asking'
      BY <2>5, TakesAsking DEF Asking
    <2>7. /\ seen \subseteq seen' /\ seen' \subseteq seen \cup {c}
          /\ \A g \in Frames : frames'[g].loader = frames[g].loader /\ frames'[g].gen = frames[g].gen
          /\ c \in seen' \cup unnamed' \/ doc[c.frame] = None
          /\ \A g \in Frames : \A e \in frames'[g].contexts : e \in seen' \/ doc[g] = None
      <3>1. CASE Announce(c)
        BY <1>7, <1>13, <3>1, Told
      <3>2. CASE ~m.named /\ UNCHANGED <<frames, seen>>
        BY <1>2, <1>3, <1>5, <3>2 DEF Truthful, Live
      <3> QED BY <2>3, <3>1, <3>2
    <2>8. Live'
      <3>1. doc[c.frame] = c.doc \/ Retired(c)
        BY <1>7, <1>13 DEF Retired, Coming, Range
      <3>2. \A e \in seen' : e.world \in Worlds => e.doc # 0 /\ (doc'[e.frame] = e.doc \/ Retired(e)')
        BY <1>1, <1>7, <1>8, <1>13, <2>7, <3>1 DEF Live
      <3> QED BY <1>1, <2>7, <3>2 DEF Live
    <2>9. ASSUME ready, ~lost', NEW f \in Frames, Exists(f)' PROVE Attends(f)'
      <3>1. Exists(f) /\ Attends(f) /\ doc[f] \in Nat /\ doc[f] # None
        BY <1>1, <1>12, <2>9, ContextsAssumption DEF Attended, Exists
      <3>2. /\ InNews(f) => InNews(f)'
            /\ (InTree(f) \/ InWalk(f)) => (InTree(f) \/ InWalk(f))'
        BY <1>9, <1>11, <1>12, <2>5, <2>9, <3>1
      <3>3. CASE f # p.frame
        <4>1. \A r \in provides : r.frame = f => r \in provides'
          BY <2>3, <3>3
        <4> QED BY <1>1, <2>7, <3>1, <3>2, <4>1, Spared
      <3>4. CASE f = p.frame /\ c.doc # doc[f]
        <4>1. PICK j \in DOMAIN wire : 1 < j /\ Retires(wire[j], c)
          BY <1>7, <1>13, <3>4
        <4>2. PICK k \in DOMAIN wire : j <= k /\ wire[k] = News(f)
          BY <1>7, <1>13, <3>1, <3>4, <4>1, Overtaken
        <4>3. InNews(f)
          BY <4>2 DEF InNews, Coming, Range
        <4>4. frames'[f].loader # doc'[f]
          BY <1>1, <1>7, <1>13, <2>7, <3>1, <3>4
        <4> QED BY <3>2, <4>3, <4>4 DEF Attends
      <3>5. CASE f = p.frame /\ c.doc = doc[f]
        <4>1. c = Ctx(f, p.world) /\ c \in seen' \cup unnamed'
          BY <1>7, <1>13, <2>7, <3>1, <3>5 DEF Ctx, Context
        <4>2. /\ Ctx(f, "main")' = Ctx(f, "main") /\ Ctx(f, "util")' = Ctx(f, "util")
          BY <1>1 DEF Ctx
        <4>3. \A r \in provides : r.frame = f => (Current(r) => Current(r)')
          BY <2>7 DEF Current
        <4>4. \A w : Working(f, w) => Working(f, w)' \/ p.world = w
          BY <2>3, <4>3 DEF Working
        <4>5. p.world = "main" => Working(f, "util")'
          BY <1>13, <2>2, <2>3, <2>7, <3>5 DEF Working, Current
        <4>6. Provided(f) => Provided(f)'
          <5>1. CASE p.world = "main"
            BY <2>7, <4>1, <4>2, <4>4, <4>5, <5>1 DEF Provided
          <5>2. CASE p.world = "util"
            BY <2>7, <4>1, <4>2, <4>4, <5>2 DEF Provided
          <5> QED BY <1>4, <5>1, <5>2 DEF Worlds
        <4> QED BY <1>1, <2>7, <3>1, <3>2, <4>6 DEF Attends
      <3> QED BY <3>3, <3>4, <3>5
    <2>10. Attended'
      <3>1. ~ready' => \A f \in Frames : frames'[f].loader = 0
        BY <2>7 DEF Attended
      <3> QED BY <1>12, <2>9, <3>1 DEF Attended
    <2> QED BY <2>6, <2>8, <2>10
  <1>14. CASE c = None \/ ~Current(p)
    <2>1. provides' = provides \ {p} /\ UNCHANGED <<frames, seen, calls>>
      BY <1>4, <1>14 DEF Settle
    <2>2. Adds
      BY <2>1 DEF Adds
    <2>3. Asking'
      BY <2>2, TakesAsking DEF Asking
    <2>4. Live'
      BY <1>1, <1>8, <2>1 DEF Live
    <2>5. ASSUME ready, ~lost', NEW f \in Frames, Exists(f)' PROVE Attends(f)'
      <3>1. Exists(f) /\ Attends(f) /\ doc[f] # None
        BY <1>1, <1>12, <2>5, ContextsAssumption DEF Attended, Exists
      <3>2. /\ InNews(f) => InNews(f)'
            /\ (InTree(f) \/ InWalk(f)) => (InTree(f) \/ InWalk(f))'
        BY <1>9, <1>11, <1>12, <2>2, <2>5, <3>1
      <3>3. \A w : Working(f, w) => Working(f, w)'
        <4>1. f # p.frame \/ ~Current(p)
          BY <1>6, <1>14, <3>1
        <4> QED BY <2>1, <4>1 DEF Working, Current
      <3>4. Provided(f) => Provided(f)'
        BY <1>1, <2>1, <3>3 DEF Provided, Ctx
      <3> QED BY <1>1, <2>1, <3>1, <3>2, <3>4 DEF Attends
    <2>6. Attended'
      <3>1. ~ready' => \A f \in Frames : frames'[f].loader = 0
        BY <2>1 DEF Attended
      <3> QED BY <1>12, <2>5, <3>1 DEF Attended
    <2> QED BY <2>3, <2>4, <2>6
  <1> QED BY <1>13, <1>14

LEMMA TakeSettles ==
    ASSUME TypeOK, Newest, InTurn, SInv, Take
    PROVE  SInv'
  <1>0. Announced /\ Asking /\ Live /\ Attended
    BY DEF SInv
  <1>1. PICK m : m = Head(wire)
    OBVIOUS
  <1>2. wire # <<>> /\ wire' = Tail(wire) /\ doc' = doc /\ ready' = ready /\ unnamed' = unnamed
    BY DEF Take, browser
  <1>3. m \in Messages
    BY <1>1, <1>2, Typed, Shrunk
  <1>4. CASE m \in Replies
    <2>1. /\ chain' = chain /\ left' = left
          /\ IF m.to \in provides THEN Settle(m.to, m.ctx, m.named)
             ELSE UNCHANGED <<walk, lost, frames, seen, provides, calls>>
      <3>1. m.kind = "reply"
        BY <1>3, <1>4, Kinds
      <3> QED BY <1>1, <3>1 DEF Take
    <2>2. Takes(m)
      BY <1>1, <1>2, <1>4, <2>1 DEF Takes
    <2>3. Announced'
      BY <1>0, <2>2, TakesAnnounced
    <2>4. CASE m.to \in provides
      BY <1>0, <1>2, <1>4, <2>1, <2>2, <2>3, <2>4, ReplySettles DEF SInv
    <2>5. CASE m.to \notin provides
      <3>1. UNCHANGED <<walk, lost, frames, seen, provides, calls>>
        BY <2>1, <2>5
      <3>2. Asking'
        BY <1>0, <2>1, <2>2, <3>1, TakesAsking DEF Asking, Adds
      <3>3. /\ Coming = Coming' \cup {m} /\ m \notin Events \cup Trees
            /\ wire[1] = m
            /\ \A i \in DOMAIN wire : i = 1 \/ (i - 1 \in DOMAIN wire' /\ wire'[i - 1] = wire[i])
        BY <1>3, <1>4, <2>2, TakenOff, Silent
      <3>4. \A e : Retired(e) => Retired(e)'
        BY <3>3 DEF Retired, Retires
      <3>5. Live'
        BY <1>0, <1>2, <3>1, <3>4 DEF Live
      <3>6. ASSUME ready, ~lost, NEW f \in Frames, Exists(f)' PROVE Attends(f)'
        <4>1. Exists(f) /\ Attends(f)
          BY <1>0, <1>2, <3>6 DEF Attended, Exists
        <4>2. News(f) \in Events /\ News(f)' = News(f)
          BY <1>2, <4>1 DEF News, Events, Exists
        <4>3. (InNews(f) => InNews(f)') /\ (InTree(f) => InTree(f)') /\ (InWalk(f) => InWalk(f)')
          BY <2>1, <3>1, <3>3, <4>2 DEF InNews, InTree, InWalk
        <4> QED BY <1>2, <3>1, <4>1, <4>3, Spared
      <3>7. Attended'
        BY <1>0, <1>2, <3>1, <3>6 DEF Attended
      <3> QED BY <2>3, <3>2, <3>5, <3>7 DEF SInv
    <2> QED BY <2>4, <2>5
  <1>5. CASE m \in Trees
    <2>1. /\ UNCHANGED <<chain, frames, seen, provides, calls, lost>>
          /\ IF walk = "tree" THEN walk' = "on" /\ left' = Found(m) ELSE UNCHANGED <<walk, left>>
      <3>1. m.kind = "tree"
        BY <1>3, <1>5, Kinds
      <3> QED BY <1>1, <3>1 DEF Take
    <2>2. Takes(m)
      BY <1>1, <1>2, <1>5, <2>1 DEF Takes
    <2>3. /\ 1 \in DOMAIN wire /\ wire[1] = m /\ m \notin Events /\ Coming = Coming' \cup {m}
      BY <1>3, <1>5, <2>2, TakenOff, Silent
    <2>4. Asking'
      <3>1. \A e \in Found(m) : e[2] # 0
        BY DEF Found
      <3>2. \A e \in left' : e[2] # 0
        BY <1>0, <2>1, <3>1 DEF Asking
      <3>3. Adds
        BY <2>1 DEF Adds
      <3> QED BY <1>0, <2>2, <3>2, <3>3, TakesAsking
    <2>5. \A e : Retired(e) => Retired(e)'
      BY <2>3 DEF Retired, Retires
    <2>6. Live'
      BY <1>0, <1>2, <2>1, <2>5 DEF Live
    <2>7. ASSUME ready, ~lost, NEW f \in Frames, Exists(f)' PROVE Attends(f)'
      <3>1. Exists(f) /\ Attends(f)
        BY <1>0, <1>2, <2>7 DEF Attended, Exists
      <3>2. News(f) \in Events /\ News(f)' = News(f)
        BY <1>2, <3>1 DEF News, Events, Exists
      <3>3. InNews(f) => InNews(f)'
        BY <2>3, <3>2 DEF InNews
      <3>4. CASE walk = "tree"
        <4>1. walk' = "on" /\ left' = Found(m) /\ ~InWalk(f)
          BY <2>1, <3>4 DEF InWalk
        <4>2. InTree(f) => m.doc[f] \in Nat \ {0}
          BY <1>0, <1>5, <2>3 DEF InTree, Asking
        <4>3. PICK k \in DOMAIN Tree : Tree[k] = f
          BY EveryFrame
        <4>4. InTree(f) => <<k, m.doc[Tree[k]]>> \in Found(m)
          BY <4>2, <4>3 DEF Found
        <4>5. InTree(f) => InWalk(f)'
          BY <4>1, <4>3, <4>4 DEF InWalk
        <4> QED BY <1>2, <2>1, <3>1, <3>3, <4>1, <4>5, Spared
      <3>5. CASE walk # "tree"
        <4>1. ~InTree(f) /\ (InWalk(f) => InWalk(f)')
          BY <2>1, <3>5 DEF InTree, InWalk
        <4> QED BY <1>2, <2>1, <3>1, <3>3, <4>1, Spared
      <3> QED BY <3>4, <3>5
    <2>8. Attended'
      <3>1. walk' = "broken" => lost'
        BY <1>0, <2>1 DEF Attended
      <3> QED BY <1>0, <1>2, <2>1, <2>7, <3>1 DEF Attended
    <2> QED BY <1>0, <2>2, <2>4, <2>6, <2>8, TakesAnnounced DEF SInv
  <1>6. CASE m \in Events \cup Responses
    <2>1. chain' = Append(chain, m) /\ UNCHANGED <<walk, left, frames, seen, provides, calls, lost>>
      <3>1. m.kind \in {"document", "removed", "response"}
        BY <1>3, <1>6, Kinds
      <3> QED BY <1>1, <3>1 DEF Take
    <2>2. Takes(m)
      BY <1>1, <1>2, <1>6, <2>1 DEF Takes
    <2>3. /\ wire[1] = m /\ m \notin Trees /\ Coming' = Coming
          /\ \A i \in DOMAIN wire : i = 1 \/ (i - 1 \in DOMAIN wire' /\ wire'[i - 1] = wire[i])
      BY <1>3, <1>6, <2>2, TakenOff, Silent
    <2>4. Asking'
      BY <1>0, <2>1, <2>2, TakesAsking DEF Asking, Adds
    <2>5. Live'
      BY <1>0, <1>2, <2>1, <2>3 DEF Live, Retired
    <2>6. ASSUME ready, ~lost, NEW f \in Frames, Exists(f)' PROVE Attends(f)'
      <3>1. Exists(f) /\ Attends(f)
        BY <1>0, <1>2, <2>6 DEF Attended, Exists
      <3>2. (InNews(f) => InNews(f)') /\ (InTree(f) => InTree(f)') /\ (InWalk(f) => InWalk(f)')
        BY <1>2, <2>1, <2>3 DEF InNews, InTree, InWalk, News
      <3> QED BY <1>2, <2>1, <3>1, <3>2, Spared
    <2>7. Attended'
      BY <1>0, <1>2, <2>1, <2>6 DEF Attended
    <2> QED BY <1>0, <2>2, <2>4, <2>5, <2>7, TakesAnnounced DEF SInv
  <1> QED BY <1>3, <1>4, <1>5, <1>6 DEF Messages

LEMMA HandlesAnnounced ==
    ASSUME TypeOK, Announced, chain # <<>>, chain' = Tail(chain), UNCHANGED <<doc, wire>>
    PROVE  Announced' /\ Coming = Coming' \cup {Head(chain)}
  <1>1. chain \in Seq(Messages)
    BY Typed
  <1>2. /\ Range(chain) = Range(chain') \cup {Head(chain)}
        /\ \A i \in DOMAIN chain' : i \in Nat /\ i + 1 \in DOMAIN chain /\ 1 < i + 1 /\ chain'[i] = chain[i + 1]
        /\ \A i \in DOMAIN chain : i = 1 \/ (i \in Nat /\ i > 1 /\ i - 1 \in DOMAIN chain' /\ chain'[i - 1] = chain[i])
    BY <1>1, Shrunk
  <1>3. Coming = Coming' \cup {Head(chain)}
    BY <1>2 DEF Coming
  <1>4. ASSUME NEW f \in Frames, Exists(f)' PROVE Followed(f)'
    <2>1. Followed(f) /\ News(f)' = News(f) /\ \A n : Undoes(n, f)' <=> Undoes(n, f)
      BY <1>4 DEF Announced, Exists, News, Undoes
    <2>2. ASSUME NEW i \in DOMAIN chain', Undoes(chain'[i], f)
          PROVE  \/ \E j \in DOMAIN chain' : i < j /\ chain'[j] = News(f)
                 \/ \E j \in DOMAIN wire' : wire'[j] = News(f)
      <3>1. i \in Nat /\ i + 1 \in DOMAIN chain /\ Undoes(chain[i + 1], f)
        BY <1>2, <2>2
      <3>2. ASSUME NEW j \in DOMAIN chain, i + 1 < j, chain[j] = News(f)
            PROVE  \E k \in DOMAIN chain' : i < k /\ chain'[k] = News(f)
        <4>1. j \in Nat /\ j - 1 \in DOMAIN chain' /\ chain'[j - 1] = News(f)
          BY <1>2, <3>1, <3>2
        <4> QED BY <3>1, <3>2, <4>1
      <3> QED BY <2>1, <3>1, <3>2 DEF Followed
    <2> QED BY <2>1, <2>2 DEF Followed
  <1>5. \A n \in Coming' : Sound(n)'
    BY <1>3 DEF Announced, Sound
  <1> QED BY <1>3, <1>4, <1>5 DEF Announced

LEMMA DocumentSettles ==
    ASSUME TypeOK, Asleep, Kept, Newest, SInv, NoGhosts', NEW m \in Events, m.kind = "document",
           chain # <<>>, m = Head(chain), chain' = Tail(chain), OnDocument(m.frame, m.doc), told'[m.frame] = m.doc,
           UNCHANGED <<doc, wire, ready, walk, left, lost, unnamed>>
    PROVE  SInv'
  <1>0. Announced /\ Asking /\ Live /\ Attended
    BY DEF SInv
  <1>1. Announced' /\ Coming = Coming' \cup {m}
    BY <1>0, HandlesAnnounced
  <1>2. PICK f \in Frames, d \in Nat : f = m.frame /\ d = m.doc
    BY Kinds
  <1>3. /\ m \in Messages /\ m \in Coming /\ frames \in [Frames -> FrameState] /\ seen \subseteq Context
        /\ 1 \in DOMAIN chain /\ chain[1] = m /\ chain \in Seq(Messages)
    BY <1>1, Typed, Shrunk DEF TypeOK, Messages
  <1>4. d # 0
    BY <1>0, <1>2, <1>3 DEF Announced, Sound
  <1>5. doc[f] # 0
    <2>1. Says(m, f, d) /\ Outdated(m)
      BY <1>2, <1>3 DEF Says, Newest
    <2>2. doc[f] \in Nat => d <= doc[f]
      BY <2>1 DEF Outdated
    <2> QED BY <1>4, <2>2
  <1>6. \A g \in Frames : \A c \in frames[g].contexts : c.frame = g
    BY DEF Kept
  <1>7. ASSUME NEW c \in seen', seen' \subseteq seen, ~(f = Main /\ c.frame # Main), c.world \in Worlds
        PROVE  c.doc # 0 /\ (doc'[c.frame] = c.doc \/ Retired(c)')
    <2>1. c.doc # 0 /\ (doc[c.frame] = c.doc \/ Retired(c)) /\ c \in Context /\ c.doc \in Nat
      BY <1>0, <1>3, <1>7 DEF Live, Context
    <2>2. ~Retires(m, c)
      <3>1. c.frame = f => c.doc >= d
        BY <1>2, <1>7 DEF NoGhosts
      <3> QED BY <1>2, <1>7, <2>1, <3>1 DEF Retires
    <2> QED BY <1>1, <2>1, <2>2 DEF Retired
  <1>8. \A g \in Frames : Exists(g) /\ InNews(g) /\ m # News(g) => InNews(g)'
    BY <1>1 DEF InNews, News
  <1>9. ASSUME NEW g \in Frames, Exists(g), Undoes(m, g) PROVE InNews(g)'
    <2>1. Followed(g)
      BY <1>0, <1>9 DEF Announced
    <2>2. CASE \E j \in DOMAIN wire : wire[j] = News(g)
      BY <2>2 DEF InNews, Coming, Range, News
    <2>3. ASSUME NEW j \in DOMAIN chain, 1 < j, chain[j] = News(g)
          PROVE  InNews(g)'
      <3>1. j - 1 \in DOMAIN chain' /\ chain'[j - 1] = chain[j]
        BY <1>3, <2>3, Shrunk
      <3> QED BY <2>3, <3>1 DEF InNews, Coming, Range, News
    <2> QED BY <1>3, <1>9, <2>1, <2>2, <2>3 DEF Followed
  <1>10. CASE ~ready
    <2>1. UNCHANGED <<frames, seen, provides, calls>> /\ seen = {}
      BY <1>10 DEF OnDocument, Asleep
    <2>2. Asking'
      BY <1>0, <2>1, StillAsking DEF Adds
    <2>3. Live' /\ Attended'
      BY <1>0, <1>10, <2>1 DEF Live, Attended
    <2> QED BY <1>1, <2>2, <2>3 DEF SInv
  <1>11. CASE ready /\ f = Main
    <2>1. PICK fs : fs = [g \in Frames |-> NoFrame(frames[g].gen + 1)]
      OBVIOUS
    <2>2. Provide(f, d, FALSE, fs, {})
      BY <1>2, <1>11, <2>1 DEF OnDocument
    <2>3. fs \in [Frames -> FrameState] /\ \A g \in Frames : fs[g].loader = 0 /\ fs[g].contexts = {}
      BY <1>3, <2>1 DEF NoFrame, FrameState
    <2>4. FALSE \in BOOLEAN /\ \A c \in fs[f].contexts : c.frame = f
      BY <2>3
    <2>5. /\ Adds /\ provides \subseteq provides'
          /\ seen' \subseteq {}
          /\ frames'[f].loader = d /\ \A g \in Frames \ {f} : frames'[g] = fs[g]
          /\ \A g \in Frames : \A c \in frames'[g].contexts : c \in fs[g].contexts
          /\ \/ fs[f].loader = d
             \/ Working(f, "main")'
      <3>1. PICK s : s = {}
        OBVIOUS
      <3>2. Provide(f, d, FALSE, fs, s)
        BY <2>2, <3>1
      <3>3. /\ Adds /\ provides \subseteq provides'
            /\ seen' \subseteq s /\ \A c \in s : c.frame # f => c \in seen'
            /\ frames'[f].loader = d /\ \A g \in Frames \ {f} : frames'[g] = fs[g]
            /\ \A g \in Frames : \A c \in frames'[g].contexts :
                   c \in fs[g].contexts /\ (c \in s /\ c.frame = g => c \in seen')
            /\ \/ fs[f].loader = d /\ frames' = fs /\ seen' = s /\ provides' = provides
               \/ Working(f, "main")'
        BY <1>5, <2>3, <2>4, <3>2, Provisions
      <3> QED BY <3>1, <3>3
    <2>6. Asking'
      BY <1>0, <2>5, StillAsking
    <2>7. Live'
      BY <2>3, <2>5 DEF Live
    <2>8. ASSUME NEW g \in Frames, Exists(g)' PROVE Attends(g)'
      <3>1. CASE g = f
        <4>1. Working(f, "main")'
          BY <1>4, <2>3, <2>5
        <4>2. Provided(f)'
          BY <4>1 DEF Provided
        <4> QED BY <1>4, <2>5, <3>1, <4>2 DEF Attends
      <3>2. CASE g # f
        <4>1. Exists(g) /\ doc'[g] # 0
          BY <2>8 DEF Exists
        <4>2. Undoes(m, g)
          BY <1>2, <1>11, <3>2 DEF Undoes
        <4>3. InNews(g)'
          BY <1>9, <4>1, <4>2
        <4>4. frames'[g].loader = 0
          BY <2>3, <2>5, <3>2
        <4> QED BY <4>1, <4>3, <4>4 DEF Attends
      <3> QED BY <3>1, <3>2
    <2>9. Attended'
      BY <1>0, <1>11, <2>8 DEF Attended
    <2> QED BY <1>1, <2>6, <2>7, <2>9 DEF SInv
  <1>12. CASE ready /\ f # Main
    <2>1. Provide(f, d, FALSE, frames, seen)
      BY <1>2, <1>12 DEF OnDocument
    <2>2. FALSE \in BOOLEAN
      OBVIOUS
    <2>3. /\ Adds /\ provides \subseteq provides'
          /\ seen' \subseteq seen /\ \A c \in seen : c.frame # f => c \in seen'
          /\ frames'[f].loader = d /\ \A g \in Frames \ {f} : frames'[g] = frames[g]
          /\ \A g \in Frames : \A c \in frames'[g].contexts :
                 c \in frames[g].contexts /\ (c \in seen /\ c.frame = g => c \in seen')
          /\ \/ frames[f].loader = d /\ frames' = frames /\ seen' = seen /\ provides' = provides
             \/ Working(f, "main")'
      BY <1>3, <1>5, <1>6, <2>1, <2>2, Provisions
    <2>4. Asking'
      BY <1>0, <2>3, StillAsking
    <2>5. Live'
      <3>1. \A c \in seen' : c.world \in Worlds => c.doc # 0 /\ (doc'[c.frame] = c.doc \/ Retired(c)')
        BY <1>7, <1>12, <2>3
      <3>2. \A g \in Frames : \A c \in frames'[g].contexts : c \in seen' \/ doc'[g] = None
        BY <1>0, <1>6, <2>3 DEF Live
      <3> QED BY <3>1, <3>2 DEF Live
    <2>6. ASSUME ~lost, NEW g \in Frames, Exists(g)' PROVE Attends(g)'
      <3>1. Attends(g) /\ doc'[g] = doc[g] /\ Exists(g)
        BY <1>0, <1>12, <2>6 DEF Attended, Exists
      <3>2. CASE g # f
        <4>1. InNews(g) => InNews(g)'
          <5>1. m # News(g)
            BY <1>2, <3>2 DEF News
          <5> QED BY <1>8, <3>1, <5>1
        <4>2. (InTree(g) => InTree(g)') /\ (InWalk(g) => InWalk(g)')
          BY <2>3 DEF InTree, InWalk, Adds
        <4> QED BY <2>3, <3>1, <3>2, <4>1, <4>2, Spared
      <3>3. CASE g = f /\ Working(f, "main")'
        <4>1. Provided(f)'
          BY <3>3 DEF Provided
        <4> QED BY <1>4, <2>3, <3>3, <4>1 DEF Attends
      <3>4. CASE g = f /\ frames[f].loader = d /\ frames' = frames /\ seen' = seen /\ provides' = provides
        <4>1. Provided(f) => Provided(f)'
          BY <3>4 DEF Provided, Working, Current, Ctx
        <4>2. CASE d = doc[f]
          BY <1>4, <3>1, <3>4, <4>1, <4>2 DEF Attends
        <4>3. CASE d # doc[f]
          <5>1. Undoes(m, f)
            BY <1>2, <4>3 DEF Undoes
          <5>2. InNews(f)'
            BY <1>9, <3>1, <3>4, <5>1
          <5> QED BY <1>4, <3>4, <4>3, <5>2 DEF Attends
        <4> QED BY <4>2, <4>3
      <3> QED BY <2>3, <3>2, <3>3, <3>4
    <2>7. Attended'
      BY <1>0, <1>12, <2>6 DEF Attended
    <2> QED BY <1>1, <2>4, <2>5, <2>7 DEF SInv
  <1> QED BY <1>10, <1>11, <1>12

LEMMA HandleSettles ==
    ASSUME IInv, IInv', SInv, HandleEvent
    PROVE  SInv'
  <1>0. /\ TypeOK /\ Asleep /\ Kept /\ Newest /\ NoGhosts' /\ Announced /\ Asking /\ Live /\ Attended
    BY DEF IInv, SInv
  <1>1. /\ chain # <<>> /\ chain' = Tail(chain)
        /\ UNCHANGED <<doc, wire, ready, walk, left, lost, unnamed>>
        /\ chain \in Seq(Events \cup Responses) /\ told \in [Frames -> Nat] /\ seen \subseteq Context
    BY <1>0 DEF HandleEvent, browser, fault, TypeOK
  <1>2. PICK m \in Events \cup Responses : m = Head(chain)
    BY <1>1, Shrunk
  <1>3. Announced' /\ Coming = Coming' \cup {m} /\ m \in Coming /\ m \in Messages
    BY <1>0, <1>1, <1>2, HandlesAnnounced DEF Messages
  <1>4. CASE m.kind = "document"
    <2>1. m \in Events /\ m.frame \in Frames
      BY <1>3, <1>4, Kinds
    <2>2. /\ OnDocument(m.frame, m.doc)
          /\ told' = [g \in Frames |-> IF g = m.frame THEN m.doc
                                       ELSE IF m.frame = Main THEN 0 ELSE told[g]]
      BY <1>2, <1>4 DEF HandleEvent
    <2> QED BY <1>0, <1>1, <1>2, <1>4, <2>1, <2>2, DocumentSettles DEF SInv
  <1>5. CASE m.kind = "removed"
    <2>1. m \in Events /\ m.frame \in Frames
      BY <1>3, <1>5, Kinds
    <2>2. seen' = {c \in seen : c.frame # m.frame} /\ UNCHANGED <<frames, provides, calls>>
      BY <1>2, <1>5 DEF HandleEvent
    <2>3. Asking'
      BY <1>0, <1>1, <2>2, StillAsking DEF Adds
    <2>4. doc[m.frame] = None
      BY <1>0, <1>3, <1>5, <2>1 DEF Announced, Sound
    <2>5. Live'
      <3>1. \A c \in seen' : Retired(c) => Retired(c)'
        BY <1>3, <1>5, <2>2 DEF Retired, Retires
      <3>2. \A c \in seen' : c.world \in Worlds => c.doc # 0 /\ (doc'[c.frame] = c.doc \/ Retired(c)')
        BY <1>0, <1>1, <2>2, <3>1 DEF Live
      <3>3. \A g \in Frames : \A c \in frames'[g].contexts : c \in seen' \/ doc'[g] = None
        BY <1>0, <1>1, <2>2, <2>4 DEF Live, Kept
      <3> QED BY <3>2, <3>3 DEF Live
    <2>6. ASSUME ready, ~lost, NEW g \in Frames, Exists(g)' PROVE Attends(g)'
      <3>1. Attends(g) /\ doc'[g] = doc[g] /\ Exists(g)
        BY <1>0, <1>1, <2>6 DEF Attended, Exists
      <3>2. g # m.frame
        BY <2>4, <3>1, ContextsAssumption DEF Exists
      <3>3. (InNews(g) => InNews(g)') /\ (InTree(g) => InTree(g)') /\ (InWalk(g) => InWalk(g)')
        BY <1>1, <1>3, <1>5, <2>2 DEF InNews, InTree, InWalk, News
      <3> QED BY <1>1, <2>2, <3>1, <3>2, <3>3, Spared
    <2>7. Attended'
      BY <1>0, <1>1, <2>2, <2>6 DEF Attended
    <2> QED BY <1>3, <2>3, <2>5, <2>7 DEF SInv
  <1>6. CASE m.kind = "response"
    <2>1. m \in Responses /\ m \notin Events /\ m.ctx \in Context \cup {None}
      BY <1>3, <1>6, Kinds, Silent
    <2>2. /\ UNCHANGED <<provides, calls>>
          /\ IF m.ctx # None THEN Announce(m.ctx) ELSE UNCHANGED <<frames, seen>>
      BY <1>2, <1>6 DEF HandleEvent
    <2>3. m.ctx # None => m.ctx.world = "iso"
      BY <1>0, <1>3, <2>1 DEF Announced, Sound
    <2>4. Asking'
      BY <1>0, <1>1, <2>2, StillAsking DEF Adds
    <2>5. /\ seen \subseteq seen' /\ \A c \in seen' : c.world \in Worlds => c \in seen
          /\ \A g \in Frames : frames'[g].loader = frames[g].loader /\ frames'[g].gen = frames[g].gen
          /\ \A g \in Frames : \A e \in frames'[g].contexts : e \in seen' \/ doc[g] = None
      <3>1. CASE m.ctx = None
        BY <1>0, <2>2, <3>1 DEF Live
      <3>2. CASE m.ctx # None
        <4>1. Announce(m.ctx) /\ m.ctx \in Context /\ m.ctx.world \notin Worlds
          BY <2>1, <2>2, <2>3, <3>2 DEF Worlds
        <4>2. /\ seen \subseteq seen' /\ seen' \subseteq seen \cup {m.ctx}
              /\ \A g \in Frames : frames'[g].loader = frames[g].loader /\ frames'[g].gen = frames[g].gen
              /\ \A g \in Frames : \A e \in frames'[g].contexts : e \in seen' \/ doc[g] = None
          BY <1>0, <4>1, Told
        <4> QED BY <4>1, <4>2
      <3> QED BY <3>1, <3>2
    <2>6. Live'
      <3>1. \A c : Retired(c) => Retired(c)'
        BY <1>3, <2>1 DEF Retired, Retires
      <3> QED BY <1>0, <1>1, <2>5, <3>1 DEF Live
    <2>7. ASSUME ready, ~lost, NEW g \in Frames, Exists(g)' PROVE Attends(g)'
      <3>1. Attends(g) /\ doc'[g] = doc[g] /\ Exists(g)
        BY <1>0, <1>1, <2>7 DEF Attended, Exists
      <3>2. News(g) \in Events /\ News(g)' = News(g)
        BY <1>1, <3>1 DEF News, Events, Exists
      <3>3. (InNews(g) => InNews(g)') /\ (InTree(g) => InTree(g)') /\ (InWalk(g) => InWalk(g)')
        BY <1>1, <1>3, <2>1, <2>2, <3>2 DEF InNews, InTree, InWalk
      <3> QED BY <1>1, <2>2, <2>5, <3>1, <3>3, Spared
    <2>8. Attended'
      BY <1>0, <1>1, <2>5, <2>7 DEF Attended
    <2> QED BY <1>3, <2>4, <2>6, <2>8 DEF SInv
  <1> QED BY <1>2, <1>4, <1>5, <1>6 DEF Events, Responses

LEMMA Settling == FairSpec => []SInv
  <1>1. Init => SInv
    <2> SUFFICES ASSUME Init PROVE SInv
      OBVIOUS
    <2>1. /\ calls = <<>> /\ wire = <<>> /\ chain = <<>> /\ ready = FALSE /\ walk = "no" /\ left = {} /\ seen = {}
          /\ \A f \in Frames : frames[f].loader = 0 /\ frames[f].contexts = {}
      BY DEF Init, NoFrame
    <2>2. Coming = {}
      BY <2>1 DEF Coming, Range
    <2> QED BY <2>1, <2>2 DEF SInv, Announced, Followed, Asking, Live, Attended
  <1>2. IInv /\ IInv' /\ SInv /\ [Next]_vars => SInv'
    <2> SUFFICES ASSUME IInv, IInv', SInv, [Next]_vars PROVE SInv'
      OBVIOUS
    <2>1. TypeOK /\ Asleep /\ Kept /\ TreeFirst /\ Newest /\ InTurn
      BY DEF IInv
    <2>2. CASE Execute
      BY <2>1, <2>2, ExecuteSettles
    <2>3. CASE Take
      BY <2>1, <2>3, TakeSettles
    <2>4. CASE WalkOn
      BY <2>1, <2>4, WalkSettles
    <2>5. CASE HandleEvent
      BY <2>5, HandleSettles
    <2>6. CASE Timeout
      BY <2>6, TimeoutSettles
    <2>7. CASE EnableRuntime
      BY <2>1, <2>7, EnableSettles
    <2>8. ASSUME NEW f \in Frames, Commit(f) \/ RemoveFrame(f) \/ CreateIsolatedWorld(f)
          PROVE  SInv'
      BY <2>1, <2>8, CommitSettles, RemoveSettles, CreateSettles
    <2>9. CASE UNCHANGED vars
      <3>1. UNCHANGED <<doc, calls, wire, chain, ready, frames, provides, walk, left, seen, lost, unnamed>>
        BY <2>9 DEF vars, browser, plugin, client, fault
      <3>2. Announced' /\ Asking'
        BY <3>1, Unsaid, StillAsking DEF SInv, Adds
      <3>3. Live'
        BY <3>1 DEF SInv, Live, Retired, Coming
      <3>4. ASSUME ready, ~lost, NEW g \in Frames, Exists(g)' PROVE Attends(g)'
        <4>1. Attends(g) /\ doc'[g] = doc[g]
          BY <3>1, <3>4 DEF SInv, Attended, Exists
        <4>2. (InNews(g) => InNews(g)') /\ (InTree(g) => InTree(g)') /\ (InWalk(g) => InWalk(g)')
          BY <3>1 DEF InNews, InTree, InWalk, News, Coming
        <4> QED BY <3>1, <4>1, <4>2, Spared
      <3>5. Attended'
        BY <3>1, <3>4 DEF SInv, Attended
      <3> QED BY <3>2, <3>3, <3>5 DEF SInv
    <2> QED BY <2>2, <2>3, <2>4, <2>5, <2>6, <2>7, <2>8, <2>9 DEF Next, Work
  <1> QED BY <1>1, <1>2, Invariance, PTL DEF FairSpec

(* When all that was asked is answered and all that was said is handled,    *)
(* and no command was given up, the client has the main and the utility    *)
(* world of the document that every frame shows, but for the main worlds   *)
(* the browser left unnamed, and no other such world:                      *)
(* whichever of the walk and the events of a frame came to provide it, in  *)
(* whatever order, and whatever replies overtook them.                     *)
THEOREM EveryFrameIsServed == FairSpec => []SettlesRight
  <1>1. IInv /\ SInv => SettlesRight
    <2> DEFINE right == {Ctx(f, w) : f \in {g \in Frames : Exists(g)}, w \in Worlds}
               has   == {c \in seen : c.world \in Worlds}
    <2> SUFFICES ASSUME IInv, SInv, Quiet, ~lost
                 PROVE  has \subseteq right /\ right \ has \subseteq unnamed
      BY DEF SettlesRight
    <2>1. TypeOK /\ Asleep /\ Live /\ Attended
      BY DEF IInv, SInv
    <2>2. calls = <<>> /\ wire = <<>> /\ chain = <<>> /\ provides = {} /\ walk = "over"
      BY <2>1 DEF Quiet, Attended
    <2>3. ready /\ Coming = {}
      BY <2>1, <2>2 DEF Asleep, TypeOK, Coming, Range
    <2>4. ASSUME NEW c \in seen, c.world \in Worlds
          PROVE  c \in {Ctx(f, w) : f \in {g \in Frames : Exists(g)}, w \in Worlds}
      <3>1. c \in Context /\ c.frame \in Frames /\ c.doc \in Nat \ {0} /\ doc[c.frame] = c.doc
        BY <2>1, <2>3, <2>4 DEF Live, Retired, TypeOK, Context
      <3>2. c = Ctx(c.frame, c.world) /\ Exists(c.frame)
        BY <3>1 DEF Ctx, Context, Exists
      <3> QED BY <2>4, <3>1, <3>2
    <2>5. ASSUME NEW f \in Frames, Exists(f), NEW w \in Worlds
          PROVE  Ctx(f, w) \in seen \cup unnamed /\ Ctx(f, w).world \in Worlds
      <3>1. Attends(f) /\ ~InNews(f) /\ ~InTree(f) /\ ~InWalk(f)
        BY <2>1, <2>2, <2>3, <2>5 DEF Attended, InNews, InTree, InWalk
      <3>2. Provided(f)
        BY <3>1 DEF Attends
      <3> QED BY <2>2, <3>2 DEF Provided, Working, Ctx, Worlds
    <2> QED BY <2>4, <2>5
  <1> QED BY <1>1, Settling, Invariance, PTL
-----------------------------------------------------------------------------
(* Of two contexts for one frame that are of different documents, the event *)
(* that retires the first comes between them.                              *)
Apart(c, e) == c.frame = e.frame /\ c.doc # e.doc /\ c.world \in Worlds /\ e.world \in Worlds

Ordered ==
    /\ \A i, j \in DOMAIN wire :
           (wire[i] \in Replies /\ wire[j] \in Replies /\ i < j /\ None \notin {wire[i].ctx, wire[j].ctx}
                /\ Apart(wire[i].ctx, wire[j].ctx))
           => \E k \in DOMAIN wire : i < k /\ k < j /\ Retires(wire[k], wire[i].ctx)
    /\ \A c \in seen, j \in DOMAIN wire :
           (wire[j] \in Replies /\ wire[j].ctx # None /\ Apart(c, wire[j].ctx))
           => \/ \E k \in DOMAIN chain : Retires(chain[k], c)
              \/ \E k \in DOMAIN wire : k < j /\ Retires(wire[k], c)
    /\ \A c, e \in seen :
           Apart(c, e) => \E k \in DOMAIN chain : Retires(chain[k], c) \/ Retires(chain[k], e)

(* What the browser sends is apart from what came before only behind an     *)
(* event that retires it.                                                  *)
LEMMA SendsInOrder ==
    ASSUME TypeOK, Ordered, NEW m \in Messages, wire' = Append(wire, m), UNCHANGED <<chain, seen>>,
           m \in Replies /\ m.ctx # None =>
               /\ \A i \in DOMAIN wire : wire[i] \in Replies /\ wire[i].ctx # None /\ Apart(wire[i].ctx, m.ctx) =>
                      \E k \in DOMAIN wire : i < k /\ Retires(wire[k], wire[i].ctx)
               /\ \A c \in seen : Apart(c, m.ctx) => Retired(c)
    PROVE  Ordered'
  <1>1. wire \in Seq(Messages)
    BY Typed
  <1>2. /\ \A i \in DOMAIN wire : i \in DOMAIN wire' /\ wire'[i] = wire[i] /\ i \in Nat
        /\ \A i \in DOMAIN wire' : i \in Nat /\ (i \in DOMAIN wire \/ wire'[i] = m)
    BY <1>1, Grown
  <1>3. PICK last \in DOMAIN wire' : /\ wire'[last] = m /\ \A i \in DOMAIN wire : i < last
                                     /\ \A i \in DOMAIN wire' : i \in DOMAIN wire \/ i = last
    <2>1. \E j \in DOMAIN Append(wire, m) :
             /\ Append(wire, m)[j] = m /\ \A i \in DOMAIN wire : i < j
             /\ \A i \in DOMAIN Append(wire, m) : i \in DOMAIN wire \/ i = j
      BY <1>1, Grown
    <2> QED BY <2>1
  <1>4. ASSUME NEW i \in DOMAIN wire', NEW j \in DOMAIN wire', wire'[i] \in Replies, wire'[j] \in Replies, i < j,
               wire'[i].ctx # None, wire'[j].ctx # None, Apart(wire'[i].ctx, wire'[j].ctx)
        PROVE  \E k \in DOMAIN wire' : i < k /\ k < j /\ Retires(wire'[k], wire'[i].ctx)
    <2>1. i \in DOMAIN wire /\ wire'[i] = wire[i]
      BY <1>2, <1>3, <1>4
    <2>2. CASE j \in DOMAIN wire
      <3>1. wire'[j] = wire[j]
        BY <1>2, <2>2
      <3>2. \E k \in DOMAIN wire : i < k /\ k < j /\ Retires(wire[k], wire[i].ctx)
        BY <1>4, <2>1, <2>2, <3>1 DEF Ordered
      <3> QED BY <1>2, <2>1, <3>2
    <2>3. CASE j \notin DOMAIN wire
      <3>1. j = last /\ wire'[j] = m
        BY <1>3, <2>3
      <3>2. \E k \in DOMAIN wire : i < k /\ Retires(wire[k], wire[i].ctx)
        BY <1>4, <2>1, <3>1
      <3> QED BY <1>2, <1>3, <2>1, <3>1, <3>2
    <2> QED BY <2>2, <2>3
  <1>5. ASSUME NEW c \in seen', NEW j \in DOMAIN wire', wire'[j] \in Replies, wire'[j].ctx # None,
               Apart(c, wire'[j].ctx)
        PROVE  \/ \E k \in DOMAIN chain' : Retires(chain'[k], c)
               \/ \E k \in DOMAIN wire' : k < j /\ Retires(wire'[k], c)
    <2>1. CASE j \in DOMAIN wire
      <3>1. wire'[j] = wire[j]
        BY <1>2, <2>1
      <3>2. \/ \E k \in DOMAIN chain : Retires(chain[k], c)
            \/ \E k \in DOMAIN wire : k < j /\ Retires(wire[k], c)
        BY <1>5, <2>1, <3>1 DEF Ordered
      <3> QED BY <1>2, <3>2
    <2>2. CASE j \notin DOMAIN wire
      <3>1. j = last /\ wire'[j] = m
        BY <1>3, <2>2
      <3>2. Retired(c)
        BY <1>5, <3>1
      <3>3. \/ \E k \in DOMAIN chain : Retires(chain[k], c)
            \/ \E k \in DOMAIN wire : Retires(wire[k], c)
        BY <3>2 DEF Retired, Coming, Range
      <3> QED BY <1>2, <1>3, <3>1, <3>3
    <2> QED BY <2>1, <2>2
  <1>6. \A c, e \in seen' :
            Apart(c, e) => \E k \in DOMAIN chain' : Retires(chain'[k], c) \/ Retires(chain'[k], e)
    BY DEF Ordered
  <1> QED BY <1>4, <1>5, <1>6 DEF Ordered

LEMMA ExecutesInOrder ==
    ASSUME TypeOK, SInv, Ordered, Execute
    PROVE  Ordered'
  <1>0. Asking /\ Live
    BY DEF SInv
  <1>1. UNCHANGED <<chain, seen>> /\ doc \in [Frames -> Documents] /\ calls \in Seq(Calls)
    BY <1>0, ExecuteAnswers DEF TypeOK
  <1>2. PICK m \in Messages \ Events : wire' = Append(wire, m) /\ Answer(Head(calls), m)
    BY <1>0, ExecuteAnswers
  <1>3. ASSUME m \in Replies, m.ctx # None
        PROVE  /\ \A i \in DOMAIN wire : wire[i] \in Replies /\ wire[i].ctx # None /\ Apart(wire[i].ctx, m.ctx) =>
                      \E k \in DOMAIN wire : i < k /\ Retires(wire[k], wire[i].ctx)
               /\ \A c \in seen : Apart(c, m.ctx) => Retired(c)
    <2>1. m.ctx = Ctx(m.to.frame, m.to.world) /\ m \notin Trees \cup Responses
      <3>1. m \notin Trees /\ m \notin Responses
        BY <1>2, <1>3, Silent
      <3> QED BY <1>2, <1>3, <3>1 DEF Answer
    <2>2. m.ctx.doc = doc[m.ctx.frame]
      BY <2>1 DEF Ctx
    <2>3. ASSUME NEW i \in DOMAIN wire, wire[i] \in Replies, wire[i].ctx # None, Apart(wire[i].ctx, m.ctx)
          PROVE  \E k \in DOMAIN wire : i < k /\ Retires(wire[k], wire[i].ctx)
      <3>1. Truthful(wire[i], i)
        BY <1>0, <2>3 DEF Asking
      <3> QED BY <2>2, <2>3, <3>1 DEF Truthful, Apart
    <2>4. \A c \in seen : Apart(c, m.ctx) => Retired(c)
      BY <1>0, <2>2 DEF Live, Apart
    <2> QED BY <2>3, <2>4
  <1> QED BY <1>1, <1>2, <1>3, SendsInOrder

(* A message leaves the wire, and with a reply a context may be announced. *)
LEMMA TakesInOrder ==
    ASSUME TypeOK, Ordered, NEW m, Takes(m),
           seen' \subseteq seen \/ (m \in Replies /\ m.ctx # None /\ seen' \subseteq seen \cup {m.ctx})
    PROVE  Ordered'
  <1>1. /\ 1 \in DOMAIN wire /\ wire[1] = m /\ m \in Messages /\ chain \in Seq(Messages)
        /\ \A i \in DOMAIN wire' : i \in Nat /\ i + 1 \in DOMAIN wire /\ 1 < i + 1 /\ wire'[i] = wire[i + 1]
        /\ \A i \in DOMAIN wire : i = 1 \/ (i \in Nat /\ i > 1 /\ i - 1 \in DOMAIN wire' /\ wire'[i - 1] = wire[i])
    BY TakenOff, Typed
  <1>2. /\ \A k \in DOMAIN chain : k \in DOMAIN chain' /\ chain'[k] = chain[k]
        /\ m \in Events => \E k \in DOMAIN chain' : chain'[k] = m
    <2>1. CASE m \in Replies \cup Trees /\ chain' = chain
      <3>1. m \notin Events
        BY <1>1, <2>1, Silent
      <3> QED BY <2>1, <3>1
    <2>2. CASE chain' = Append(chain, m)
      <3>1. \A k \in DOMAIN chain : k \in DOMAIN chain' /\ chain'[k] = chain[k]
        BY <1>1, <2>2, Grown
      <3>2. \E k \in DOMAIN chain' : chain'[k] = m
        BY <1>1, <2>2, Grown
      <3> QED BY <3>1, <3>2
    <2> QED BY <2>1, <2>2 DEF Takes
  <1>3. ASSUME NEW i \in DOMAIN wire', NEW j \in DOMAIN wire', wire'[i] \in Replies, wire'[j] \in Replies, i < j,
               wire'[i].ctx # None, wire'[j].ctx # None, Apart(wire'[i].ctx, wire'[j].ctx)
        PROVE  \E k \in DOMAIN wire' : i < k /\ k < j /\ Retires(wire'[k], wire'[i].ctx)
    <2>1. /\ i + 1 \in DOMAIN wire /\ j + 1 \in DOMAIN wire /\ i \in Nat /\ j \in Nat
          /\ wire'[i] = wire[i + 1] /\ wire'[j] = wire[j + 1]
      BY <1>1
    <2>2. i + 1 < j + 1
      BY <1>3, <2>1
    <2>3. PICK k \in DOMAIN wire : i + 1 < k /\ k < j + 1 /\ Retires(wire[k], wire[i + 1].ctx)
      BY <1>3, <2>1, <2>2 DEF Ordered
    <2>4. k \in Nat /\ k - 1 \in DOMAIN wire' /\ wire'[k - 1] = wire[k]
      BY <1>1, <2>1, <2>3
    <2> QED BY <2>1, <2>3, <2>4
  <1>4. ASSUME NEW c \in seen', NEW j \in DOMAIN wire', wire'[j] \in Replies, wire'[j].ctx # None,
               Apart(c, wire'[j].ctx)
        PROVE  \/ \E k \in DOMAIN chain' : Retires(chain'[k], c)
               \/ \E k \in DOMAIN wire' : k < j /\ Retires(wire'[k], c)
    <2>1. j + 1 \in DOMAIN wire /\ j \in Nat /\ wire'[j] = wire[j + 1]
      BY <1>1
    <2>2. \/ \E k \in DOMAIN chain : Retires(chain[k], c)
          \/ \E k \in DOMAIN wire : k < j + 1 /\ Retires(wire[k], c)
      <3>1. CASE c \in seen
        BY <1>4, <2>1, <3>1 DEF Ordered
      <3>2. CASE c \notin seen
        <4>1. m \in Replies /\ m.ctx # None /\ c = m.ctx
          BY <3>2
        <4>2. 1 < j + 1
          BY <1>1
        <4>3. \E k \in DOMAIN wire : 1 < k /\ k < j + 1 /\ Retires(wire[k], wire[1].ctx)
          BY <1>1, <1>4, <2>1, <4>1, <4>2 DEF Ordered
        <4> QED BY <1>1, <4>1, <4>3
      <3> QED BY <3>1, <3>2
    <2>3. ASSUME NEW k \in DOMAIN wire, k < j + 1, Retires(wire[k], c)
          PROVE  \/ \E n \in DOMAIN chain' : Retires(chain'[n], c)
                 \/ \E n \in DOMAIN wire' : n < j /\ Retires(wire'[n], c)
      <3>1. CASE k = 1
        <4>1. m \in Events /\ Retires(m, c)
          BY <1>1, <2>3, <3>1 DEF Retires
        <4> QED BY <1>2, <4>1
      <3>2. CASE k # 1
        <4>1. k \in Nat /\ k - 1 \in DOMAIN wire' /\ wire'[k - 1] = wire[k]
          BY <1>1, <3>2
        <4> QED BY <2>1, <2>3, <4>1
      <3> QED BY <3>1, <3>2
    <2> QED BY <1>2, <2>2, <2>3
  <1>5. ASSUME NEW c \in seen', NEW e \in seen', Apart(c, e)
        PROVE  \E k \in DOMAIN chain' : Retires(chain'[k], c) \/ Retires(chain'[k], e)
    <2>1. ASSUME NEW x \in seen, NEW y, y = m.ctx, m \in Replies, m.ctx # None, Apart(x, y)
          PROVE  \E k \in DOMAIN chain' : Retires(chain'[k], x)
      <3>1. \/ \E k \in DOMAIN chain : Retires(chain[k], x)
            \/ \E k \in DOMAIN wire : k < 1 /\ Retires(wire[k], x)
        BY <1>1, <2>1 DEF Ordered
      <3>2. \A k \in DOMAIN wire : ~(k < 1)
        BY <1>1
      <3> QED BY <1>2, <3>1, <3>2
    <2>2. Apart(e, c)
      BY <1>5 DEF Apart
    <2>3. CASE c \in seen /\ e \in seen
      BY <1>2, <1>5, <2>3 DEF Ordered
    <2>4. CASE c \notin seen \/ e \notin seen
      BY <1>5, <2>1, <2>2, <2>4 DEF Apart
    <2> QED BY <2>3, <2>4
  <1> QED BY <1>3, <1>4, <1>5 DEF Ordered

(* The client forgets contexts.                                            *)
LEMMA ForgetsInOrder ==
    ASSUME Ordered, UNCHANGED <<wire, chain>>, seen' \subseteq seen
    PROVE  Ordered'
  BY DEF Ordered

(* What provide leaves the client is what it had.                          *)
LEMMA ProvidesLess ==
    ASSUME NEW f, NEW d, NEW w, NEW fs, NEW s, Provide(f, d, w, fs, s)
    PROVE  seen' \subseteq s
  BY DEF Provide

(* Nothing the client keeps is retired by the event it has been told of.   *)
LEMMA HandledEventsRetire ==
    ASSUME IInv, IInv', SInv, HandleEvent, NEW c \in seen', c.world \in Worlds
    PROVE  c \in seen /\ ~Retires(Head(chain), c)
  <1>1. /\ TypeOK /\ Asleep /\ NoGhosts' /\ Announced /\ Live
        /\ chain # <<>> /\ chain' = Tail(chain) /\ UNCHANGED <<doc, wire>>
        /\ chain \in Seq(Events \cup Responses) /\ seen \subseteq Context /\ told \in [Frames -> Nat]
    BY DEF IInv, SInv, HandleEvent, browser, TypeOK
  <1>2. PICK m \in Events \cup Responses : m = Head(chain)
    BY <1>1, Shrunk
  <1>3. m \in Messages /\ m \in Coming
    BY <1>1, <1>2, HandlesAnnounced DEF Messages
  <1>4. CASE m.kind = "document"
    <2>1. m \in Events /\ m.frame \in Frames /\ m.doc \in Nat
      BY <1>3, <1>4, Kinds
    <2>2. OnDocument(m.frame, m.doc) /\ told'[m.frame] = m.doc
      BY <1>2, <1>4, <2>1 DEF HandleEvent
    <2>3. CASE ~ready
      BY <1>1, <2>2, <2>3 DEF OnDocument, Asleep
    <2>4. CASE ready /\ m.frame = Main
      <3>1. Provide(m.frame, m.doc, FALSE, [g \in Frames |-> NoFrame(frames[g].gen + 1)], {})
        BY <2>2, <2>4 DEF OnDocument
      <3> QED BY <3>1, ProvidesLess
    <2>5. CASE ready /\ m.frame # Main
      <3>1. Provide(m.frame, m.doc, FALSE, frames, seen)
        BY <2>2, <2>5 DEF OnDocument
      <3>2. c \in seen /\ c \in Context /\ c.doc \in Nat
        BY <1>1, <3>1, ProvidesLess DEF Context
      <3>3. c.frame = m.frame => c.doc >= m.doc
        BY <1>1, <2>2 DEF NoGhosts
      <3>4. ~Retires(m, c)
        BY <1>4, <2>1, <2>5, <3>2, <3>3 DEF Retires
      <3> QED BY <1>2, <3>2, <3>4
    <2> QED BY <2>3, <2>4, <2>5
  <1>5. CASE m.kind = "removed"
    BY <1>2, <1>5 DEF HandleEvent, Retires
  <1>6. CASE m.kind = "response"
    <2>1. m \in Responses /\ m \notin Events /\ m.ctx \in Context \cup {None}
      BY <1>3, <1>6, Kinds, Silent
    <2>2. IF m.ctx # None THEN Announce(m.ctx) ELSE UNCHANGED <<frames, seen>>
      BY <1>2, <1>6 DEF HandleEvent
    <2>3. m.ctx # None => m.ctx.world = "iso"
      BY <1>1, <1>3, <2>1 DEF Announced, Sound
    <2>4. c \in seen
      <3>1. CASE m.ctx = None
        BY <2>2, <3>1
      <3>2. CASE m.ctx # None
        <4>1. seen' \subseteq seen \cup {m.ctx}
          BY <2>2, <3>2 DEF Announce
        <4> QED BY <2>3, <3>2, <4>1 DEF Worlds
      <3> QED BY <3>1, <3>2
    <2> QED BY <1>2, <2>1, <2>4 DEF Retires
  <1> QED BY <1>2, <1>4, <1>5, <1>6 DEF Events, Responses

LEMMA HandlesInOrder ==
    ASSUME IInv, IInv', SInv, Ordered, HandleEvent
    PROVE  Ordered'
  <1>1. /\ chain # <<>> /\ chain' = Tail(chain) /\ wire' = wire /\ chain \in Seq(Messages)
    BY Typed DEF IInv, HandleEvent
  <1>2. /\ 1 \in DOMAIN chain /\ chain[1] = Head(chain)
        /\ \A i \in DOMAIN chain : i = 1 \/ (i \in Nat /\ i > 1 /\ i - 1 \in DOMAIN chain' /\ chain'[i - 1] = chain[i])
    BY <1>1, Shrunk
  <1>3. ASSUME NEW c \in seen', c.world \in Worlds, NEW k \in DOMAIN chain, Retires(chain[k], c)
        PROVE  \E n \in DOMAIN chain' : Retires(chain'[n], c)
    <2>1. k # 1
      BY <1>2, <1>3, HandledEventsRetire
    <2> QED BY <1>2, <1>3, <2>1
  <1>4. \A c \in seen' : c.world \in Worlds => c \in seen
    BY HandledEventsRetire
  <1>5. ASSUME NEW c \in seen', NEW j \in DOMAIN wire', wire'[j] \in Replies, wire'[j].ctx # None,
               Apart(c, wire'[j].ctx)
        PROVE  \/ \E k \in DOMAIN chain' : Retires(chain'[k], c)
               \/ \E k \in DOMAIN wire' : k < j /\ Retires(wire'[k], c)
    <2>1. c \in seen /\ c.world \in Worlds
      BY <1>4, <1>5 DEF Apart
    <2>2. \/ \E k \in DOMAIN chain : Retires(chain[k], c)
          \/ \E k \in DOMAIN wire : k < j /\ Retires(wire[k], c)
      BY <1>1, <1>5, <2>1 DEF Ordered
    <2> QED BY <1>1, <1>3, <2>1, <2>2
  <1>6. ASSUME NEW c \in seen', NEW e \in seen', Apart(c, e)
        PROVE  \E k \in DOMAIN chain' : Retires(chain'[k], c) \/ Retires(chain'[k], e)
    <2>1. c \in seen /\ c.world \in Worlds /\ e \in seen /\ e.world \in Worlds
      BY <1>4, <1>6 DEF Apart
    <2>2. PICK k \in DOMAIN chain : Retires(chain[k], c) \/ Retires(chain[k], e)
      BY <1>6, <2>1 DEF Ordered
    <2> QED BY <1>3, <2>1, <2>2
  <1> QED BY <1>1, <1>5, <1>6 DEF Ordered

LEMMA TakeInOrder ==
    ASSUME TypeOK, SInv, Ordered, Take
    PROVE  Ordered'
  <1>1. PICK m : m = Head(wire)
    OBVIOUS
  <1>2. wire # <<>> /\ wire' = Tail(wire) /\ UNCHANGED <<doc, unnamed>>
    BY DEF Take, browser
  <1>3. m \in Messages
    BY <1>1, <1>2, Typed, Shrunk
  <1>4. CASE m \in Replies
    <2>1. /\ chain' = chain
          /\ IF m.to \in provides THEN Settle(m.to, m.ctx, m.named) ELSE UNCHANGED seen
      <3>1. m.kind = "reply"
        BY <1>3, <1>4, Kinds
      <3> QED BY <1>1, <3>1 DEF Take
    <2>2. Takes(m)
      BY <1>1, <1>2, <1>4, <2>1 DEF Takes
    <2>3. seen' \subseteq seen \/ (m.ctx # None /\ seen' \subseteq seen \cup {m.ctx})
      BY <2>1 DEF Settle, Announce
    <2> QED BY <1>4, <2>2, <2>3, TakesInOrder
  <1>5. CASE m \in Trees
    <2>1. UNCHANGED <<chain, seen>>
      <3>1. m.kind = "tree"
        BY <1>3, <1>5, Kinds
      <3> QED BY <1>1, <3>1 DEF Take
    <2>2. Takes(m)
      BY <1>1, <1>2, <1>5, <2>1 DEF Takes
    <2> QED BY <2>1, <2>2, TakesInOrder
  <1>6. CASE m \in Events \cup Responses
    <2>1. chain' = Append(chain, m) /\ seen' = seen
      <3>1. m.kind \in {"document", "removed", "response"}
        BY <1>3, <1>6, Kinds
      <3> QED BY <1>1, <3>1 DEF Take
    <2>2. Takes(m)
      BY <1>1, <1>2, <1>6, <2>1 DEF Takes
    <2> QED BY <2>1, <2>2, TakesInOrder
  <1> QED BY <1>3, <1>4, <1>5, <1>6 DEF Messages

LEMMA KeptInOrder == FairSpec => []Ordered
  <1>1. Init => Ordered
    BY DEF Init, Ordered
  <1>2. IInv /\ IInv' /\ SInv /\ Ordered /\ [Next]_vars => Ordered'
    <2> SUFFICES ASSUME IInv, IInv', SInv, Ordered, [Next]_vars PROVE Ordered'
      OBVIOUS
    <2>1. TypeOK
      BY DEF IInv
    <2>2. CASE Execute
      BY <2>1, <2>2, ExecutesInOrder
    <2>3. CASE Take
      BY <2>1, <2>3, TakeInOrder
    <2>4. CASE WalkOn
      <3>1. UNCHANGED <<wire, chain>>
        BY <2>4 DEF WalkOn
      <3>2. seen' \subseteq seen
        BY <2>4, ProvidesLess DEF WalkOn
      <3> QED BY <3>1, <3>2, ForgetsInOrder
    <2>5. CASE HandleEvent
      BY <2>5, HandlesInOrder
    <2>6. CASE Timeout \/ EnableRuntime \/ UNCHANGED vars \/ \E f \in Frames : CreateIsolatedWorld(f)
      <3>1. UNCHANGED <<wire, chain, seen>>
        BY <2>6 DEF Timeout, EnableRuntime, CreateIsolatedWorld, vars, client
      <3> QED BY <3>1, ForgetsInOrder
    <2>7. ASSUME NEW f \in Frames, Commit(f) \/ RemoveFrame(f)
          PROVE  Ordered'
      <3>1. PICK m \in Events : wire' = Append(wire, m)
        <4>1. CASE Commit(f)
          <5>1. [kind |-> "document", frame |-> f, doc |-> loads + 1] \in Events
            BY <2>1 DEF Events, TypeOK
          <5> QED BY <4>1, <5>1 DEF Commit
        <4>2. CASE RemoveFrame(f)
          <5>1. [kind |-> "removed", frame |-> f, doc |-> 0] \in Events
            BY DEF Events
          <5> QED BY <4>2, <5>1 DEF RemoveFrame
        <4> QED BY <2>7, <4>1, <4>2
      <3>2. UNCHANGED <<chain, seen>>
        BY <2>7 DEF Commit, RemoveFrame, client
      <3>3. m \in Messages /\ m \notin Replies
        BY Silent DEF Messages
      <3> QED BY <2>1, <3>1, <3>2, <3>3, SendsInOrder
    <2> QED BY <2>2, <2>3, <2>4, <2>5, <2>6, <2>7 DEF Next, Work
  <1> QED BY <1>1, <1>2, Invariance, Settling, PTL DEF FairSpec

(* The client takes two main worlds, or two utility worlds, of one frame    *)
(* for live only while the event that makes it give up one of them waits    *)
(* in the chain.                                                           *)
THEOREM OneWorldAtATime == FairSpec => []OneOfAKind
  <1>1. IInv /\ Ordered => OneOfAKind
    <2> SUFFICES ASSUME IInv, Ordered, NEW c \in seen, NEW e \in seen,
                        c.frame = e.frame, c.world = e.world, c.world # "iso", c # e
                 PROVE  Retiring(c.frame)
      BY DEF OneOfAKind
    <2>1. c \in Context /\ e \in Context
      BY DEF IInv, TypeOK
    <2>2. Apart(c, e)
      BY <2>1 DEF Apart, Context, Worlds
    <2>3. PICK k \in DOMAIN chain : Retires(chain[k], c) \/ Retires(chain[k], e)
      BY <2>2 DEF Ordered
    <2> QED BY <2>3 DEF Retires, Retiring
  <1> QED BY <1>1, KeptInOrder, Invariance, PTL
-----------------------------------------------------------------------------
(* The shape of the registry's records, and what ids they carry.           *)
Steps == {"new", "drawing", "resolving", "pairing", "claiming", "launching", "ready", "sealed", "failed"}

Shaped(r) ==
    /\ DOMAIN r = {"at", "ask", "chain", "kit", "plan", "corrections", "sealed"}
    /\ DOMAIN r.plan = {"profile", "spec", "window"} /\ r.at \in Steps

IdentitiesTypeOK ==
    /\ DOMAIN record = Sessions /\ \A s \in Sessions : Shaped(record[s])
    /\ DOMAIN slot = Range(Slots) /\ \A i \in Range(Slots) : DOMAIN slot[i] = {"profile", "spec", "window"}
    /\ cursor \in Nat /\ raced \in BOOLEAN
    /\ \A key \in DOMAIN random : random[key] \in Streams

Identified(row) == "id" \in DOMAIN row /\ row.id # Nothing

AskedFor(ask) ==
    "id" \in DOMAIN ask /\ IF ask.id = Free THEN ask \in Asks \cup {FreeAsk} ELSE ask.id # Nothing

Recorded(r) ==
    /\ r.at # "new" => AskedFor(r.ask) /\ r.chain \in Chains /\ r.kit \in Kits
    /\ r.at \notin {"new", "drawing", "failed"} => Identified(r.plan.profile)
    /\ r.at = "sealed" => Identified(r.sealed)

Identifying ==
    /\ \A s \in Sessions : Recorded(record[s])
    /\ \A i \in Range(Slots) : slot[i] = Unplanned \/ Identified(slot[i].profile)

(* While no two registrations claimed the data dir at a time, the marker   *)
(* says under which identity it was opened and is about to be.             *)
Marked ==
    ~raced =>
        /\ opened \subseteq {marker} \ {Nothing}
        /\ \A s \in Sessions :
            /\ record[s].at = "claiming" => marker = Nothing
            /\ record[s].at = "launching" /\ record[s].plan.spec.userDataDir # Nothing
                => marker # Nothing /\ marker = record[s].plan.profile.id

IdInv == IdentitiesTypeOK /\ Identifying /\ Marked
-----------------------------------------------------------------------------
(* A set of numbers has a least one and, within bounds, a greatest.         *)
LEMMA LeastOne ==
    ASSUME NEW S \in SUBSET Nat, S # {}
    PROVE  \E n \in S : \A m \in S : n <= m
  <1>1. PICK n \in S : \A m \in S : ~ (<<m, n>> \in OpToRel(<, Nat))
    BY NatLessThanWellFounded, WFMin
  <1>2. \A m \in S : ~ (m < n)
    BY <1>1 DEF OpToRel
  <1> QED BY <1>2

LEMMA GreatestOne ==
    ASSUME NEW k \in Nat, NEW T \in SUBSET (1..k), T # {}
    PROVE  \E i \in T : \A j \in T : j <= i
  <1>1. {k - j : j \in T} \in SUBSET Nat /\ {k - j : j \in T} # {}
    <2>1. \A j \in T : k - j \in Nat
      OBVIOUS
    <2> QED BY <2>1
  <1>2. PICK d \in {k - j : j \in T} : \A e \in {k - j : j \in T} : d <= e
    BY <1>1, LeastOne
  <1>3. PICK i \in T : d = k - i
    BY <1>2
  <1>4. \A j \in T : k - i <= k - j
    BY <1>2, <1>3
  <1> QED BY <1>4

(* A list of lists has a first and a last place of any kind.                *)
Listed(claims) ==
    \E n \in Nat : DOMAIN claims = 1..n /\ \A p \in 1..n : \E m \in Nat : DOMAIN claims[p] = 1..m

LEMMA Outermost ==
    ASSUME NEW claims, Listed(claims), NEW S \in SUBSET Places(claims), S # {}
    PROVE  /\ \E x \in S : \A y \in S : ~Earlier(x, y)
           /\ \E x \in S : \A y \in S : ~Earlier(y, x)
           /\ \A x \in S : x = <<x[1], x[2]>> /\ x[1] \in Nat /\ x[2] \in Nat
  <1>1. PICK n \in Nat : DOMAIN claims = 1..n /\ \A p \in 1..n : \E m \in Nat : DOMAIN claims[p] = 1..m
    BY DEF Listed
  <1>2. \A x \in S : x = <<x[1], x[2]>> /\ x[1] \in 1..n /\ x[2] \in DOMAIN claims[x[1]]
    BY <1>1 DEF Places
  <1>3. \A x \in S : x[2] \in Nat
    BY <1>1, <1>2
  <1> DEFINE rows == {x[1] : x \in S}
             of(p) == {x[2] : x \in {y \in S : y[1] = p}}
  <1>4. rows \in SUBSET (1..n) /\ rows \in SUBSET Nat /\ rows # {}
    BY <1>2
  <1>5. \A p \in rows : of(p) \in SUBSET DOMAIN claims[p] /\ of(p) \in SUBSET Nat /\ of(p) # {}
    BY <1>2, <1>3
  <1>6. \E x \in S : \A y \in S : ~Earlier(x, y)
    <2>1. PICK p \in rows : \A q \in rows : q <= p
      BY <1>4, GreatestOne
    <2>2. PICK m \in Nat : DOMAIN claims[p] = 1..m
      BY <1>1, <1>4
    <2>3. of(p) \in SUBSET (1..m) /\ of(p) # {}
      BY <1>5, <2>2
    <2> HIDE DEF of
    <2>4. PICK k \in of(p) : \A j \in of(p) : j <= k
      BY <2>3, GreatestOne
    <2>5. PICK x \in S : x[1] = p /\ x[2] = k
      BY <2>4 DEF of
    <2>6. ASSUME NEW y \in S
          PROVE  ~Earlier(x, y)
      <3>1. y[1] <= p /\ (y[1] = p => y[2] <= k)
        BY <2>1, <2>4 DEF of
      <3> QED BY <1>2, <1>3, <2>5, <3>1 DEF Earlier
    <2> QED BY <2>6
  <1>7. \E x \in S : \A y \in S : ~Earlier(y, x)
    <2>1. PICK p \in rows : \A q \in rows : p <= q
      BY <1>4, LeastOne
    <2>3. of(p) \in SUBSET Nat /\ of(p) # {}
      BY <1>5
    <2> HIDE DEF of
    <2>4. PICK k \in of(p) : \A j \in of(p) : k <= j
      BY <2>3, LeastOne
    <2>5. PICK x \in S : x[1] = p /\ x[2] = k
      BY <2>4 DEF of
    <2>6. ASSUME NEW y \in S
          PROVE  ~Earlier(y, x)
      <3>1. p <= y[1] /\ (y[1] = p => k <= y[2])
        BY <2>1, <2>4 DEF of
      <3> QED BY <1>2, <1>3, <2>5, <3>1 DEF Earlier
    <2> QED BY <2>6
  <1> QED BY <1>2, <1>3, <1>6, <1>7

(* What onStart hooks correct: core the viewport alone, and the authored    *)
(* plugins what they may.                                                  *)
LEMMA CorrectionsKnown ==
    ASSUME NEW row, NEW flags, NEW found, Corrections(found)
    PROVE  LET all == <<CoreFinds(row, flags)>> \o found
           IN  /\ 1 \in DOMAIN all /\ all[1] = CoreFinds(row, flags)
               /\ \A f \in DOMAIN ByName(all) : \E x \in Places(all) :
                    /\ NameAt(all, x) = f /\ ByName(all)[f] = ValueAt(all, x)
                    /\ \/ x[1] = 1 /\ x[2] \in DOMAIN CoreFinds(row, flags)
                       \/ /\ x[1] # 1 /\ f \in Correctable
                          /\ f = "chromeHeight" => ValueAt(all, x) \in Int
                          /\ f = "userAgent" => DOMAIN ValueAt(all, x) = {"platform", "chrome", "headless"}
  <1>1. PICK core : core = CoreFinds(row, flags)
    OBVIOUS
  <1>2. PICK all : all = <<core>> \o found
    OBVIOUS
  <1>3. found \in Seq(Range(found)) /\ Len(found) \in Nat /\ DOMAIN found = 1..Len(found)
    BY DEF Corrections
  <1>4. /\ DOMAIN all = 1..(1 + Len(found)) /\ all[1] = core
        /\ \A p \in 1..(1 + Len(found)) : p # 1 => all[p] = found[p - 1]
    <2>1. PICK S : <<core>> \in Seq(S) /\ found \in Seq(S)
      <3>1. <<core>> \in Seq({core} \cup Range(found)) /\ found \in Seq({core} \cup Range(found))
        BY <1>3
      <3> QED BY <3>1
    <2> QED BY <1>2, <1>3, <2>1
  <1>5. \A p \in 1..(1 + Len(found)) : \E m \in Nat : DOMAIN all[p] = 1..m
    <2>1. \E m \in Nat : DOMAIN core = 1..m
      <3>1. PICK v : core = << <<"viewport", v>> >> \/ core = <<>>
        BY <1>1 DEF CoreFinds
      <3>2. DOMAIN core = 1..1 \/ DOMAIN core = 1..0
        BY <3>1
      <3> QED BY <3>2
    <2>2. ASSUME NEW p \in 1..(1 + Len(found)), p # 1
          PROVE  \E m \in Nat : DOMAIN all[p] = 1..m
      <3>1. p - 1 \in DOMAIN found /\ all[p] = found[p - 1]
        BY <1>3, <1>4, <2>2
      <3>2. PICK f : f = all[p]
        OBVIOUS
      <3>3. f \in Seq(Range(f))
        BY <3>1, <3>2 DEF Corrections
      <3>4. Len(f) \in Nat /\ DOMAIN f = 1..Len(f)
        BY <3>3
      <3> QED BY <3>2, <3>4
    <2> QED BY <1>4, <2>1, <2>2
  <1>6. Listed(all)
    BY <1>3, <1>4, <1>5 DEF Listed
  <1>7. ASSUME NEW f \in DOMAIN ByName(all)
        PROVE  \E x \in Places(all) :
                    /\ NameAt(all, x) = f /\ ByName(all)[f] = ValueAt(all, x)
                    /\ \/ x[1] = 1 /\ x[2] \in DOMAIN core
                       \/ /\ x[1] # 1 /\ f \in Correctable
                          /\ f = "chromeHeight" => ValueAt(all, x) \in Int
                          /\ f = "userAgent" => DOMAIN ValueAt(all, x) = {"platform", "chrome", "headless"}
    <2>1. Naming(all, f) \in SUBSET Places(all) /\ Naming(all, f) # {}
      BY DEF ByName, Naming
    <2>2. \E x \in Naming(all, f) : \A y \in Naming(all, f) : ~Earlier(x, y)
      BY <1>6, <2>1, Outermost
    <2>3. PICK x : x = LastOf(all, f)
      OBVIOUS
    <2>4. x \in Naming(all, f)
      BY <2>2, <2>3 DEF LastOf
    <2>5. x \in Places(all) /\ NameAt(all, x) = f /\ ByName(all)[f] = ValueAt(all, x)
      BY <2>3, <2>4 DEF Naming, ByName
    <2>6. x = <<x[1], x[2]>> /\ x[1] \in DOMAIN all /\ x[2] \in DOMAIN all[x[1]]
      BY <2>5 DEF Places
    <2>7. CASE x[1] = 1
      BY <1>4, <2>5, <2>6, <2>7
    <2>8. CASE x[1] # 1
      <3>1. PICK y : y = <<x[1] - 1, x[2]>>
        OBVIOUS
      <3>2. y[1] = x[1] - 1 /\ y[2] = x[2] /\ y[1] \in DOMAIN found /\ all[x[1]] = found[y[1]]
        BY <1>3, <1>4, <2>6, <2>8, <3>1
      <3>3. y \in Places(found)
        BY <2>6, <3>1, <3>2 DEF Places
      <3>4. NameAt(found, y) = f /\ ValueAt(found, y) = ValueAt(all, x)
        BY <2>5, <3>2 DEF NameAt, ValueAt
      <3>5. /\ f \in Correctable
            /\ f = "chromeHeight" => ValueAt(all, x) \in Int
            /\ f = "userAgent" => DOMAIN ValueAt(all, x) = {"platform", "chrome", "headless"}
        BY <3>3, <3>4 DEF Corrections
      <3> QED BY <2>5, <2>8, <3>5
    <2> QED BY <2>7, <2>8
  <1>8. 1 \in DOMAIN all
    BY <1>3, <1>4
  <1> QED BY <1>1, <1>2, <1>4, <1>7, <1>8

(* What core corrects is the viewport, and to what the window leaves.       *)
LEMMA CoreCorrects ==
    ASSUME NEW row, NEW flags, NEW all, 1 \in DOMAIN all, all[1] = CoreFinds(row, flags), NEW x, x[1] = 1,
           x[2] \in DOMAIN CoreFinds(row, flags)
    PROVE  /\ NameAt(all, x) = "viewport" /\ WindowOf(flags) \in Sizes
           /\ ValueAt(all, x) = <<WindowOf(flags)[1], WindowOf(flags)[2] - row.chromeHeight>>
  <1>1. PICK window : window = WindowOf(flags)
    OBVIOUS
  <1>2. PICK rest : rest = <<window[1], window[2] - row.chromeHeight>>
    OBVIOUS
  <1>3. PICK core : core = CoreFinds(row, flags)
    OBVIOUS
  <1>4. core = IF window \in Sizes /\ rest # row.viewport THEN << <<"viewport", rest>> >> ELSE <<>>
    BY <1>1, <1>2, <1>3 DEF CoreFinds
  <1>5. window \in Sizes /\ core = << <<"viewport", rest>> >> /\ x[2] = 1
    BY <1>3, <1>4
  <1>6. core[x[2]][1] = "viewport" /\ core[x[2]][2] = rest
    BY <1>5
  <1> QED BY <1>1, <1>2, <1>3, <1>5, <1>6 DEF NameAt, ValueAt

(* What the setters and the drawing of a row do with its id.               *)
LEMMA MachineId ==
    ASSUME NEW c, NEW stream, NEW seed, NEW source
    PROVE  /\ "id" \in DOMAIN Machine(c, stream, seed, source)
           /\ c.id # Free => Machine(c, stream, seed, source).id = c.id
  <1>1. CASE c.id = Free
    BY <1>1 DEF Machine
  <1>2. CASE c.id # Free
    BY <1>2 DEF Machine
  <1> QED BY <1>1, <1>2

LEMMA SettersKeepId ==
    ASSUME NEW row, Identified(row)
    PROVE  /\ \A x, y : Identified([row EXCEPT !.seed = x, !.source = y])
                         /\ [row EXCEPT !.seed = x, !.source = y].id = row.id
           /\ \A flags, found : Corrections(found)
                => Identified(Corrected(row, <<CoreFinds(row, flags)>> \o found))
           /\ \A major : Identified(Reconcile(row, major))
  <1>1. \A x, y : Identified([row EXCEPT !.seed = x, !.source = y])
                         /\ [row EXCEPT !.seed = x, !.source = y].id = row.id
    BY DEF Identified
  <1>2. ASSUME NEW flags, NEW found, Corrections(found)
        PROVE  Identified(Corrected(row, <<CoreFinds(row, flags)>> \o found))
    <2>1. PICK all : all = <<CoreFinds(row, flags)>> \o found
      OBVIOUS
    <2>2. "id" \notin DOMAIN ByName(all)
      <3> SUFFICES ASSUME "id" \in DOMAIN ByName(all)
                   PROVE  FALSE
        OBVIOUS
      <3>1. PICK x \in Places(all) :
              /\ NameAt(all, x) = "id"
              /\ (x[1] = 1 /\ x[2] \in DOMAIN CoreFinds(row, flags)) \/ "id" \in Correctable
        BY <1>2, <2>1, CorrectionsKnown
      <3>2. 1 \in DOMAIN all /\ all[1] = CoreFinds(row, flags)
        BY <1>2, <2>1, CorrectionsKnown
      <3>3. ~(x[1] = 1 /\ x[2] \in DOMAIN CoreFinds(row, flags))
        BY <3>1, <3>2, CoreCorrects
      <3> QED BY <3>1, <3>3 DEF Correctable
    <2>3. Identified(Corrected(row, all))
      BY <2>2 DEF Identified, Corrected
    <2> QED BY <2>1, <2>3
  <1>3. ASSUME NEW major
        PROVE  Identified(Reconcile(row, major))
    BY DEF Identified, Reconcile
  <1> QED BY <1>1, <1>2, <1>3

(* A row that is drawn carries an id: the one asked for, the pin's, the    *)
(* captured row's, or the one generate makes of what it drew.              *)
LEMMA DrawnIdentified ==
    ASSUME IdentitiesTypeOK, NEW ask, NEW loaders \in Chains \cup {Nothing}, NEW seed, NEW row, AskedFor(ask),
           ask.id = Free => seed \in Sessions \cup Range(Slots),
           Draw(ask, loaders, seed, row)
    PROVE  /\ Identified(row) \/ (row = Nothing /\ Refuses(ask))
           /\ \A key \in DOMAIN random' : random'[key] \in Streams
  <1>1. ASSUME NEW key
        PROVE  /\ \A stream : stream \in Used(key) => stream \in Streams
               /\ \A stream : stream \in Streams /\ Use(key, stream)
                    => \A k \in DOMAIN random' : random'[k] \in Streams
    BY DEF Used, Use, IdentitiesTypeOK
  <1>2. CASE Pinned(ask, loaders)
    <2> DEFINE id == PinId(ask, loaders)
    <2>1. PICK stream \in Used(id) :
            Use(id, stream) /\ row = Machine([ask EXCEPT !.id = id], stream, id, "pin")
      BY <1>2 DEF Draw
    <2>2. id # Free /\ id # Nothing
      BY <1>2, IdentitiesAssumption DEF Pinned, PinId, AskedFor
    <2> HIDE DEF id
    <2>3. [ask EXCEPT !.id = id].id = id
      BY DEF AskedFor
    <2>4. PICK c : c = [ask EXCEPT !.id = id]
      OBVIOUS
    <2>5. c.id = id
      BY <2>3, <2>4
    <2>6. row = Machine(c, stream, id, "pin")
      BY <2>1, <2>4
    <2>7. "id" \in DOMAIN row /\ row.id = c.id
      BY <2>2, <2>5, <2>6, MachineId
    <2>8. Identified(row)
      BY <2>2, <2>5, <2>7 DEF Identified
    <2>9. stream \in Streams /\ Use(id, stream)
      BY <1>1, <2>1
    <2>10. \A k \in DOMAIN random' : random'[k] \in Streams
      BY <2>9 DEF Use, IdentitiesTypeOK
    <2> QED BY <2>8, <2>10
  <1>3. CASE ~Pinned(ask, loaders) /\ loaders # Nothing /\ Satisfies(Captured, ask)
    <2>1. row = FromCorpus(ask, loaders, seed) /\ random' = random
      BY <1>3 DEF Draw
    <2>2. Identified(Captured)
      BY IdentitiesAssumption DEF Identified, IsRow, Fields
    <2>3. Identified(row)
      BY <2>1, <2>2, SettersKeepId DEF FromCorpus
    <2> QED BY <2>1, <2>3 DEF IdentitiesTypeOK
  <1>4. CASE ~Pinned(ask, loaders) /\ ~(loaders # Nothing /\ Satisfies(Captured, ask)) /\ Refuses(ask)
    <2>1. row = Nothing /\ random' = random
      BY <1>4 DEF Draw
    <2> QED BY <1>4, <2>1 DEF IdentitiesTypeOK
  <1>5. CASE ~Pinned(ask, loaders) /\ ~(loaders # Nothing /\ Satisfies(Captured, ask)) /\ ~Refuses(ask)
    <2>1. PICK stream \in Used(<<seed, "generate">>) :
            Use(<<seed, "generate">>, stream) /\ row = Machine(ask, stream, seed, "generate")
      BY <1>5 DEF Draw
    <2>2. stream \in Streams
      BY <1>1
    <2>3. row.id # Nothing
      <3>1. CASE ask.id = Free
        <4>1. ask \in {a \in Asks \cup {FreeAsk} : a.id = Free /\ ~Refuses(a)}
          BY <1>5, <3>1 DEF AskedFor
        <4> QED BY <2>1, <2>2, <3>1, <4>1, IdentitiesAssumption
      <3>2. CASE ask.id # Free
        BY <2>1, <3>2, MachineId DEF AskedFor
      <3> QED BY <3>1, <3>2
    <2>4. "id" \in DOMAIN row
      BY <2>1, MachineId
    <2> QED BY <1>1, <2>1, <2>2, <2>3, <2>4 DEF Identified
  <1> QED BY <1>2, <1>3, <1>4, <1>5

(* A step of one session: what it may change of the registry's records,    *)
(* and what it leaves of its own.                                          *)
OnlyOf(s) ==
    DOMAIN record' = Sessions /\ \A t \in Sessions \ {s} : record'[t] = record[t]

Same(s) ==
    /\ OnlyOf(s) /\ DOMAIN record'[s] = DOMAIN record[s] /\ DOMAIN record'[s].plan = DOMAIN record[s].plan
    /\ record'[s].ask = record[s].ask /\ record'[s].chain = record[s].chain /\ record'[s].kit = record[s].kit

LEMMA RegisterMoves ==
    ASSUME NEW s \in Sessions, DOMAIN record = Sessions, NEW y, record' = [record EXCEPT ![s] = y]
    PROVE  OnlyOf(s) /\ record'[s] = y
  BY DEF OnlyOf

LEMMA OneMoves ==
    ASSUME IdentitiesTypeOK, Identifying, NEW s \in Sessions, OnlyOf(s),
           Shaped(record'[s]), Recorded(record'[s]), slot' = slot, cursor' \in Nat,
           \A key \in DOMAIN random' : random'[key] \in Streams
    PROVE  (raced' \in BOOLEAN => IdentitiesTypeOK') /\ Identifying'
  <1>1. \A t \in Sessions : Shaped(record'[t]) /\ Recorded(record'[t])
    BY DEF OnlyOf, IdentitiesTypeOK, Identifying
  <1>2. ASSUME raced' \in BOOLEAN
        PROVE  IdentitiesTypeOK'
    <2>1. /\ DOMAIN record' = Sessions /\ DOMAIN slot' = Range(Slots)
          /\ \A i \in Range(Slots) : DOMAIN slot'[i] = {"profile", "spec", "window"}
      BY DEF OnlyOf, IdentitiesTypeOK
    <2> QED BY <1>1, <1>2, <2>1 DEF IdentitiesTypeOK, Shaped
  <1>3. Identifying'
    BY <1>1 DEF Identifying, Recorded, Identified, AskedFor
  <1> QED BY <1>2, <1>3

(* A step that leaves marker, opened and raced alone.                      *)
LEMMA StaysMarked ==
    ASSUME Marked, NEW s \in Sessions, OnlyOf(s), UNCHANGED <<marker, opened, raced>>,
           ~raced /\ record'[s].at = "claiming" => marker = Nothing,
           ~raced /\ record'[s].at = "launching" /\ record'[s].plan.spec.userDataDir # Nothing
             => marker # Nothing /\ marker = record'[s].plan.profile.id
    PROVE  Marked'
  BY DEF Marked, OnlyOf

LEMMA IdentitiesBegin == IdentitiesInit => IdInv
  <1> SUFFICES ASSUME IdentitiesInit
               PROVE  IdInv
    OBVIOUS
  <1>1. Shaped(Blank) /\ Blank.at = "new"
    BY DEF Blank, Shaped, Unplanned, Steps
  <1>2. \A s \in Sessions : record[s] = Blank
    BY DEF IdentitiesInit
  <1>3. \A s \in Sessions : Recorded(record[s])
    BY <1>1, <1>2 DEF Recorded
  <1>4. IdentitiesTypeOK
    <2>1. DOMAIN random = {}
      BY DEF IdentitiesInit
    <2>2. /\ DOMAIN record = Sessions /\ DOMAIN slot = Range(Slots) /\ cursor \in Nat /\ raced = FALSE
          /\ \A i \in Range(Slots) : DOMAIN slot[i] = {"profile", "spec", "window"}
      BY DEF IdentitiesInit, Unplanned
    <2> QED BY <1>1, <1>2, <2>1, <2>2 DEF IdentitiesTypeOK
  <1>5. Identifying
    BY <1>3 DEF IdentitiesInit, Identifying
  <1>6. Marked
    BY <1>1, <1>2 DEF IdentitiesInit, Marked
  <1> QED BY <1>4, <1>5, <1>6 DEF IdInv


LEMMA FreeAskDraws == AskedFor(FreeAsk) /\ FreeAsk.id = Free /\ ~Refuses(FreeAsk)
  <1>1. 1 \in DOMAIN OS /\ 1 \in DOMAIN Majors /\ 1 \in DOMAIN Locale
    BY DEF OS, Majors, Locale
  <1>2. 1 \in SystemsAllowed(FreeAsk) /\ 1 \in MajorsAllowed(FreeAsk) /\ 1 \in LocalesAllowed(FreeAsk)
    BY <1>1 DEF SystemsAllowed, MajorsAllowed, LocalesAllowed, FreeAsk
  <1> QED BY <1>2 DEF FreeAsk, AskedFor, Refuses

(* The rotation of the pool starts behind the cursor and stays within it.  *)
LEMMA RotationStays ==
    ASSUME cursor \in Nat, NEW k \in DOMAIN Slots
    PROVE  Slots[Rotation[k]] \in Range(Slots) /\ (cursor + k) % Len(Slots) \in Nat
  <1>1. Slots \in Seq(Range(Slots)) /\ Len(Slots) \in Nat /\ DOMAIN Slots = 1..Len(Slots)
    BY IdentitiesAssumption
  <1>2. k \in 1..Len(Slots) /\ Len(Slots) > 0
    BY <1>1
  <1>3. (cursor + k - 1) % Len(Slots) \in 0..(Len(Slots) - 1) /\ (cursor + k) % Len(Slots) \in Nat
    BY <1>1, <1>2
  <1>4. Rotation[k] \in DOMAIN Slots
    BY <1>1, <1>3 DEF Rotation
  <1> QED BY <1>3, <1>4 DEF Range

LEMMA SlotStep ==
    ASSUME IdentitiesTypeOK, Identifying, Marked, NEW i \in Range(Slots), StartSlot(i)
    PROVE  IdInv'
  <1>1. PICK row, window :
            /\ Draw(FreeAsk, Nothing, i, row)
            /\ slot' = [slot EXCEPT ![i] =
                    [profile |-> row, spec |-> Resolve(<<CoreFlags(row)>>), window |-> window]]
    BY DEF StartSlot
  <1>2. UNCHANGED <<cursor, record, marker, opened, raced>>
    BY DEF StartSlot
  <1>3. Identified(row) /\ \A key \in DOMAIN random' : random'[key] \in Streams
    BY <1>1, FreeAskDraws, DrawnIdentified
  <1>4. \A j \in Range(Slots) : slot'[j] = Unplanned \/ Identified(slot'[j].profile)
    BY <1>1, <1>3 DEF IdentitiesTypeOK, Identifying
  <1>5. IdentitiesTypeOK'
    <2>1. DOMAIN slot' = Range(Slots) /\ \A j \in Range(Slots) : DOMAIN slot'[j] = {"profile", "spec", "window"}
      BY <1>1 DEF IdentitiesTypeOK
    <2> QED BY <1>2, <1>3, <2>1 DEF IdentitiesTypeOK
  <1>6. Identifying'
    BY <1>2, <1>4 DEF Identifying
  <1>7. Marked'
    BY <1>2 DEF Marked
  <1> QED BY <1>5, <1>6, <1>7 DEF IdInv

-----------------------------------------------------------------------------
(* Of a finite set of numbers each has its turn, so pick finds a row.       *)
LEMMA NthOf ==
    ASSUME NEW k \in Nat, NEW S \in SUBSET (1..k), NEW n \in Nat, n < Cardinality(S)
    PROVE  \E i \in S : Cardinality({j \in S : j < i}) = n
  <1> DEFINE below(i) == {j \in S : j < i}
  <1>0. IsFiniteSet(S) /\ Cardinality(S) \in Nat
    <2>1. IsFiniteSet(1..k)
      BY FS_Interval
    <2> QED BY <2>1, FS_Subset, FS_CardinalityType
  <1>1. \A i \in S : below(i) \in SUBSET S /\ IsFiniteSet(below(i)) /\ Cardinality(below(i)) \in Nat
    BY <1>0, FS_Subset, FS_CardinalityType
  <1>3. PICK i \in S : Cardinality(below(i)) >= n /\ \A j \in S : Cardinality(below(j)) >= n => i <= j
    <2> DEFINE late == {j \in S : Cardinality(below(j)) >= n}
    <2>1. S # {}
      BY FS_EmptySet
    <2>2. PICK m \in S : \A j \in S : j <= m
      BY <2>1, GreatestOne
    <2>3. below(m) = S \ {m}
      <3>1. \A j \in S : j < m <=> j # m
        BY <2>2
      <3> QED BY <3>1
    <2>4. Cardinality(below(m)) = Cardinality(S) - 1
      BY <1>0, <2>3, FS_RemoveElement
    <2>5. m \in late /\ late \in SUBSET Nat /\ late # {}
      <3>1. Cardinality(below(m)) >= n
        BY <1>0, <2>4
      <3> HIDE DEF below
      <3>2. m \in late
        BY <3>1
      <3>3. \A j \in late : j \in Nat
        OBVIOUS
      <3> HIDE DEF late
      <3> QED BY <3>2, <3>3
    <2> QED BY <2>5, LeastOne
  <1>4. CASE Cardinality(below(i)) > n
    <2>1. below(i) # {}
      BY <1>4, FS_EmptySet
    <2>2. PICK p \in below(i) : \A j \in below(i) : j <= p
      <3>1. below(i) \in SUBSET (1..k)
        OBVIOUS
      <3> QED BY <2>1, <3>1, GreatestOne
    <2>3. below(p) = below(i) \ {p}
      <3>1. \A j \in S : j \in Nat
        OBVIOUS
      <3>2. \A j \in S : j < p <=> j < i /\ j # p
        BY <2>2, <3>1
      <3> QED BY <3>2
    <2>4. Cardinality(below(p)) = Cardinality(below(i)) - 1
      BY <1>1, <2>2, <2>3, FS_RemoveElement
    <2>5. Cardinality(below(p)) >= n /\ p < i /\ p \in S
      BY <1>1, <1>4, <2>2, <2>4
    <2> QED BY <1>3, <2>5
  <1> QED BY <1>1, <1>3, <1>4

LEMMA Picks ==
    ASSUME NEW rows, NEW k \in Nat, NEW kept \in SUBSET (1..k), kept # {}, NEW r \in 0..(Points - 1)
    PROVE  \E i \in kept : PickFrom(rows, kept, r) = rows[i]
  <1> DEFINE n == Cardinality(kept)
             q == (r * n) \div Points
  <1>1. n \in Nat /\ n > 0 /\ Points \in Nat \ {0}
    <2>1. IsFiniteSet(1..k)
      BY FS_Interval
    <2>2. IsFiniteSet(kept)
      BY <2>1, FS_Subset
    <2> QED BY <2>2, FS_CardinalityType, FS_EmptySet, MachinesAssumption
  <1> HIDE DEF n
  <1>2. r * n < Points * n /\ r * n \in Nat
    BY <1>1
  <1>3. q \in Nat /\ q * Points <= r * n
    BY <1>1, <1>2
  <1>4. q < n
    BY <1>1, <1>2, <1>3
  <1> HIDE DEF q
  <1>5. \E i \in kept : Cardinality({j \in kept : j < i}) = q
    BY <1>3, <1>4, NthOf DEF n
  <1> QED BY <1>5 DEF PickFrom, n, q

LEMMA PicksRow ==
    ASSUME NEW rows, NEW k \in Nat \ {0}, DOMAIN rows = 1..k, NEW r \in 0..(Points - 1)
    PROVE  \E i \in 1..k : Pick(rows, r) = rows[i]
  <1>1. DOMAIN rows \in SUBSET (1..k) /\ 1 \in DOMAIN rows
    OBVIOUS
  <1>2. \E i \in DOMAIN rows : PickFrom(rows, DOMAIN rows, r) = rows[i]
    BY <1>1, Picks
  <1> QED BY <1>2 DEF Pick

(* Whatever the constraint and the numbers, what is drawn is one machine.   *)
LEMMA MachineIsOne ==
    ASSUME NEW c, ~Refuses(c), NEW stream, \A i \in 1..10 : stream[i] \in 0..(Points - 1), NEW seed, NEW source
    PROVE  LET row == Machine(c, stream, seed, source)
           IN  IsRow(row) /\ row.source = source /\ \A tie \in Ties : Holds(tie, row)
  <1> DEFINE os      == PickFrom(OS, SystemsAllowed(c), stream[1])
             arch    == Pick(Arch[os], stream[2])
             chrome  == PickFrom(Majors, MajorsAllowed(c), stream[4])
             place   == PickFrom(Locale, LocalesAllowed(c), stream[5])
             display == Pick(Display[os], stream[6])
             gpus    == IF <<os, arch>> \in DOMAIN GPU THEN GPU[<<os, arch>>] ELSE GPU[<<"Linux", "x86">>]
             gpu     == Pick(gpus, stream[7])
  <1>0. /\ stream[1] \in 0..(Points - 1) /\ stream[2] \in 0..(Points - 1) /\ stream[5] \in 0..(Points - 1)
        /\ stream[7] \in 0..(Points - 1)
    OBVIOUS
  <1>1. os \in {"Windows", "macOS", "Linux"}
    <2>1. SystemsAllowed(c) \in SUBSET (1..3) /\ SystemsAllowed(c) # {}
      BY DEF SystemsAllowed, OS, Refuses
    <2>2. \E i \in SystemsAllowed(c) : os = OS[i]
      BY <1>0, <2>1, Picks
    <2> QED BY <2>1, <2>2 DEF OS
  <1>2. \E i \in DOMAIN Locale : place = Locale[i]
    <2>1. DOMAIN Locale = 1..12
      BY DEF Locale
    <2>2. LocalesAllowed(c) \in SUBSET (1..12) /\ LocalesAllowed(c) # {}
      BY <2>1 DEF LocalesAllowed, Refuses
    <2>3. \E i \in LocalesAllowed(c) : place = Locale[i]
      BY <1>0, <2>2, Picks
    <2> QED BY <2>1, <2>2, <2>3
  <1> HIDE DEF os, place
  <1>3. arch \in {"x86", "arm"}
    <2>1. 2 \in Nat \ {0} /\ DOMAIN Arch[os] = 1..2 /\ \A i \in 1..2 : Arch[os][i] \in {"x86", "arm"}
      BY <1>1 DEF Arch
    <2>2. \E i \in 1..2 : arch = Arch[os][i]
      BY <1>0, <2>1, PicksRow, Zenon
    <2> QED BY <2>1, <2>2
  <1> HIDE DEF arch
  <1>4. /\ gpu.angle = "D3D11" <=> os = "Windows"
        /\ gpu.angle = "Metal" <=> os = "macOS" /\ arch = "arm"
        /\ gpu.vendor \in {"Intel", "AMD", "NVIDIA"} <=> arch = "x86"
    <2>1. gpus = GPU[<<os, arch>>]
      BY <1>1, <1>3 DEF GPU
    <2> HIDE DEF gpus
    <2>2. CASE os = "Windows" /\ arch = "x86"
      <3>1. gpus = <<D3d("Intel"), D3d("NVIDIA"), D3d("AMD")>>
        BY <2>1, <2>2 DEF GPU
      <3>2. DOMAIN gpus = 1..3 /\ 3 \in Nat \ {0}
        BY <3>1
      <3>3. \E i \in 1..3 : gpu = gpus[i]
        BY <1>0, <3>2, PicksRow, Zenon
      <3> QED BY <2>2, <3>1, <3>3 DEF D3d
    <2>3. CASE os = "Windows" /\ arch = "arm"
      <3>1. gpus = <<D3d("Qualcomm")>>
        BY <2>1, <2>3 DEF GPU
      <3>2. DOMAIN gpus = 1..1 /\ 1 \in Nat \ {0}
        BY <3>1
      <3>3. \E i \in 1..1 : gpu = gpus[i]
        BY <1>0, <3>2, PicksRow, Zenon
      <3> QED BY <2>3, <3>1, <3>3 DEF D3d
    <2>4. CASE os = "macOS" /\ arch = "arm"
      <3>1. gpus = <<Metal>>
        BY <2>1, <2>4 DEF GPU
      <3>2. DOMAIN gpus = 1..1 /\ 1 \in Nat \ {0}
        BY <3>1
      <3>3. \E i \in 1..1 : gpu = gpus[i]
        BY <1>0, <3>2, PicksRow, Zenon
      <3> QED BY <2>4, <3>1, <3>3 DEF Metal
    <2>5. CASE os = "macOS" /\ arch = "x86"
      <3>1. gpus = <<Gl("Intel"), Gl("AMD")>>
        BY <2>1, <2>5 DEF GPU
      <3>2. DOMAIN gpus = 1..2 /\ 2 \in Nat \ {0}
        BY <3>1
      <3>3. \E i \in 1..2 : gpu = gpus[i]
        BY <1>0, <3>2, PicksRow, Zenon
      <3> QED BY <2>5, <3>1, <3>3 DEF Gl
    <2>6. CASE os = "Linux" /\ arch = "x86"
      <3>1. gpus = <<Gl("Intel"), Gl("AMD"), Gl("NVIDIA")>>
        BY <2>1, <2>6 DEF GPU
      <3>2. DOMAIN gpus = 1..3 /\ 3 \in Nat \ {0}
        BY <3>1
      <3>3. \E i \in 1..3 : gpu = gpus[i]
        BY <1>0, <3>2, PicksRow, Zenon
      <3> QED BY <2>6, <3>1, <3>3 DEF Gl
    <2>7. CASE os = "Linux" /\ arch = "arm"
      <3>1. gpus = <<Gl("ARM")>>
        BY <2>1, <2>7 DEF GPU
      <3>2. DOMAIN gpus = 1..1 /\ 1 \in Nat \ {0}
        BY <3>1
      <3>3. \E i \in 1..1 : gpu = gpus[i]
        BY <1>0, <3>2, PicksRow, Zenon
      <3> QED BY <2>7, <3>1, <3>3 DEF Gl
    <2> QED BY <1>1, <1>3, <2>2, <2>3, <2>4, <2>5, <2>6, <2>7
  <1> DEFINE row == Machine(c, stream, seed, source)
  <1>5. /\ DOMAIN row = Fields /\ row.os = os /\ row.arch = arch /\ row.gpu = gpu /\ row.chrome = chrome
        /\ row.brands = Brands(chrome) /\ row.userAgent = UserAgent(os, chrome) /\ row.fonts = Fonts[os]
        /\ row.locale = place[1] /\ row.timezone = place[2] /\ row.chromeHeight = ChromeHeight[os]
        /\ row.source = source
    <2>1. PICK d : d = display
      OBVIOUS
    <2> QED BY DEF Machine, Fields, os, arch, place
  <1> HIDE DEF row, gpu, gpus, chrome
  <1>6. row.chromeHeight \in Int
    BY <1>1, <1>5 DEF ChromeHeight
  <1>7. \E i \in DOMAIN Locale : <<row.locale, row.timezone>> = Locale[i]
    <2>1. \A i \in DOMAIN Locale : <<Locale[i][1], Locale[i][2]>> = Locale[i]
      BY DEF Locale
    <2> QED BY <1>2, <1>5, <2>1
  <1>8. IsRow(row)
    BY <1>5, <1>6 DEF IsRow, UserAgent
  <1>9. ASSUME NEW tie \in Ties
        PROVE  Holds(tie, row)
    <2>1. CASE tie = "graphics"
      BY <1>4, <1>5, <2>1 DEF Holds
    <2>2. CASE tie = "version"
      BY <1>5, <2>2 DEF Holds, UserAgent
    <2>3. CASE tie = "agent"
      BY <1>5, <2>3 DEF Holds, UserAgent
    <2>4. CASE tie = "fonts"
      BY <1>1, <1>5, <2>4 DEF Holds, Fonts
    <2>5. CASE tie = "place"
      BY <1>7, <2>5 DEF Holds
    <2> QED BY <2>1, <2>2, <2>3, <2>4, <2>5 DEF Ties, FieldsOf
  <1> QED BY <1>5, <1>8, <1>9 DEF row

LEMMA RegisterStep ==
    ASSUME IdentitiesTypeOK, Identifying, Marked, NEW s \in Sessions, NEW ask \in Asks \cup Replay,
           NEW loaders \in Chains, NEW kit \in Kits, Register(s, ask, loaders, kit)
    PROVE  IdInv'
  <1>1. AskedFor(ask)
    <2>1. CASE ask \in Asks
      BY <2>1, IdentitiesAssumption DEF AskedFor
    <2>2. CASE ask \in Replay
      <3>1. PICK t \in Sessions : record[t].at = "sealed" /\ ask = [FreeAsk EXCEPT !.id = record[t].sealed.id]
        BY <2>2 DEF Replay
      <3>2. record[t].sealed.id # Nothing
        BY <3>1 DEF Identifying, Recorded, Identified
      <3>3. PICK id : id = record[t].sealed.id
        OBVIOUS
      <3>4. ask = [id |-> id, os |-> Free, locale |-> Free, timezone |-> Free, minChrome |-> Free]
        BY <3>1, <3>3 DEF FreeAsk
      <3> QED BY <3>2, <3>3, <3>4 DEF AskedFor, FreeAsk
    <2> QED BY <2>1, <2>2
  <1>2. UNCHANGED <<random, slot, marker, opened, raced>>
    BY DEF Register
  <1>3. PICK r : r = [Blank EXCEPT !.ask = ask, !.chain = loaders, !.kit = kit]
    OBVIOUS
  <1>4. r = [at |-> "new", ask |-> ask, chain |-> loaders, kit |-> kit, plan |-> Unplanned,
             corrections |-> {}, sealed |-> Nothing]
    BY <1>3 DEF Blank
  <1>5. Shaped(record[s]) /\ DOMAIN record = Sessions /\ cursor \in Nat
    BY DEF IdentitiesTypeOK
  <1>6. CASE kit = "none" /\ Answering(ask) # {}
    <2>1. PICK k : k = CHOOSE n \in Answering(ask) : \A j \in Answering(ask) : n <= j
      OBVIOUS
    <2>2. /\ record' = [record EXCEPT ![s] = [r EXCEPT !.at = "ready", !.plan = slot[Slots[Rotation[k]]]]]
          /\ cursor' = (cursor + k) % Len(Slots)
      BY <1>3, <1>6, <2>1 DEF Register
    <2>3. k \in Answering(ask) /\ k \in DOMAIN Slots
      <3>1. Answering(ask) \subseteq Nat /\ Answering(ask) \subseteq DOMAIN Slots
        BY IdentitiesAssumption DEF Answering
      <3>2. \E n \in Answering(ask) : \A j \in Answering(ask) : n <= j
        BY <1>6, <3>1, LeastOne
      <3> QED BY <2>1, <3>1, <3>2
    <2>4. Slots[Rotation[k]] \in Range(Slots) /\ (cursor + k) % Len(Slots) \in Nat
      BY <1>5, <2>3, RotationStays
    <2>5. PICK plan : plan = slot[Slots[Rotation[k]]]
      OBVIOUS
    <2>6. DOMAIN plan = {"profile", "spec", "window"} /\ Identified(plan.profile)
      BY <2>4, <2>5 DEF Register, IdentitiesTypeOK, Identifying
    <2>7. PICK q : q = [r EXCEPT !.at = "ready"]
      OBVIOUS
    <2>8. q = [at |-> "ready", ask |-> ask, chain |-> loaders, kit |-> kit, plan |-> Unplanned,
             corrections |-> {}, sealed |-> Nothing]
      BY <1>4, <2>7
    <2>9. [q EXCEPT !.plan = plan] =
            [at |-> "ready", ask |-> ask, chain |-> loaders, kit |-> kit, plan |-> plan,
             corrections |-> {}, sealed |-> Nothing]
      BY <2>8
    <2>10. OnlyOf(s) /\ record'[s] =
            [at |-> "ready", ask |-> ask, chain |-> loaders, kit |-> kit, plan |-> plan,
             corrections |-> {}, sealed |-> Nothing]
      <3>1. [r EXCEPT !.at = "ready", !.plan = slot[Slots[Rotation[k]]]] = [q EXCEPT !.plan = plan]
        BY <2>5, <2>7
      <3> QED BY <1>5, <2>2, <2>9, <3>1, RegisterMoves
    <2>11. Shaped(record'[s]) /\ Recorded(record'[s])
      BY <1>1, <2>6, <2>10 DEF Shaped, Recorded, Steps
    <2>12. IdentitiesTypeOK' /\ Identifying'
      BY <1>2, <2>2, <2>4, <2>10, <2>11, OneMoves DEF IdentitiesTypeOK
    <2>13. Marked'
      BY <1>2, <2>10, StaysMarked
    <2> QED BY <2>12, <2>13 DEF IdInv
  <1>7. CASE ~(kit = "none" /\ Answering(ask) # {})
    <2>1. record' = [record EXCEPT ![s] = [r EXCEPT !.at = "drawing"]] /\ cursor' = cursor
      BY <1>3, <1>7 DEF Register
    <2>2. [r EXCEPT !.at = "drawing"] =
            [at |-> "drawing", ask |-> ask, chain |-> loaders, kit |-> kit, plan |-> Unplanned,
             corrections |-> {}, sealed |-> Nothing]
      BY <1>4
    <2>3. OnlyOf(s) /\ record'[s] =
            [at |-> "drawing", ask |-> ask, chain |-> loaders, kit |-> kit, plan |-> Unplanned,
             corrections |-> {}, sealed |-> Nothing]
      BY <1>5, <2>1, <2>2, RegisterMoves
    <2>4. Shaped(record'[s]) /\ Recorded(record'[s])
      BY <1>1, <2>3 DEF Shaped, Recorded, Steps, Unplanned
    <2>5. IdentitiesTypeOK' /\ Identifying'
      BY <1>2, <1>5, <2>1, <2>3, <2>4, OneMoves DEF IdentitiesTypeOK
    <2>6. Marked'
      BY <1>2, <2>3, StaysMarked
    <2> QED BY <2>5, <2>6 DEF IdInv
  <1> QED BY <1>6, <1>7

(* The part of Launch in which the process starts.                         *)
Started(s, window, found) ==
    /\ LET row == record[s].plan.profile
           all == <<CoreFinds(row, CommandLine(record[s].plan.spec, s))>> \o found
       IN  record' = [record EXCEPT ![s].at = "ready", ![s].plan.profile = Corrected(row, all),
                         ![s].plan.window = window,
                         ![s].corrections = {<<x[1], NameAt(all, x)>> : x \in Places(all)}]
    /\ opened' = IF record[s].plan.spec.userDataDir = Nothing THEN opened
                 ELSE opened \cup {record[s].plan.profile.id}

LEMMA SessionStep ==
    ASSUME IdentitiesTypeOK, Identifying, Marked, NEW s \in Sessions, Session(s)
    PROVE  IdInv'
  <1>0. Shaped(record[s]) /\ DOMAIN record = Sessions /\ Recorded(record[s]) /\ raced \in BOOLEAN /\ cursor \in Nat
        /\ \A key \in DOMAIN random : random[key] \in Streams
    BY DEF IdentitiesTypeOK, Identifying
  <1>1. CASE PlanDraw(s)
    <2>1. PICK row : /\ Draw(record[s].ask, record[s].chain, SeedOf(s), row)
                     /\ record' = [record EXCEPT ![s].plan.profile = row,
                                       ![s].at = IF row = Nothing THEN "failed" ELSE "resolving"]
      BY <1>1 DEF PlanDraw
    <2>2. record[s].at = "drawing" /\ UNCHANGED <<slot, cursor, marker, opened, raced>>
      BY <1>1 DEF PlanDraw
    <2>3. AskedFor(record[s].ask) /\ record[s].chain \in Chains /\ record[s].kit \in Kits
      BY <1>0, <2>2 DEF Recorded
    <2>4. record[s].ask.id = Free => SeedOf(s) \in Sessions \cup Range(Slots)
      BY DEF SeedOf
    <2>5. Identified(row) \/ row = Nothing
      BY <2>1, <2>3, <2>4, DrawnIdentified
    <2>6. \A key \in DOMAIN random' : random'[key] \in Streams
      BY <2>1, <2>3, <2>4, DrawnIdentified
    <2>7. /\ Same(s) /\ record'[s].at = (IF row = Nothing THEN "failed" ELSE "resolving")
          /\ record'[s].plan.profile = row
      BY <1>0, <2>1 DEF Shaped, Same, OnlyOf
    <2>8. Shaped(record'[s]) /\ Recorded(record'[s]) /\ OnlyOf(s)
      BY <1>0, <2>3, <2>5, <2>7 DEF Shaped, Recorded, Same, Steps
    <2>9. IdentitiesTypeOK' /\ Identifying'
      BY <1>0, <2>2, <2>6, <2>8, OneMoves
    <2>10. Marked'
      BY <2>2, <2>7, <2>8, StaysMarked
    <2> QED BY <2>9, <2>10 DEF IdInv
  <1>2. CASE PlanResolve(s)
    <2> DEFINE row  == record[s].plan.profile
               spec == Resolve(<<CoreFlags(row)>> \o Authored(record[s].kit, <<row.locale, row.timezone>>))
               at   == IF spec.failed \/ (spec.userDataDir # Nothing /\ record[s].ask.id = Free) THEN "failed"
                       ELSE IF spec.userDataDir # Nothing THEN "pairing" ELSE "launching"
    <2>0. record' = [record EXCEPT ![s].plan.spec = spec, ![s].at = at]
      BY <1>2 DEF PlanResolve
    <2>1. at \in {"failed", "pairing", "launching"} /\ (at = "launching" => spec.userDataDir = Nothing)
      OBVIOUS
    <2> HIDE DEF at, spec
    <2>2. record[s].at = "resolving" /\ UNCHANGED <<random, slot, cursor, marker, opened, raced>>
      BY <1>2 DEF PlanResolve
    <2>3. /\ Same(s) /\ record'[s].at = at /\ record'[s].plan.profile = record[s].plan.profile
          /\ record'[s].plan.spec = spec
      BY <1>0, <2>0 DEF Shaped, Same, OnlyOf
    <2>4. Shaped(record'[s]) /\ Recorded(record'[s]) /\ OnlyOf(s)
      BY <1>0, <2>1, <2>2, <2>3 DEF Shaped, Recorded, Same, Steps
    <2>5. IdentitiesTypeOK' /\ Identifying'
      BY <1>0, <2>2, <2>4, OneMoves
    <2>6. Marked'
      BY <2>1, <2>2, <2>3, <2>4, StaysMarked
    <2> QED BY <2>5, <2>6 DEF IdInv
  <1>3. CASE Pair(s)
    <2>1. PICK at :
            /\ record' = [record EXCEPT ![s].at = at]
            /\ at = IF marker = Nothing THEN "claiming"
                    ELSE IF marker = record[s].plan.profile.id THEN "launching" ELSE "failed"
      BY <1>3 DEF Pair
    <2>2. record[s].at = "pairing" /\ UNCHANGED <<random, slot, cursor, marker, opened, raced>>
      BY <1>3 DEF Pair
    <2>3. Same(s) /\ record'[s].at = at /\ record'[s].plan = record[s].plan
      BY <1>0, <2>1 DEF Shaped, Same, OnlyOf
    <2>4. Shaped(record'[s]) /\ Recorded(record'[s]) /\ OnlyOf(s)
      BY <1>0, <2>1, <2>2, <2>3 DEF Shaped, Recorded, Same, Steps
    <2>5. IdentitiesTypeOK' /\ Identifying'
      BY <1>0, <2>2, <2>4, OneMoves
    <2>6. Marked'
      BY <2>1, <2>2, <2>3, <2>4, StaysMarked
    <2> QED BY <2>5, <2>6 DEF IdInv
  <1>4. CASE Claim(s)
    <2>1. /\ record[s].at = "claiming" /\ marker' = record[s].plan.profile.id
          /\ record' = [record EXCEPT ![s].at = "launching"] /\ UNCHANGED <<random, slot, cursor, opened>>
          /\ raced' = (raced \/ \E t \in Sessions \ {s} : record[t].at = "claiming" \/ marker # Nothing)
      BY <1>4 DEF Claim
    <2>2. Same(s) /\ record'[s].at = "launching" /\ record'[s].plan = record[s].plan
      BY <1>0, <2>1 DEF Shaped, Same, OnlyOf
    <2>3. Shaped(record'[s]) /\ Recorded(record'[s]) /\ OnlyOf(s)
      BY <1>0, <2>1, <2>2 DEF Shaped, Recorded, Same, Steps
    <2>4. raced' \in BOOLEAN
      BY <2>1
    <2>5. IdentitiesTypeOK' /\ Identifying'
      BY <1>0, <2>1, <2>3, <2>4, OneMoves
    <2>6. ~raced' => ~raced /\ \A t \in Sessions \ {s} : record[t].at # "claiming"
      BY <2>1
    <2>7. marker' # Nothing
      BY <1>0, <2>1 DEF Recorded, Identified
    <2>8. ~raced' => marker = Nothing
      BY <2>1, <2>6 DEF Marked
    <2>9. ~raced' => opened' = {} /\ \A t \in Sessions \ {s} :
            /\ record'[t].at # "claiming"
            /\ ~(record'[t].at = "launching" /\ record'[t].plan.spec.userDataDir # Nothing)
      BY <2>1, <2>3, <2>6, <2>8 DEF Marked, OnlyOf
    <2>10. Marked'
      BY <2>1, <2>2, <2>7, <2>9 DEF Marked
    <2> QED BY <2>5, <2>10 DEF IdInv
  <1>5. CASE Launch(s)
    <2>1. record[s].at = "launching" /\ UNCHANGED <<random, slot, cursor, marker, raced>>
      BY <1>5 DEF Launch
    <2>2. CASE record' = [record EXCEPT ![s].at = "failed"] /\ opened' = opened
      <3>1. Same(s) /\ record'[s].at = "failed"
        BY <1>0, <2>2 DEF Shaped, Same, OnlyOf
      <3>2. Shaped(record'[s]) /\ Recorded(record'[s]) /\ OnlyOf(s)
        BY <1>0, <2>1, <3>1 DEF Shaped, Recorded, Same, Steps
      <3>3. IdentitiesTypeOK' /\ Identifying'
        BY <1>0, <2>1, <3>2, OneMoves
      <3>4. Marked'
        BY <2>1, <2>2, <3>1, <3>2, StaysMarked
      <3> QED BY <3>3, <3>4 DEF IdInv
    <2>3. CASE \E window \in Windows(record[s].plan.spec.flags), found \in Finds[record[s].kit] :
                    Started(s, window, found)
      <3>0. PICK window \in Windows(record[s].plan.spec.flags), found \in Finds[record[s].kit] : Started(s, window, found)
        BY <2>3
      <3>1. PICK row, named :
              /\ row = Corrected(record[s].plan.profile,
                    <<CoreFinds(record[s].plan.profile, CommandLine(record[s].plan.spec, s))>> \o found)
              /\ record' = [record EXCEPT ![s].at = "ready", ![s].plan.profile = row, ![s].plan.window = window,
                                ![s].corrections = named]
        BY <3>0 DEF Started
      <3>9. Corrections(found)
        BY <1>0, <2>1, IdentitiesAssumption DEF Recorded
      <3>2. Identified(row)
        BY <1>0, <2>1, <3>1, <3>9, SettersKeepId DEF Recorded
      <3>3. Same(s) /\ record'[s].at = "ready" /\ record'[s].plan.profile = row
        BY <1>0, <3>1 DEF Shaped, Same, OnlyOf
      <3>4. Shaped(record'[s]) /\ Recorded(record'[s]) /\ OnlyOf(s)
        BY <1>0, <2>1, <3>2, <3>3 DEF Shaped, Recorded, Same, Steps
      <3>5. IdentitiesTypeOK' /\ Identifying'
        BY <1>0, <2>1, <3>4, OneMoves
      <3>6. ~raced => opened' \subseteq {marker} \ {Nothing}
        BY <2>1, <3>0 DEF Marked, Started
      <3>7. Marked'
        BY <2>1, <3>3, <3>4, <3>6 DEF Marked, OnlyOf
      <3> QED BY <3>5, <3>7 DEF IdInv
    <2> QED BY <1>5, <2>2, <2>3 DEF Launch, Started
  <1>6. CASE Seal(s)
    <2>1. PICK row : /\ row = Reconcile(record[s].plan.profile, Binary)
                     /\ record' = [record EXCEPT ![s].at = "sealed", ![s].sealed = row]
      BY <1>6 DEF Seal
    <2>2. record[s].at = "ready" /\ UNCHANGED <<random, slot, cursor, marker, opened, raced>>
      BY <1>6 DEF Seal
    <2>3. Identified(row)
      BY <1>0, <2>1, <2>2, SettersKeepId DEF Recorded
    <2>4. Same(s) /\ record'[s].at = "sealed" /\ record'[s].plan = record[s].plan /\ record'[s].sealed = row
      BY <1>0, <2>1 DEF Shaped, Same, OnlyOf
    <2>5. Shaped(record'[s]) /\ Recorded(record'[s]) /\ OnlyOf(s)
      BY <1>0, <2>2, <2>3, <2>4 DEF Shaped, Recorded, Same, Steps
    <2>6. IdentitiesTypeOK' /\ Identifying'
      BY <1>0, <2>2, <2>5, OneMoves
    <2>7. Marked'
      BY <2>2, <2>4, <2>5, StaysMarked
    <2> QED BY <2>6, <2>7 DEF IdInv
  <1> QED BY <1>1, <1>2, <1>3, <1>4, <1>5, <1>6 DEF Session

LEMMA IdentitiesInvariance == IdentitiesSpec => []IdInv
  <1>1. IdentitiesInit => IdInv
    BY IdentitiesBegin
  <1>2. IdInv /\ [IdentitiesNext]_identitiesVars => IdInv'
    <2> SUFFICES ASSUME IdInv, [IdentitiesNext]_identitiesVars
                 PROVE  IdInv'
      OBVIOUS
    <2>1. IdentitiesTypeOK /\ Identifying /\ Marked
      BY DEF IdInv
    <2>2. CASE UNCHANGED identitiesVars
      BY <2>2 DEF IdInv, IdentitiesTypeOK, Identifying, Marked, identitiesVars
    <2> QED BY <2>1, <2>2, SlotStep, RegisterStep, SessionStep DEF IdentitiesNext
  <1> QED BY <1>1, <1>2, PTL DEF IdentitiesSpec
-----------------------------------------------------------------------------
(* Every record of the registry and every slot of the pool has its shape,   *)
(* whatever is drawn, planned, launched or fails.                          *)
THEOREM IdentitiesTypes == IdentitiesSpec => []IdentitiesTypeOK
  <1>1. IdInv => IdentitiesTypeOK
    BY DEF IdInv
  <1> QED BY <1>1, IdentitiesInvariance, PTL

(* A data dir is opened under one identity only, for any number of sessions *)
(* that ask for anything, draw from any loader and bring any launch plugin, *)
(* unless two registrations found it unclaimed at a time.                  *)
THEOREM OnePersonaPerDir == IdentitiesSpec => []DirKeepsPersona
  <1>1. IdInv => DirKeepsPersona
    <2> SUFFICES ASSUME IdInv, ~raced
                 PROVE  Cardinality(opened) <= 1
      BY DEF DirKeepsPersona
    <2>1. opened \in SUBSET {marker}
      BY DEF IdInv, Marked
    <2>2. IsFiniteSet({marker}) /\ Cardinality({marker}) = 1
      BY FS_Singleton
    <2> QED BY <2>1, <2>2, FS_Subset
  <1> QED BY <1>1, IdentitiesInvariance, PTL
-----------------------------------------------------------------------------
(* What the merge of the launch plugins leaves.                             *)
(* A name that ends up with another value than some plugin gave it was     *)
(* overridden, and there is a note of that.                                *)
LEMMA OverridesAreNoted ==
    ASSUME NEW claims, Listed(claims), NEW name, NEW x \in Naming(claims, name)
    PROVE  /\ name \in DOMAIN ByName(claims)
           /\ \/ ByName(claims)[name] = ValueAt(claims, x)
              \/ \E y \in Overrides(claims) : NameAt(claims, y) = name
  <1> DEFINE all   == Naming(claims, name)
             value == ValueAt(claims, x)
  <1>1. name \in DOMAIN ByName(claims) /\ ByName(claims)[name] = ValueAt(claims, LastOf(claims, name))
    BY DEF ByName, Naming
  <1>2. all \in SUBSET Places(claims) /\ all # {}
    BY DEF Naming
  <1>3. \A y \in all : y = <<y[1], y[2]>> /\ y[1] \in Nat /\ y[2] \in Nat
    BY <1>2, Outermost
  <1>4. LastOf(claims, name) \in all /\ \A y \in all : ~Earlier(LastOf(claims, name), y)
    BY <1>2, Outermost DEF LastOf
  <1>5. ASSUME ValueAt(claims, LastOf(claims, name)) # value
        PROVE  \E y \in Overrides(claims) : NameAt(claims, y) = name
    <2> DEFINE others == {y \in all : ValueAt(claims, y) # value /\ Earlier(x, y)}
    <2>1. LastOf(claims, name) \in others
      <3>1. x # LastOf(claims, name)
        BY <1>5
      <3> QED BY <1>3, <1>4, <1>5, <3>1 DEF Earlier
    <2>2. others \in SUBSET Places(claims)
      BY <1>2
    <2>3. PICK y \in others : \A z \in others : ~Earlier(z, y)
      BY <2>1, <2>2, Outermost
    <2> DEFINE before == {z \in all : Earlier(z, y)}
    <2>4. x \in before /\ before \in SUBSET Places(claims)
      BY <1>2, <2>3
    <2>5. PICK w \in before : \A z \in before : ~Earlier(w, z)
      BY <2>4, Outermost
    <2>6. ValueAt(claims, w) = value
      <3>1. ~Earlier(w, x) /\ w \in all
        BY <2>4, <2>5
      <3>2. w = x \/ Earlier(x, w)
        BY <1>3, <3>1 DEF Earlier
      <3>3. w \notin others
        BY <2>3, <2>5
      <3> QED BY <3>1, <3>2, <3>3
    <2>7. y \in Places(claims) /\ NameAt(claims, y) = name
      BY <2>3 DEF Naming
    <2>8. /\ w \in Naming(claims, NameAt(claims, y)) /\ Earlier(w, y)
          /\ ValueAt(claims, w) # ValueAt(claims, y)
          /\ \A z \in Naming(claims, NameAt(claims, y)) : Earlier(z, y) => ~Earlier(w, z)
      BY <2>3, <2>5, <2>6, <2>7
    <2> QED BY <2>7, <2>8 DEF Overrides
  <1> QED BY <1>1, <1>5

LangKept(row, spec) ==
    spec.flags["--lang"] = row.locale \/ \E note \in spec.conflicts : note[1] = "--lang"

Fits(row, spec) ==
    WindowOf(spec.flags) \in Sizes
        => WindowOf(spec.flags) = <<row.viewport[1], row.viewport[2] + row.chromeHeight>>

Window(row) == <<row.viewport[1], row.viewport[2] + row.chromeHeight>>

LEMMA TwoAndTwo ==
    ASSUME NEW a, NEW b, NEW c, NEW d
    PROVE  LET t == <<a, b>> \o <<c, d>>
           IN  DOMAIN t = 1..4 /\ t[1] = a /\ t[2] = b /\ t[3] = c /\ t[4] = d
  OBVIOUS

LEMMA CoreNames ==
    ASSUME NEW row
    PROVE  LET flags == CoreFlags(row).flags
           IN  /\ DOMAIN flags = 1..4 /\ CoreFlags(row).extension = Nothing
               /\ flags[1][1] = "--use-gl" /\ flags[2][1] = "--disable-extensions"
               /\ flags[3] = <<"--lang", row.locale>> /\ flags[4] = <<"--window-size", Window(row)>>
  <1>1. PICK c, d : c = <<"--lang", row.locale>> /\ d = <<"--window-size", Window(row)>>
    OBVIOUS
  <1>2. PICK a, b : a = <<"--use-gl", "angle">> /\ b = <<"--disable-extensions", "">>
    OBVIOUS
  <1>3. PICK f : f = <<a, b>> \o <<c, d>>
    OBVIOUS
  <1>4. CoreFlags(row) = [NoHooks EXCEPT !.plugin = "flags", !.flags = f]
    BY <1>1, <1>2, <1>3 DEF CoreFlags, Window, Baseline
  <1>5. CoreFlags(row).flags = f /\ CoreFlags(row).extension = Nothing
    BY <1>4 DEF NoHooks
  <1>6. DOMAIN f = 1..4 /\ f[1] = a /\ f[2] = b /\ f[3] = c /\ f[4] = d
    BY <1>3, TwoAndTwo
  <1>7. a[1] = "--use-gl" /\ b[1] = "--disable-extensions"
    BY <1>2
  <1> QED BY <1>1, <1>5, <1>6, <1>7

(* What core says about the language goes into the merge first, so it is    *)
(* on the command line or overridden with a note.                          *)
LEMMA LangSurvives ==
    ASSUME NEW row, NEW plugins, NEW n \in Nat \ {0}, DOMAIN plugins = 1..n, plugins[1] = CoreFlags(row),
           \A p \in 1..n : \E m \in Nat : DOMAIN plugins[p].flags = 1..m
    PROVE  LangKept(row, Resolve(plugins))
  <1> DEFINE claims == [p \in DOMAIN plugins |-> plugins[p].flags]
             x      == <<1, 3>>
             spec   == Resolve(plugins)
  <1>1. DOMAIN claims = 1..n /\ \A p \in 1..n : claims[p] = plugins[p].flags
    OBVIOUS
  <1>2. Listed(claims)
    BY <1>1 DEF Listed
  <1>3. claims[1] = CoreFlags(row).flags
    BY <1>1
  <1> HIDE DEF claims
  <1>4. DOMAIN claims[1] = 1..4 /\ claims[1][3] = <<"--lang", row.locale>>
    <2>1. PICK f : f = CoreFlags(row).flags
      OBVIOUS
    <2> QED BY <1>3, <2>1, CoreNames
  <1>5. x \in Naming(claims, "--lang") /\ ValueAt(claims, x) = row.locale
    BY <1>1, <1>4 DEF Naming, Places, NameAt, ValueAt
  <1>6. /\ "--lang" \in DOMAIN ByName(claims)
        /\ \/ ByName(claims)["--lang"] = row.locale
           \/ \E y \in Overrides(claims) : NameAt(claims, y) = "--lang"
    BY <1>2, <1>5, OverridesAreNoted
  <1>7. /\ \/ spec.flags = ByName(claims)
           \/ \E loaded : spec.flags = With(ByName(claims), "--load-extension", loaded)
        /\ \A y \in Overrides(claims) : <<NameAt(claims, y), plugins[y[1]].plugin>> \in spec.conflicts
    BY DEF Resolve, claims
  <1> HIDE DEF spec
  <1>8. spec.flags["--lang"] = ByName(claims)["--lang"]
    BY <1>6, <1>7 DEF With
  <1>9. (\E y \in Overrides(claims) : NameAt(claims, y) = "--lang") => \E note \in spec.conflicts : note[1] = "--lang"
    BY <1>7
  <1> QED BY <1>6, <1>8, <1>9 DEF LangKept, spec

(* With core alone the window is the one the identity claims.               *)
LEMMA CoreAlone ==
    ASSUME NEW row
    PROVE  LangKept(row, Resolve(<<CoreFlags(row)>>)) /\ Fits(row, Resolve(<<CoreFlags(row)>>))
  <1> DEFINE plugins == <<CoreFlags(row)>>
             claims  == [p \in DOMAIN plugins |-> plugins[p].flags]
             x       == <<1, 4>>
             spec    == Resolve(plugins)
  <1>1. 1 \in Nat \ {0} /\ DOMAIN plugins = 1..1 /\ plugins[1] = CoreFlags(row)
    OBVIOUS
  <1> HIDE DEF plugins
  <1>2. DOMAIN claims = 1..1 /\ claims[1] = CoreFlags(row).flags
    BY <1>1
  <1> HIDE DEF claims
  <1>3. /\ DOMAIN claims[1] = 1..4 /\ claims[1][4] = <<"--window-size", Window(row)>>
        /\ \A k \in 1..4 : claims[1][k][1] = "--window-size" <=> k = 4
    <2>1. PICK f : f = claims[1]
      OBVIOUS
    <2>2. /\ DOMAIN f = 1..4 /\ f[1][1] = "--use-gl" /\ f[2][1] = "--disable-extensions"
          /\ f[3] = <<"--lang", row.locale>> /\ f[4] = <<"--window-size", Window(row)>>
      BY <1>2, <2>1, CoreNames
    <2>3. f[3][1] = "--lang" /\ f[4][1] = "--window-size"
      BY <2>2
    <2>4. \A k \in 1..4 : k = 1 \/ k = 2 \/ k = 3 \/ k = 4
      OBVIOUS
    <2> QED BY <2>1, <2>2, <2>3, <2>4
  <1>4. Naming(claims, "--window-size") = {x}
    BY <1>2, <1>3 DEF Naming, Places, NameAt
  <1>5. LastOf(claims, "--window-size") = x
    BY <1>4 DEF LastOf, Earlier
  <1>6. "--window-size" \in DOMAIN ByName(claims) /\ ByName(claims)["--window-size"] = Window(row)
    BY <1>3, <1>4, <1>5 DEF ByName, Naming, ValueAt
  <1>7. spec.flags = ByName(claims)
    <2>0. DOMAIN plugins = {1} /\ CoreFlags(row).extension = Nothing
      BY <1>1, CoreNames
    <2>1. \A p \in DOMAIN plugins : plugins[p].extension = Nothing
      BY <1>1, <2>0
    <2>2. {plugins[p].extension : p \in DOMAIN plugins} \ {Nothing} = {}
      BY <2>1
    <2> QED BY <2>2 DEF Resolve, claims
  <1>8. Fits(row, spec)
    BY <1>6, <1>7 DEF Fits, WindowOf, Window
  <1>9. LangKept(row, spec)
    <2>0. 4 \in Nat /\ DOMAIN CoreFlags(row).flags = 1..4
      BY <1>2, <1>3
    <2>1. ASSUME NEW p \in 1..1
          PROVE  \E m \in Nat : DOMAIN plugins[p].flags = 1..m
      <3>1. plugins[p] = CoreFlags(row)
        BY <1>1
      <3>2. DOMAIN plugins[p].flags = 1..4
        BY <2>0, <3>1
      <3> QED BY <2>0, <3>2
    <2> QED BY <1>1, <2>1, LangSurvives
  <1> QED BY <1>8, <1>9 DEF plugins, spec
-----------------------------------------------------------------------------
(* What a session's plan says on its way: it is one machine from the draw  *)
(* on, but for what the captured row itself does not fit, its launch keeps  *)
(* its language or notes who took it, and once the process is there its    *)
(* viewport is what its window leaves, but for what authored plugins have   *)
(* corrected.  A slot's plan is as far as that from the start, and nobody   *)
(* corrects it.                                                            *)
AsCaptured(row, tie) == row.source = "corpus" /\ ~Holds(tie, Captured)

Placed(row) == <<row.locale, row.timezone>> \in Range(Locale) \cup {<<Captured.locale, Captured.timezone>>}

Drawn(row) == IsRow(row) /\ Placed(row) /\ \A tie \in Ties : Holds(tie, row) \/ AsCaptured(row, tie)

Spoken(by, fields) == \E c \in by : c[1] # 1 /\ c[2] \in fields

Agreed(plan, by) ==
    /\ IsRow(plan.profile)
    /\ \A tie \in Ties : Holds(tie, plan.profile) \/ AsCaptured(plan.profile, tie) \/ Spoken(by, FieldsOf[tie])
    /\ LangKept(plan.profile, plan.spec) \/ Spoken(by, {"locale"})
    /\ plan.window = WindowOf(plan.spec.flags)
         => plan.window = Window(plan.profile) \/ Spoken(by, {"viewport", "chromeHeight"})

Agreeing(r) ==
    /\ r.at # "new" => r.kit \in Kits
    /\ r.at \in {"resolving", "pairing", "claiming", "launching"} => Drawn(r.plan.profile)
    /\ r.at \in {"pairing", "claiming", "launching"} => LangKept(r.plan.profile, r.plan.spec)
    /\ r.at \in {"ready", "sealed"} => Agreed(r.plan, r.corrections)
    /\ r.at = "sealed" => r.sealed = Reconcile(r.plan.profile, Binary)

Agreement ==
    /\ \A s \in Sessions : Agreeing(record[s])
    /\ \A i \in Range(Slots) : slot[i] = Unplanned \/ Agreed(slot[i], {})

(* No tie is about the viewport or about which identity it is.             *)
LEMMA TiedFields ==
    \A tie \in Ties : FieldsOf[tie] \subseteq Fields \ {"viewport", "id", "seed", "source"}
  <1>1. \A tie \in Ties : tie \in {"graphics", "version", "agent", "fonts", "place"}
    BY DEF Ties, FieldsOf
  <1>2. /\ FieldsOf["graphics"] = {"gpu", "os", "arch"} /\ FieldsOf["version"] = {"chrome", "brands", "userAgent"}
        /\ FieldsOf["agent"] = {"userAgent", "os"} /\ FieldsOf["fonts"] = {"fonts", "os"}
        /\ FieldsOf["place"] = {"locale", "timezone"}
    BY DEF FieldsOf
  <1> QED BY <1>1, <1>2 DEF Fields

(* Two rows that are alike in the fields of a tie.                         *)
LEMMA AlikeHolds ==
    ASSUME NEW row, NEW now, NEW tie \in Ties, \A f \in FieldsOf[tie] : now[f] = row[f], Holds(tie, row)
    PROVE  Holds(tie, now)
  <1>1. CASE tie = "graphics"
    <2>1. now.gpu = row.gpu /\ now.os = row.os /\ now.arch = row.arch
      BY <1>1 DEF FieldsOf
    <2> QED BY <1>1, <2>1 DEF Holds
  <1>2. CASE tie = "version"
    <2>1. now.chrome = row.chrome /\ now.brands = row.brands /\ now.userAgent = row.userAgent
      BY <1>2 DEF FieldsOf
    <2> QED BY <1>2, <2>1 DEF Holds
  <1>3. CASE tie = "agent"
    <2>1. now.userAgent = row.userAgent /\ now.os = row.os
      BY <1>3 DEF FieldsOf
    <2> QED BY <1>3, <2>1 DEF Holds
  <1>4. CASE tie = "fonts"
    <2>1. now.fonts = row.fonts /\ now.os = row.os
      BY <1>4 DEF FieldsOf
    <2> QED BY <1>4, <2>1 DEF Holds
  <1>5. CASE tie = "place"
    <2>1. now.locale = row.locale /\ now.timezone = row.timezone
      BY <1>5 DEF FieldsOf
    <2> QED BY <1>5, <2>1 DEF Holds
  <1> QED BY <1>1, <1>2, <1>3, <1>4, <1>5 DEF Ties, FieldsOf

(* Who said something, and about which field.                              *)
Spots(all) == {<<x[1], NameAt(all, x)>> : x \in Places(all)}

(* What the onStart hooks make of a row that was drawn, whatever authored   *)
(* plugins report: it differs from it in what they spoke about, and the     *)
(* viewport is what the window leaves.                                     *)
LEMMA CorrectedAgrees ==
    ASSUME NEW row, Drawn(row), NEW spec, LangKept(row, spec), NEW port, NEW window \in Windows(spec.flags),
           NEW found, Corrections(found), NEW all, all = <<CoreFinds(row, CommandLine(spec, port))>> \o found,
           NEW now, now = Corrected(row, all), NEW by, by = Spots(all),
           NEW plan, plan.profile = now, plan.spec = spec, plan.window = window
    PROVE  Agreed(plan, by)
  <1>1. PICK flags : flags = CommandLine(spec, port)
    OBVIOUS
  <1>2. WindowOf(flags) = WindowOf(spec.flags)
    BY <1>1 DEF WindowOf, CommandLine, With
  <1>3. all = <<CoreFinds(row, flags)>> \o found
    BY <1>1
  <1>4. 1 \in DOMAIN all /\ all[1] = CoreFinds(row, flags)
    BY <1>3, CorrectionsKnown
  <1>5. \A x : x[1] = 1 /\ x[2] \in DOMAIN CoreFinds(row, flags)
            => /\ NameAt(all, x) = "viewport" /\ WindowOf(flags) \in Sizes
               /\ ValueAt(all, x) = <<WindowOf(flags)[1], WindowOf(flags)[2] - row.chromeHeight>>
    BY <1>4, CoreCorrects
  <1>6. IsRow(row) /\ DOMAIN row = Fields /\ DOMAIN now = Fields
    BY DEF Drawn, IsRow, Corrected
  <1>7. \A f \in Fields : f \notin DOMAIN ByName(all) => now[f] = row[f]
    BY <1>6 DEF Corrected
  <1>8. \A f \in Fields : f \in DOMAIN ByName(all) => now[f] = ByName(all)[f]
    BY <1>6 DEF Corrected
  <1>9. ASSUME NEW f \in DOMAIN ByName(all)
        PROVE  \/ /\ f = "viewport" /\ WindowOf(flags) \in Sizes
                  /\ ByName(all)[f] = <<WindowOf(flags)[1], WindowOf(flags)[2] - row.chromeHeight>>
               \/ /\ Spoken(by, {f}) /\ f \in Correctable
                  /\ f = "chromeHeight" => ByName(all)[f] \in Int
                  /\ f = "userAgent" => DOMAIN ByName(all)[f] = {"platform", "chrome", "headless"}
    <2>1. PICK x \in Places(all) :
            /\ NameAt(all, x) = f /\ ByName(all)[f] = ValueAt(all, x)
            /\ \/ x[1] = 1 /\ x[2] \in DOMAIN CoreFinds(row, flags)
               \/ /\ x[1] # 1 /\ f \in Correctable
                  /\ f = "chromeHeight" => ValueAt(all, x) \in Int
                  /\ f = "userAgent" => DOMAIN ValueAt(all, x) = {"platform", "chrome", "headless"}
      BY <1>3, CorrectionsKnown
    <2>2. x[1] # 1 => Spoken(by, {f})
      <3>1. PICK c : c = <<x[1], f>>
        OBVIOUS
      <3>2. c \in by /\ c[1] = x[1] /\ c[2] = f
        BY <2>1, <3>1 DEF Spots
      <3> QED BY <3>2 DEF Spoken
    <2> QED BY <1>5, <2>1, <2>2
  <1>10. \A f \in Fields \ {"viewport"} : now[f] = row[f] \/ Spoken(by, {f})
    BY <1>7, <1>9
  <1>11. \A fields, f : f \in fields /\ Spoken(by, {f}) => Spoken(by, fields)
    BY DEF Spoken
  <1>12. now.source = row.source
    BY <1>7, <1>9 DEF Correctable, Fields
  <1>13. IsRow(now)
    <2>1. now.chromeHeight \in Int
      BY <1>6, <1>7, <1>8, <1>9 DEF IsRow, Fields
    <2>2. DOMAIN now.userAgent = {"platform", "chrome", "headless"}
      BY <1>6, <1>7, <1>8, <1>9 DEF IsRow, Fields
    <2> QED BY <1>6, <2>1, <2>2 DEF IsRow
  <1>14. ASSUME NEW tie \in Ties
         PROVE  Holds(tie, now) \/ AsCaptured(now, tie) \/ Spoken(by, FieldsOf[tie])
    <2>1. CASE AsCaptured(row, tie)
      BY <1>12, <2>1 DEF AsCaptured
    <2>2. CASE Holds(tie, row)
      <3> SUFFICES ASSUME ~Spoken(by, FieldsOf[tie])
                   PROVE  Holds(tie, now)
        OBVIOUS
      <3>1. FieldsOf[tie] \subseteq Fields \ {"viewport"}
        BY TiedFields
      <3>2. \A f \in FieldsOf[tie] : now[f] = row[f]
        BY <1>10, <1>11, <3>1
      <3> QED BY <2>2, <3>2, AlikeHolds
    <2> QED BY <2>1, <2>2 DEF Drawn
  <1>15. LangKept(now, spec) \/ Spoken(by, {"locale"})
    <2>1. now.locale = row.locale \/ Spoken(by, {"locale"})
      BY <1>10 DEF Fields
    <2> QED BY <2>1 DEF LangKept
  <1>16. ASSUME window = WindowOf(spec.flags), ~Spoken(by, {"viewport", "chromeHeight"})
         PROVE  window = Window(now)
    <2>1. window \in Sizes /\ window = WindowOf(flags)
      BY <1>2, <1>16, IdentitiesAssumption DEF Windows
    <2>2. window = <<window[1], window[2]>> /\ window[1] \in Int /\ window[2] \in Int
      BY <2>1 DEF Sizes
    <2>3. ~Spoken(by, {"viewport"}) /\ ~Spoken(by, {"chromeHeight"})
      BY <1>11, <1>16
    <2>4. now.chromeHeight = row.chromeHeight /\ row.chromeHeight \in Int
      BY <1>6, <1>10, <2>3 DEF IsRow, Fields
    <2>5. PICK v : v = <<window[1], window[2] - row.chromeHeight>>
      OBVIOUS
    <2>6. now.viewport = v
      <3>1. CASE "viewport" \in DOMAIN ByName(all)
        BY <1>8, <1>9, <2>1, <2>3, <2>5, <3>1 DEF Fields
      <3>2. CASE "viewport" \notin DOMAIN ByName(all)
        <4>1. now.viewport = row.viewport
          BY <1>7, <3>2 DEF Fields
        <4>2. SUFFICES ASSUME v # row.viewport
                       PROVE  FALSE
          BY <4>1
        <4>3. CoreFinds(row, flags) = << <<"viewport", v>> >>
          BY <2>1, <2>5, <4>2 DEF CoreFinds
        <4>4. PICK x : x = <<1, 1>>
          OBVIOUS
        <4>5. x[1] = 1 /\ x[2] = 1 /\ 1 \in DOMAIN CoreFinds(row, flags)
          BY <4>3, <4>4
        <4>6. x \in Places(all)
          BY <1>4, <4>4, <4>5 DEF Places
        <4>7. NameAt(all, x) = "viewport"
          BY <1>5, <4>5
        <4> QED BY <3>2, <4>6, <4>7 DEF ByName
      <3> QED BY <3>1, <3>2
    <2>7. now.viewport[1] = window[1] /\ now.viewport[2] + now.chromeHeight = window[2]
      BY <2>2, <2>4, <2>5, <2>6
    <2> QED BY <2>2, <2>7 DEF Window
  <1> QED BY <1>13, <1>14, <1>15, <1>16 DEF Agreed

(* What the binary corrects: the version, which fits then, or nothing of it *)
(* where the row has the binary's already.                                 *)
LEMMA ReconciledAgrees ==
    ASSUME NEW row, NEW major, IsRow(row)
    PROVE  LET now == Reconcile(row, major)
           IN  /\ ~now.userAgent.headless /\ now.chrome = major /\ now.locale = row.locale
               /\ Window(now) = Window(row)
               /\ \A tie \in Ties : Holds(tie, row) \/ (tie = "version" /\ row.chrome # major) => Holds(tie, now)
  <1>1. PICK b : b = IF major = row.chrome THEN row.brands ELSE Brands(major)
    OBVIOUS
  <1>2. PICK now : now = Reconcile(row, major)
    OBVIOUS
  <1>3. DOMAIN row = Fields /\ DOMAIN row.userAgent = {"platform", "chrome", "headless"}
    BY DEF IsRow
  <1>4. /\ now.chrome = major /\ now.brands = b
        /\ now.userAgent.chrome = (IF major = row.chrome THEN row.userAgent.chrome ELSE major)
        /\ now.userAgent.headless = FALSE /\ now.userAgent.platform = row.userAgent.platform
        /\ now.gpu = row.gpu /\ now.os = row.os /\ now.arch = row.arch /\ now.fonts = row.fonts
        /\ now.locale = row.locale /\ now.timezone = row.timezone /\ now.chromeHeight = row.chromeHeight
        /\ now.viewport = row.viewport
    BY <1>1, <1>2, <1>3 DEF Reconcile, Fields
  <1>5. ASSUME NEW tie \in Ties, Holds(tie, row) \/ (tie = "version" /\ row.chrome # major)
        PROVE  Holds(tie, now)
    <2>1. CASE tie = "version"
      BY <1>1, <1>4, <1>5, <2>1 DEF Holds
    <2>2. CASE tie = "agent"
      BY <1>4, <1>5, <2>2 DEF Holds
    <2>3. CASE tie \in {"graphics", "fonts", "place"}
      <3>1. \A f \in FieldsOf[tie] : now[f] = row[f]
        BY <1>4, <2>3 DEF FieldsOf
      <3> QED BY <1>5, <2>3, <3>1, AlikeHolds
    <2> QED BY <2>1, <2>2, <2>3 DEF Ties, FieldsOf
  <1>6. Window(now) = Window(row)
    BY <1>4 DEF Window
  <1> QED BY <1>2, <1>4, <1>5, <1>6

LEMMA MachineIsDrawn ==
    ASSUME NEW c, ~Refuses(c), NEW stream, \A i \in 1..10 : stream[i] \in 0..(Points - 1), NEW seed, NEW source,
           NEW row, row = Machine(c, stream, seed, source)
    PROVE  Drawn(row)
  <1>1. IsRow(row) /\ \A tie \in Ties : Holds(tie, row)
    BY MachineIsOne
  <1>2. Holds("place", row)
    BY <1>1 DEF Ties, FieldsOf
  <1>3. Placed(row)
    BY <1>2 DEF Holds, Placed, Range
  <1> QED BY <1>1, <1>3 DEF Drawn

LEMMA DrawnFits ==
    ASSUME IdentitiesTypeOK, NEW ask, NEW loaders, NEW seed, NEW row, Draw(ask, loaders, seed, row),
           row # Nothing \/ ~Refuses(ask)
    PROVE  Drawn(row)
  <1>0. ASSUME NEW key, NEW stream \in Used(key)
        PROVE  \A i \in 1..10 : stream[i] \in 0..(Points - 1)
    <2>1. stream \in Streams
      BY DEF Used, IdentitiesTypeOK
    <2> QED BY <2>1, IdentitiesAssumption
  <1>1. CASE Pinned(ask, loaders)
    <2>1. PICK stream \in Used(PinId(ask, loaders)) :
            row = Machine([ask EXCEPT !.id = PinId(ask, loaders)], stream, PinId(ask, loaders), "pin")
      BY <1>1 DEF Draw
    <2>2. PICK c : c = [ask EXCEPT !.id = PinId(ask, loaders)]
      OBVIOUS
    <2>3. ~Refuses(c) /\ row = Machine(c, stream, PinId(ask, loaders), "pin")
      BY <1>1, <2>1, <2>2 DEF Pinned
    <2>4. \A i \in 1..10 : stream[i] \in 0..(Points - 1)
      BY <1>0
    <2> QED BY <2>3, <2>4, MachineIsDrawn
  <1>2. CASE ~Pinned(ask, loaders) /\ loaders # Nothing /\ Satisfies(Captured, ask)
    <2>1. PICK x : row = [Captured EXCEPT !.seed = x, !.source = "corpus"]
      BY <1>2 DEF Draw, FromCorpus
    <2>2. IsRow(Captured)
      BY IdentitiesAssumption
    <2>3. /\ DOMAIN row = Fields /\ row.source = "corpus"
          /\ \A f \in Fields \ {"seed", "source"} : row[f] = Captured[f]
      BY <2>1, <2>2 DEF IsRow, Fields
    <2>4. /\ row.userAgent = Captured.userAgent /\ row.chromeHeight = Captured.chromeHeight
          /\ row.locale = Captured.locale /\ row.timezone = Captured.timezone
      BY <2>3 DEF Fields
    <2>5. ASSUME NEW tie \in Ties, Holds(tie, Captured)
          PROVE  Holds(tie, row)
      <3>1. \A f \in FieldsOf[tie] : row[f] = Captured[f]
        BY <2>3 DEF Ties, FieldsOf, Fields
      <3> QED BY <2>5, <3>1, AlikeHolds
    <2>6. IsRow(row) /\ Placed(row)
      BY <2>2, <2>3, <2>4 DEF IsRow, Placed
    <2> QED BY <2>3, <2>5, <2>6 DEF Drawn, AsCaptured
  <1>3. CASE ~Pinned(ask, loaders) /\ ~(loaders # Nothing /\ Satisfies(Captured, ask))
    <2>1. ~Refuses(ask)
      BY <1>3 DEF Draw
    <2>2. PICK stream \in Used(<<seed, "generate">>) : row = Machine(ask, stream, seed, "generate")
      BY <1>3, <2>1 DEF Draw
    <2>3. \A i \in 1..10 : stream[i] \in 0..(Points - 1)
      BY <1>0
    <2> QED BY <2>1, <2>2, <2>3, MachineIsDrawn
  <1> QED BY <1>1, <1>2, <1>3

LEMMA PlannedLang ==
    ASSUME NEW row, Drawn(row), NEW kit \in Kits
    PROVE  LangKept(row, Resolve(<<CoreFlags(row)>> \o Authored(kit, <<row.locale, row.timezone>>)))
  <1>1. PICK more : more = Authored(kit, <<row.locale, row.timezone>>)
    OBVIOUS
  <1>2. <<row.locale, row.timezone>> \in Range(Locale) \cup {<<Captured.locale, Captured.timezone>>}
    BY DEF Drawn, Placed
  <1>3. Contributions(more)
    BY <1>1, <1>2, IdentitiesAssumption
  <1>4. more \in Seq(Range(more)) /\ \A p \in DOMAIN more : more[p].flags \in Seq(Range(more[p].flags))
    BY <1>3 DEF Contributions
  <1>5. Len(more) \in Nat /\ DOMAIN more = 1..Len(more)
    BY <1>4
  <1>6. PICK core : core = CoreFlags(row)
    OBVIOUS
  <1>7. PICK plugins : plugins = <<core>> \o more
    OBVIOUS
  <1>8. /\ DOMAIN plugins = 1..(1 + Len(more)) /\ plugins[1] = core
        /\ \A p \in 1..(1 + Len(more)) : p # 1 => plugins[p] = more[p - 1]
    <2>1. PICK S : <<core>> \in Seq(S) /\ more \in Seq(S)
      <3>1. <<core>> \in Seq({core} \cup Range(more)) /\ more \in Seq({core} \cup Range(more))
        BY <1>4
      <3> QED BY <3>1
    <2> QED BY <1>5, <1>7, <2>1
  <1>9. \A p \in 1..(1 + Len(more)) : \E m \in Nat : DOMAIN plugins[p].flags = 1..m
    <2>1. 4 \in Nat /\ DOMAIN core.flags = 1..4
      BY <1>6, CoreNames
    <2>2. ASSUME NEW p \in 1..(1 + Len(more)), p # 1
          PROVE  \E m \in Nat : DOMAIN plugins[p].flags = 1..m
      <3>1. p - 1 \in DOMAIN more /\ plugins[p] = more[p - 1]
        BY <1>5, <1>8, <2>2
      <3>2. PICK f : f = plugins[p].flags
        OBVIOUS
      <3>3. f \in Seq(Range(f))
        BY <1>4, <3>1, <3>2
      <3>4. Len(f) \in Nat /\ DOMAIN f = 1..Len(f)
        BY <3>3
      <3> QED BY <3>2, <3>4
    <2> QED BY <1>8, <2>1, <2>2
  <1>10. 1 + Len(more) \in Nat \ {0}
    BY <1>5
  <1>11. LangKept(row, Resolve(plugins))
    BY <1>6, <1>8, <1>9, <1>10, LangSurvives
  <1> QED BY <1>1, <1>6, <1>7, <1>11

LEMMA AgreementBegins == IdentitiesInit => Agreement
  BY DEF IdentitiesInit, Agreement, Agreeing, Blank

(* A step of one session that leaves the slots alone.                      *)
LEMMA OneAgrees ==
    ASSUME Agreement, NEW s \in Sessions, OnlyOf(s), Agreeing(record'[s]), slot' = slot
    PROVE  Agreement'
  <1>1. \A t \in Sessions : Agreeing(record'[t])
    BY DEF Agreement, OnlyOf
  <1>2. \A i \in Range(Slots) : slot'[i] = Unplanned \/ Agreed(slot'[i], {})
    BY DEF Agreement
  <1> QED BY <1>1, <1>2 DEF Agreement

LEMMA SlotAgrees ==
    ASSUME IdentitiesTypeOK, Agreement, NEW i \in Range(Slots), StartSlot(i)
    PROVE  Agreement'
  <1>1. PICK row, window :
            /\ Draw(FreeAsk, Nothing, i, row)
            /\ window \in Windows(Resolve(<<CoreFlags(row)>>).flags)
            /\ slot' = [slot EXCEPT ![i] =
                    [profile |-> row, spec |-> Resolve(<<CoreFlags(row)>>), window |-> window]]
    BY DEF StartSlot
  <1>2. record' = record
    BY DEF StartSlot
  <1>4. Drawn(row)
    BY <1>1, FreeAskDraws, DrawnFits
  <1>5. PICK spec : spec = Resolve(<<CoreFlags(row)>>)
    OBVIOUS
  <1>6. LangKept(row, spec) /\ Fits(row, spec)
    BY <1>5, CoreAlone
  <1>7. PICK plan : plan = [profile |-> row, spec |-> spec, window |-> window]
    OBVIOUS
  <1>8. plan.profile = row /\ plan.spec = spec /\ plan.window = window
    BY <1>7
  <1>9. plan.window = WindowOf(plan.spec.flags) => plan.window = Window(plan.profile)
    BY <1>1, <1>5, <1>6, <1>8, IdentitiesAssumption DEF Fits, Window, Windows
  <1>10. Agreed(plan, {})
    <2>1. IsRow(plan.profile) /\ LangKept(plan.profile, plan.spec)
      BY <1>4, <1>6, <1>8 DEF Drawn
    <2>2. \A tie \in Ties : Holds(tie, plan.profile) \/ AsCaptured(plan.profile, tie)
      BY <1>4, <1>8 DEF Drawn
    <2> QED BY <1>9, <2>1, <2>2 DEF Agreed
  <1>11. slot' = [slot EXCEPT ![i] = plan]
    BY <1>1, <1>5, <1>7
  <1>12. \A j \in Range(Slots) : slot'[j] = Unplanned \/ Agreed(slot'[j], {})
    BY <1>10, <1>11 DEF IdentitiesTypeOK, Agreement
  <1> QED BY <1>2, <1>12 DEF Agreement

LEMMA RegisterAgrees ==
    ASSUME IdentitiesTypeOK, Agreement, NEW s \in Sessions, NEW ask, NEW loaders \in Chains, NEW kit \in Kits,
           Register(s, ask, loaders, kit)
    PROVE  Agreement'
  <1>1. slot' = slot /\ DOMAIN record = Sessions /\ cursor \in Nat /\ \A i \in Range(Slots) : slot[i] # Unplanned
    BY DEF Register, IdentitiesTypeOK
  <1>2. PICK r : r = [Blank EXCEPT !.ask = ask, !.chain = loaders, !.kit = kit]
    OBVIOUS
  <1>3. /\ DOMAIN r = {"at", "ask", "chain", "kit", "plan", "corrections", "sealed"} /\ r.kit = kit
        /\ r.corrections = {}
    BY <1>2 DEF Blank
  <1>4. CASE kit = "none" /\ Answering(ask) # {}
    <2>1. PICK k : k = CHOOSE n \in Answering(ask) : \A j \in Answering(ask) : n <= j
      OBVIOUS
    <2>2. record' = [record EXCEPT ![s] = [r EXCEPT !.at = "ready", !.plan = slot[Slots[Rotation[k]]]]]
      BY <1>2, <1>4, <2>1 DEF Register
    <2>3. k \in DOMAIN Slots
      <3>1. Answering(ask) \subseteq Nat /\ Answering(ask) \subseteq DOMAIN Slots
        BY IdentitiesAssumption DEF Answering
      <3>2. \E n \in Answering(ask) : \A j \in Answering(ask) : n <= j
        BY <1>4, <3>1, LeastOne
      <3> QED BY <2>1, <3>1, <3>2
    <2>4. Slots[Rotation[k]] \in Range(Slots)
      BY <1>1, <2>3, RotationStays
    <2>5. PICK plan : plan = slot[Slots[Rotation[k]]]
      OBVIOUS
    <2>6. Agreed(plan, {})
      BY <1>1, <2>4, <2>5 DEF Agreement
    <2>7. PICK q : q = [r EXCEPT !.at = "ready", !.plan = plan]
      OBVIOUS
    <2>8. q.at = "ready" /\ q.plan = plan /\ q.kit = kit /\ q.corrections = {}
      BY <1>3, <2>7
    <2>9. OnlyOf(s) /\ record'[s] = q
      BY <1>1, <2>2, <2>5, <2>7, RegisterMoves
    <2>10. Agreeing(record'[s])
      BY <2>6, <2>8, <2>9 DEF Agreeing
    <2> QED BY <1>1, <2>9, <2>10, OneAgrees
  <1>5. CASE ~(kit = "none" /\ Answering(ask) # {})
    <2>1. PICK q : q = [r EXCEPT !.at = "drawing"]
      OBVIOUS
    <2>2. record' = [record EXCEPT ![s] = q]
      BY <1>2, <1>5, <2>1 DEF Register
    <2>3. q.at = "drawing" /\ q.kit = kit
      BY <1>3, <2>1
    <2>4. OnlyOf(s) /\ record'[s] = q
      BY <1>1, <2>2, RegisterMoves
    <2>5. Agreeing(record'[s])
      BY <2>3, <2>4 DEF Agreeing
    <2> QED BY <1>1, <2>4, <2>5, OneAgrees
  <1> QED BY <1>4, <1>5

LEMMA SessionAgrees ==
    ASSUME IdentitiesTypeOK, Agreement, NEW s \in Sessions, Session(s)
    PROVE  Agreement'
  <1>0. Shaped(record[s]) /\ DOMAIN record = Sessions /\ Agreeing(record[s])
    BY DEF IdentitiesTypeOK, Agreement
  <1>1. CASE PlanDraw(s)
    <2>1. PICK row : /\ Draw(record[s].ask, record[s].chain, SeedOf(s), row)
                     /\ record' = [record EXCEPT ![s].plan.profile = row,
                                       ![s].at = IF row = Nothing THEN "failed" ELSE "resolving"]
      BY <1>1 DEF PlanDraw
    <2>2. record[s].at = "drawing" /\ slot' = slot
      BY <1>1 DEF PlanDraw
    <2>3. row # Nothing => Drawn(row)
      BY <2>1, DrawnFits
    <2>4. /\ OnlyOf(s) /\ record'[s].at = (IF row = Nothing THEN "failed" ELSE "resolving")
          /\ record'[s].plan.profile = row /\ record'[s].kit = record[s].kit
      BY <1>0, <2>1 DEF Shaped, OnlyOf
    <2>5. Agreeing(record'[s])
      BY <1>0, <2>2, <2>3, <2>4 DEF Agreeing
    <2> QED BY <2>2, <2>4, <2>5, OneAgrees
  <1>2. CASE PlanResolve(s)
    <2> DEFINE row  == record[s].plan.profile
               spec == Resolve(<<CoreFlags(row)>> \o Authored(record[s].kit, <<row.locale, row.timezone>>))
               at   == IF spec.failed \/ (spec.userDataDir # Nothing /\ record[s].ask.id = Free) THEN "failed"
                       ELSE IF spec.userDataDir # Nothing THEN "pairing" ELSE "launching"
    <2>1. record' = [record EXCEPT ![s].plan.spec = spec, ![s].at = at]
      BY <1>2 DEF PlanResolve
    <2>2. at \in {"failed", "pairing", "launching"}
      OBVIOUS
    <2>3. record[s].at = "resolving" /\ slot' = slot
      BY <1>2 DEF PlanResolve
    <2>4. Drawn(row) /\ record[s].kit \in Kits
      BY <1>0, <2>3 DEF Agreeing
    <2>5. LangKept(row, spec)
      BY <2>4, PlannedLang
    <2> HIDE DEF at, spec
    <2>6. /\ OnlyOf(s) /\ record'[s].at = at /\ record'[s].plan.profile = row /\ record'[s].plan.spec = spec
          /\ record'[s].kit = record[s].kit
      BY <1>0, <2>1 DEF Shaped, OnlyOf
    <2>7. Agreeing(record'[s])
      BY <2>2, <2>4, <2>5, <2>6 DEF Agreeing
    <2> QED BY <2>3, <2>6, <2>7, OneAgrees
  <1>3. CASE Pair(s) \/ Claim(s)
    <2>1. PICK at \in {"claiming", "launching", "failed"} : record' = [record EXCEPT ![s].at = at]
      BY <1>3 DEF Pair, Claim
    <2>2. record[s].at \in {"pairing", "claiming"} /\ slot' = slot
      BY <1>3 DEF Pair, Claim
    <2>3. OnlyOf(s) /\ record'[s].at = at /\ record'[s].plan = record[s].plan /\ record'[s].kit = record[s].kit
      BY <1>0, <2>1 DEF Shaped, OnlyOf
    <2>4. Agreeing(record'[s])
      BY <1>0, <2>1, <2>2, <2>3 DEF Agreeing
    <2> QED BY <2>2, <2>3, <2>4, OneAgrees
  <1>4. CASE Launch(s)
    <2>1. record[s].at = "launching" /\ slot' = slot
      BY <1>4 DEF Launch
    <2>2. CASE record' = [record EXCEPT ![s].at = "failed"]
      <3>1. OnlyOf(s) /\ record'[s].at = "failed" /\ record'[s].kit = record[s].kit
        BY <1>0, <2>2 DEF Shaped, OnlyOf
      <3>2. Agreeing(record'[s])
        BY <1>0, <2>1, <3>1 DEF Agreeing
      <3> QED BY <2>1, <3>1, <3>2, OneAgrees
    <2>3. CASE \E window \in Windows(record[s].plan.spec.flags), found \in Finds[record[s].kit] :
                    Started(s, window, found)
      <3> DEFINE spec == record[s].plan.spec
      <3>1. PICK window \in Windows(spec.flags), found \in Finds[record[s].kit] : Started(s, window, found)
        BY <2>3
      <3>2. PICK row : row = record[s].plan.profile
        OBVIOUS
      <3>3. PICK all : all = <<CoreFinds(row, CommandLine(spec, s))>> \o found
        OBVIOUS
      <3>4. PICK now, by : now = Corrected(row, all) /\ by = Spots(all)
        OBVIOUS
      <3>5. record' = [record EXCEPT ![s].at = "ready", ![s].plan.profile = now, ![s].plan.window = window,
                           ![s].corrections = by]
        BY <3>1, <3>2, <3>3, <3>4 DEF Started, Spots
      <3>6. /\ OnlyOf(s) /\ record'[s].at = "ready" /\ record'[s].plan.profile = now
            /\ record'[s].plan.spec = spec /\ record'[s].plan.window = window
            /\ record'[s].corrections = by /\ record'[s].kit = record[s].kit
        BY <1>0, <3>5 DEF Shaped, OnlyOf
      <3>7. Drawn(row) /\ LangKept(row, spec) /\ record[s].kit \in Kits
        BY <1>0, <2>1, <3>2 DEF Agreeing
      <3>8. Corrections(found)
        BY <3>7, IdentitiesAssumption
      <3> HIDE DEF spec
      <3>9. PICK plan : plan = record'[s].plan
        OBVIOUS
      <3>10. plan.profile = now /\ plan.spec = spec /\ plan.window = window
        BY <3>6, <3>9
      <3>11. Agreed(plan, by)
        BY <3>1, <3>3, <3>4, <3>7, <3>8, <3>10, CorrectedAgrees
      <3>12. Agreeing(record'[s])
        BY <3>6, <3>7, <3>9, <3>11 DEF Agreeing
      <3> QED BY <2>1, <3>6, <3>12, OneAgrees
    <2> QED BY <1>4, <2>2, <2>3 DEF Launch, Started
  <1>5. CASE Seal(s)
    <2>1. PICK row : /\ row = Reconcile(record[s].plan.profile, Binary)
                     /\ record' = [record EXCEPT ![s].at = "sealed", ![s].sealed = row]
      BY <1>5 DEF Seal
    <2>2. record[s].at = "ready" /\ slot' = slot
      BY <1>5 DEF Seal
    <2>3. /\ OnlyOf(s) /\ record'[s].at = "sealed" /\ record'[s].plan = record[s].plan
          /\ record'[s].sealed = row /\ record'[s].kit = record[s].kit
          /\ record'[s].corrections = record[s].corrections
      BY <1>0, <2>1 DEF Shaped, OnlyOf
    <2>4. Agreeing(record'[s])
      BY <1>0, <2>1, <2>2, <2>3 DEF Agreeing
    <2> QED BY <2>2, <2>3, <2>4, OneAgrees
  <1> QED BY <1>1, <1>2, <1>3, <1>4, <1>5 DEF Session

LEMMA KeepsAgreeing == IdentitiesSpec => []Agreement
  <1>1. IdentitiesInit => Agreement
    BY AgreementBegins
  <1>2. IdInv /\ Agreement /\ [IdentitiesNext]_identitiesVars => Agreement'
    <2> SUFFICES ASSUME IdInv, Agreement, [IdentitiesNext]_identitiesVars
                 PROVE  Agreement'
      OBVIOUS
    <2>1. IdentitiesTypeOK
      BY DEF IdInv
    <2>2. CASE UNCHANGED identitiesVars
      BY <2>2 DEF Agreement, identitiesVars
    <2> QED BY <2>1, <2>2, SlotAgrees, RegisterAgrees, SessionAgrees DEF IdentitiesNext
  <1> QED BY <1>1, <1>2, IdentitiesInvariance, PTL DEF IdentitiesSpec
-----------------------------------------------------------------------------
(* What a session is sealed with is one machine, for any constraint and any *)
(* random numbers, whether it was drawn, pinned, captured or came with a    *)
(* slot, after the onStart hooks and the binary have corrected it: what     *)
(* does not fit, an authored onStart spoke about, or the captured row did   *)
(* not fit itself, and a version that had to be corrected always fits.     *)
THEOREM SealedIsOneMachine == IdentitiesSpec => []SealedIsCoherent
  <1>1. Agreement => SealedIsCoherent
    <2> SUFFICES ASSUME Agreement, NEW s \in Sealed
                 PROVE  /\ \A tie \in Ties : Holds(tie, record[s].sealed) \/ Misfits(record[s], tie)
                        /\ ~record[s].sealed.userAgent.headless
      BY DEF SealedIsCoherent
    <2>1. PICK row : row = record[s].plan.profile
      OBVIOUS
    <2>2. PICK plan, by : plan = record[s].plan /\ by = record[s].corrections
      OBVIOUS
    <2>3. Agreed(plan, by) /\ plan.profile = row /\ record[s].sealed = Reconcile(row, Binary)
      BY <2>1, <2>2 DEF Agreement, Agreeing, Sealed
    <2>4. IsRow(row) /\ \A tie \in Ties : Holds(tie, row) \/ AsCaptured(row, tie) \/ Spoken(by, FieldsOf[tie])
      BY <2>3 DEF Agreed
    <2>5. /\ ~record[s].sealed.userAgent.headless
          /\ \A tie \in Ties : Holds(tie, row) \/ (tie = "version" /\ row.chrome # Binary)
                => Holds(tie, record[s].sealed)
      BY <2>3, <2>4, ReconciledAgrees
    <2>6. ASSUME NEW tie \in Ties, ~Holds(tie, record[s].sealed)
          PROVE  Misfits(record[s], tie)
      <3>1. AsCaptured(row, tie) \/ Spoken(by, FieldsOf[tie])
        BY <2>4, <2>5, <2>6
      <3>2. tie = "version" => row.chrome = Binary
        BY <2>5, <2>6
      <3> QED BY <2>1, <2>2, <3>1, <3>2 DEF Misfits, Touched, Spoken, AsCaptured
    <2> QED BY <2>5, <2>6
  <1> QED BY <1>1, KeepsAgreeing, PTL

(* Version, viewport and language of a sealed identity are those of the    *)
(* process it is on, whatever launch plugins were merged into its flags,    *)
(* as long as the process got the window it was asked for: one that changes *)
(* the window is measured, one that changes the language is named in a      *)
(* note, and only what an authored onStart spoke about is what it said.    *)
THEOREM IdentityMatchesProcess == IdentitiesSpec => []AgreesWithProcess
  <1>1. Agreement => AgreesWithProcess
    <2> SUFFICES ASSUME Agreement, NEW s \in Sealed
                 PROVE  LET row == record[s].sealed  plan == record[s].plan IN
                        /\ row.chrome = Binary
                        /\ \/ plan.window # WindowOf(plan.spec.flags)
                           \/ Touched(record[s], {"viewport", "chromeHeight"})
                           \/ plan.window = Window(row)
                        /\ LangKept(row, plan.spec) \/ Touched(record[s], {"locale"})
      BY DEF AgreesWithProcess, Window, LangKept
    <2>1. PICK row, now : row = record[s].plan.profile /\ now = record[s].sealed
      OBVIOUS
    <2>2. PICK plan, by : plan = record[s].plan /\ by = record[s].corrections
      OBVIOUS
    <2>3. Agreed(plan, by) /\ plan.profile = row /\ now = Reconcile(row, Binary)
      BY <2>1, <2>2 DEF Agreement, Agreeing, Sealed
    <2>4. IsRow(row)
      BY <2>3 DEF Agreed
    <2>5. now.chrome = Binary /\ now.locale = row.locale /\ Window(now) = Window(row)
      BY <2>3, <2>4, ReconciledAgrees
    <2>6. /\ LangKept(now, plan.spec) \/ Spoken(by, {"locale"})
          /\ plan.window = WindowOf(plan.spec.flags)
               => plan.window = Window(now) \/ Spoken(by, {"viewport", "chromeHeight"})
      BY <2>3, <2>5 DEF Agreed, LangKept
    <2>7. \A fields : Touched(record[s], fields) <=> Spoken(by, fields)
      BY <2>2 DEF Touched, Spoken
    <2> QED BY <2>1, <2>2, <2>5, <2>6, <2>7
  <1> QED BY <1>1, KeepsAgreeing, PTL
=============================================================================
