------------------------------- MODULE Identities -------------------------------
(***************************************************************************)
(* From a session's constraint to its sealed identity: register, #plan and *)
(* place (src/src/proxy.ts, src/src/browser-pool.ts), the loader chain and *)
(* seal (src/src/profile.ts), the pin and corpus loaders                   *)
(* (src/plugins/profile/), the pairing of a data dir                       *)
(* (src/src/launch.ts) and #sealProfile (src/src/proxy-connection.ts).     *)
(*                                                                         *)
(* Abstracted.  A random stream is drawn when its key is first used and    *)
(* kept: the same seed gives the same numbers.  What corpus holds is one   *)
(* captured row (module Corpus has its burns); remote is left out here.    *)
(* The window of a process is the one asked for or, asked or not, the one   *)
(* Chrome makes of it on the display there is.                             *)
(***************************************************************************)
EXTENDS Launches

CONSTANTS
    Slots,              \* the pool, in the order it is started
    Sessions,
    Asks,               \* the constraints a session may come with
    Chains,             \* the authored loaders: a pin's id or Free, and corpus
    Kits,               \* its authored launch plugins, "none" when it has none
    Authored(_, _),     \* what they return, for a kit and a language and place
    Finds,              \* kit -> what their onStart hooks may return
    Clamped,            \* the window Chrome makes of any other
    Captured,           \* the row of the corpus
    Streams,            \* the random streams
    Binary              \* the Chrome major of the browser that starts

FreeAsk == [id |-> Free, os |-> Free, locale |-> Free, timezone |-> Free, minChrome |-> Free]

(* An id is a name: none that is asked for, pinned, captured or made up by  *)
(* the last loader is the absence of one.  A random number is in its range, *)
(* the captured row has the fields of one, and plugins return lists.        *)
ASSUME IdentitiesAssumption ==
    /\ "none" \in Kits /\ IsFiniteSet(Sessions) /\ Slots \in Seq(Range(Slots))
    /\ \A ask \in Asks : "id" \in DOMAIN ask /\ ask.id # Nothing
    /\ \A chain \in Chains \ {Nothing} : chain.pin # Nothing
    /\ IsRow(Captured) /\ Captured.id # Nothing /\ Clamped \in Sizes
    /\ \A stream \in Streams, i \in 1..10 : stream[i] \in 0..(Points - 1)
    /\ \A kit \in Kits, place \in Range(Locale) \cup {<<Captured.locale, Captured.timezone>>} :
          Contributions(Authored(kit, place))
    /\ \A kit \in Kits : \A found \in Finds[kit] : Corrections(found)
    /\ \A ask \in {a \in Asks \cup {FreeAsk} : a.id = Free /\ ~Refuses(a)} :
          \A stream \in Streams, seed \in Sessions \cup Range(Slots) :
              Machine(ask, stream, seed, "generate").id # Nothing

VARIABLES
    random,     \* key -> stream, for the keys used so far
    slot,       \* the plan of each slot
    cursor,     \* the pool's
    record,     \* each session: how far register has come, its ask, its plan, what onStart corrected
    marker,     \* the marker of the one data dir
    opened,     \* history: the ids of the identities a process ran on it under
    raced       \* history: two registrations claimed it at a time

identitiesVars == <<random, slot, cursor, record, marker, opened, raced>>

Unplanned == [profile |-> Nothing, spec |-> Empty, window |-> Nothing]
Blank ==
    [at |-> "new", ask |-> Nothing, chain |-> Nothing, kit |-> "none", plan |-> Unplanned,
     corrections |-> {}, sealed |-> Nothing]

IdentitiesInit ==
    /\ random = <<>> /\ cursor = 0
    /\ slot = [i \in Range(Slots) |-> Unplanned]
    /\ record = [s \in Sessions |-> Blank]
    /\ marker = Nothing /\ opened = {} /\ raced = FALSE
-----------------------------------------------------------------------------
(* random(seed).  Used is the set of streams a key can have. *)
Used(key) == IF key \in DOMAIN random THEN {random[key]} ELSE Streams
Use(key, stream) ==
    random' = [k \in DOMAIN random \cup {key} |-> IF k \in DOMAIN random THEN random[k] ELSE stream]

(* draw: the loaders in the order of their priorities, each with a seed of  *)
(* its own; one that throws is passed over.  Draw holds of a row, or of     *)
(* Nothing when the last loader throws too.                                 *)
PinId(ask, chain) == IF chain.pin # Free THEN chain.pin ELSE ask.id

Pinned(ask, chain) ==
    /\ chain # Nothing /\ PinId(ask, chain) # Free
    /\ ~Refuses([ask EXCEPT !.id = PinId(ask, chain)])

FromCorpus(ask, chain, seed) == [Captured EXCEPT !.seed = <<Captured.id, seed>>, !.source = "corpus"]

Draw(ask, chain, seed, row) ==
    IF Pinned(ask, chain)
    THEN LET id == PinId(ask, chain) IN
         \E stream \in Used(id) :
            /\ Use(id, stream)
            /\ row = Machine([ask EXCEPT !.id = id], stream, id, "pin")
    ELSE IF chain # Nothing /\ Satisfies(Captured, ask)
    THEN row = FromCorpus(ask, chain, seed) /\ UNCHANGED random
    ELSE IF Refuses(ask) THEN row = Nothing /\ UNCHANGED random
    ELSE \E stream \in Used(<<seed, "generate">>) :
            /\ Use(<<seed, "generate">>, stream)
            /\ row = Machine(ask, stream, seed, "generate")

(* Every row Draw can give. *)
Rows(ask, chain, seed) ==
    {Nothing, FromCorpus(ask, chain, seed)} \cup
    (IF Refuses(ask) THEN {} ELSE {Machine(ask, st, seed, "generate") : st \in Used(<<seed, "generate">>)}) \cup
    (IF ~Pinned(ask, chain) THEN {}
     ELSE LET id == PinId(ask, chain)
          IN  {Machine([ask EXCEPT !.id = id], st, id, "pin") : st \in Used(id)})

(* The windows a process may have that is started with some flags. *)
Windows(flags) == {Clamped} \cup ({WindowOf(flags)} \cap Sizes)

(* BrowserPool.start: the fleet's identities are drawn from core alone, and *)
(* no onStart hook is called.                                              *)
StartSlot(i) ==
    /\ slot[i] = Unplanned
    /\ \E row \in Rows(FreeAsk, Nothing, i) :
        /\ Draw(FreeAsk, Nothing, i, row)
        /\ LET spec == Resolve(<<CoreFlags(row)>>) IN
           \E window \in Windows(spec.flags) :
              slot' = [slot EXCEPT ![i] = [profile |-> row, spec |-> spec, window |-> window]]
    /\ UNCHANGED <<cursor, record, marker, opened, raced>>

(* place: the slots after the cursor that answer the constraint.            *)
Rotation == [k \in DOMAIN Slots |-> ((cursor + k - 1) % Len(Slots)) + 1]
Answering(ask) == {k \in DOMAIN Slots : Satisfies(slot[Slots[Rotation[k]]].profile, ask)}

(* register: a session without a launch plugin of its own is put on a slot. *)
Register(s, ask, chain, kit) ==
    /\ record[s].at = "new" /\ \A i \in Range(Slots) : slot[i] # Unplanned
    /\ LET r == [Blank EXCEPT !.ask = ask, !.chain = chain, !.kit = kit] IN
       IF kit = "none" /\ Answering(ask) # {}
       THEN LET k == CHOOSE k \in Answering(ask) : \A j \in Answering(ask) : k <= j
            IN  /\ record' = [record EXCEPT ![s] =
                        [r EXCEPT !.at = "ready", !.plan = slot[Slots[Rotation[k]]]]]
                /\ cursor' = (cursor + k) % Len(Slots)
       ELSE record' = [record EXCEPT ![s] = [r EXCEPT !.at = "drawing"]] /\ UNCHANGED cursor
    /\ UNCHANGED <<random, slot, marker, opened, raced>>

(* #plan: the draw.  The seed is the id that is asked for, or the token. *)
SeedOf(s) == IF record[s].ask.id = Free THEN s ELSE record[s].ask.id

PlanDraw(s) ==
    /\ record[s].at = "drawing"
    /\ \E row \in Rows(record[s].ask, record[s].chain, SeedOf(s)) :
        /\ Draw(record[s].ask, record[s].chain, SeedOf(s), row)
        /\ record' = [record EXCEPT ![s].plan.profile = row,
                                    ![s].at = IF row = Nothing THEN "failed" ELSE "resolving"]
    /\ UNCHANGED <<slot, cursor, marker, opened, raced>>

(* #plan: the launch plugins read the candidate; a data dir needs an id. *)
PlanResolve(s) ==
    /\ record[s].at = "resolving"
    /\ LET row  == record[s].plan.profile
           spec == Resolve(<<CoreFlags(row)>> \o Authored(record[s].kit, <<row.locale, row.timezone>>))
       IN  record' = [record EXCEPT
                ![s].plan.spec = spec,
                ![s].at = IF spec.failed \/ (spec.userDataDir # Nothing /\ record[s].ask.id = Free)
                          THEN "failed"
                          ELSE IF spec.userDataDir # Nothing THEN "pairing" ELSE "launching"]
    /\ UNCHANGED <<random, slot, cursor, marker, opened, raced>>

(* pair reads the marker, and writes it where there was none.  Mutant: only *)
(* the presence of a marker counts.                                        *)
PairAny(s) ==
    /\ record[s].at = "pairing"
    /\ record' = [record EXCEPT ![s].at = IF marker = Nothing THEN "claiming" ELSE "launching"]
    /\ UNCHANGED <<random, slot, cursor, marker, opened, raced>>

Pair(s) ==
    /\ record[s].at = "pairing"
    /\ record' = [record EXCEPT ![s].at =
            IF marker = Nothing THEN "claiming"
            ELSE IF marker = record[s].plan.profile.id THEN "launching" ELSE "failed"]
    /\ UNCHANGED <<random, slot, cursor, marker, opened, raced>>

Claim(s) ==
    /\ record[s].at = "claiming"
    /\ marker' = record[s].plan.profile.id
    /\ raced' = (raced \/ \E t \in Sessions \ {s} : record[t].at = "claiming" \/ marker # Nothing)
    /\ record' = [record EXCEPT ![s].at = "launching"]
    /\ UNCHANGED <<random, slot, cursor, opened>>

(* reserve, which may fail, and what the onStart hooks find once the        *)
(* process is there: flags first, then the authored ones, each of which    *)
(* returns corrections, nothing, or throws.  All are folded in, in order.   *)
Launch(s) ==
    /\ record[s].at = "launching"
    /\ \/ record' = [record EXCEPT ![s].at = "failed"] /\ UNCHANGED opened
       \/ /\ \E window \in Windows(record[s].plan.spec.flags), found \in Finds[record[s].kit] :
                LET row == record[s].plan.profile
                    all == <<CoreFinds(row, CommandLine(record[s].plan.spec, s))>> \o found
                IN  record' = [record EXCEPT ![s].at = "ready", ![s].plan.profile = Corrected(row, all),
                                  ![s].plan.window = window,
                                  ![s].corrections = {<<x[1], NameAt(all, x)>> : x \in Places(all)}]
          /\ opened' = IF record[s].plan.spec.userDataDir = Nothing THEN opened
                       ELSE opened \cup {record[s].plan.profile.id}
    /\ UNCHANGED <<random, slot, cursor, marker, raced>>

(* #sealProfile, when the client connects. *)
Seal(s) ==
    /\ record[s].at = "ready"
    /\ record' = [record EXCEPT ![s].at = "sealed", ![s].sealed = Reconcile(record[s].plan.profile, Binary)]
    /\ UNCHANGED <<random, slot, cursor, marker, opened, raced>>

(* A client asks for the identity of a session it had, by its id. *)
Replay == {[FreeAsk EXCEPT !.id = record[t].sealed.id] : t \in {u \in Sessions : record[u].at = "sealed"}}

Session(s) == PlanDraw(s) \/ PlanResolve(s) \/ Pair(s) \/ Claim(s) \/ Launch(s) \/ Seal(s)

IdentitiesNext ==
    \/ \E i \in Range(Slots) : StartSlot(i)
    \/ \E s \in Sessions : Session(s)
    \/ \E s \in Sessions, ask \in Asks \cup Replay, chain \in Chains, kit \in Kits : Register(s, ask, chain, kit)

IdentitiesSpec == IdentitiesInit /\ [][IdentitiesNext]_identitiesVars
-----------------------------------------------------------------------------
Sealed == {s \in Sessions : record[s].at = "sealed"}

(* An authored plugin has corrected one of some fields. *)
Touched(r, fields) == \E by \in r.corrections : by[1] # 1 /\ by[2] \in fields

(* What a sealed identity claims is one machine, however it was drawn and   *)
(* corrected, and nothing of it says that the browser is headless.  What    *)
(* does not fit is what a plugin's onStart made of it, or was in the        *)
(* captured row; and the version fits even so whenever reconcile had it to  *)
(* correct, so that the row did not come with the binary's own.            *)
Misfits(r, tie) ==
    /\ Touched(r, FieldsOf[tie]) \/ (r.plan.profile.source = "corpus" /\ ~Holds(tie, Captured))
    /\ tie = "version" => r.plan.profile.chrome = Binary

SealedIsCoherent ==
    \A s \in Sealed :
        /\ \A tie \in Ties : Holds(tie, record[s].sealed) \/ Misfits(record[s], tie)
        /\ ~record[s].sealed.userAgent.headless

(* A sealed identity does not contradict the process the session is on: the *)
(* version is the binary's; if the process got the window it was asked for, *)
(* whoever asked, the viewport is what that window leaves; and the language *)
(* is the one on the command line, unless a note says that a plugin put     *)
(* another there.  What an authored onStart said instead stands.           *)
AgreesWithProcess ==
    \A s \in Sealed :
        LET row == record[s].sealed  plan == record[s].plan IN
        /\ row.chrome = Binary
        /\ \/ plan.window # WindowOf(plan.spec.flags) \/ Touched(record[s], {"viewport", "chromeHeight"})
           \/ plan.window = <<row.viewport[1], row.viewport[2] + row.chromeHeight>>
        /\ \/ plan.spec.flags["--lang"] = row.locale \/ Touched(record[s], {"locale"})
           \/ \E note \in plan.spec.conflicts : note[1] = "--lang"

(* "Check that the window the profile asked for is the window the process   *)
(* got, and correct the profile where it is not" (core/flags.ts:97): on a   *)
(* process of the session's own, a viewport that no authored plugin spoke  *)
(* about is what the window of that process leaves.                        *)
WindowIsMeasured ==
    \A s \in Sealed :
        LET row == record[s].sealed IN
        \/ record[s].kit = "none" \/ Touched(record[s], {"viewport", "chromeHeight"})
        \/ record[s].plan.window = <<row.viewport[1], row.viewport[2] + row.chromeHeight>>

(* "A corrected version has to be re-greased rather than pasted over the    *)
(* old list" (profile.ts:130): whoever corrected it, the brands are of the  *)
(* version that is sealed, if no authored plugin gave brands of its own.    *)
VersionIsRegreased ==
    \A s \in Sealed :
        LET row == record[s].sealed IN
        Touched(record[s], {"brands"}) \/ row.brands = Brands(row.chrome)

(* A data dir is opened under one identity only, unless two registrations   *)
(* found it unclaimed at a time.                                           *)
DirKeepsPersona == Cardinality(opened) <= 1 \/ raced

(* README.md:338: asking for an id draws the same machine again.            *)
Claimed(row) == <<row.os, row.arch, row.locale, row.timezone, row.gpu, row.screen, row.cores, row.memory>>

SameIdSameMachine ==
    \A s, t \in Sealed :
        record[s].sealed.id = record[t].sealed.id => Claimed(record[s].sealed) = Claimed(record[t].sealed)
=============================================================================
