--------------------------------- MODULE Corpus ---------------------------------
(***************************************************************************)
(* Draws and burns of identities that outlive a process: the remote and    *)
(* corpus loaders (src/plugins/profile/remote.ts, corpus.ts) as the chain  *)
(* of src/src/profile.ts calls them, with crashes and restarts of the      *)
(* process, a coordinator whose answers get lost, and a burn file that a   *)
(* crash or a failed write leaves in the middle of a line.                 *)
(*                                                                         *)
(* Abstracted.  A row is its id and the constraints it fits; every row the *)
(* terminal loader makes up has the id Made.  Weights only bias a choice   *)
(* that is left open.  The signal of a draw is never aborted: #plan gives  *)
(* none.                                                                   *)
(***************************************************************************)
EXTENDS Naturals, Sequences, FiniteSets

CONSTANTS
    Sessions,
    Rows,           \* the rows of the corpus, and the coordinator's
    Made,           \* what generate draws
    Wants,          \* what a constraint leaves of the rows
    Attempts,       \* ATTEMPTS of remote.ts
    MaxLines,       \* bound: the lines of the burn file
    MaxCrashes      \* bound: crashes, and failed writes that leave a part

ASSUME CorpusAssumption ==
    /\ Made \notin Rows /\ Wants \subseteq SUBSET Rows
    /\ Attempts \in Nat \ {0} /\ MaxLines \in Nat /\ MaxCrashes \in Nat

VARIABLES
    task,       \* each session: the await it is at, what it asked for, its row
    burnt,      \* the process's set of ids
    recovered,  \* the burn file is in `recovered'
    file,       \* the burn file: an id, whether it can be parsed, whether \n follows
    withdrawn,  \* the coordinator's burnt ids
    crashes,
    acked,      \* history: the ids whose burn was answered, by this process
    recorded,   \* history: those a process had written when it answered, ever
    cut,        \* history: the appends that left a part of their line
    unread      \* history: reading the file back failed in this process

corpusVars == <<task, burnt, recovered, file, withdrawn, crashes, acked, recorded, cut, unread>>
histories == <<acked, recorded, cut, unread>>

Idle == [at |-> "idle", want |-> {}, row |-> Made, tries |-> 0]

CorpusInit ==
    /\ task = [s \in Sessions |-> Idle]
    /\ burnt = {} /\ recovered = FALSE /\ file = <<>> /\ withdrawn = {} /\ crashes = 0
    /\ acked = {} /\ recorded = {} /\ cut = 0 /\ unread = FALSE

At(s, place) == task[s].at = place
Goto(s, place) == task' = [task EXCEPT ![s].at = place]

(* What withdrawn() makes of the text: a line that does not parse is skipped. *)
Readable == {file[i].id : i \in {j \in DOMAIN file : file[j].parses}}
-----------------------------------------------------------------------------
(* A session registers: the chain's first loader is remote. *)
StartDraw(s) ==
    /\ At(s, "idle")
    /\ \E want \in Wants :
        task' = [task EXCEPT ![s] = [Idle EXCEPT !.at = "remote", !.want = want, !.tries = 1]]
    /\ UNCHANGED <<burnt, recovered, file, withdrawn, crashes, histories>>

(* post: a reset, a timeout or a 5xx is tried again, the last one is not.   *)
Again(s, place, next) ==
    /\ At(s, place)
    /\ task' = IF task[s].tries < Attempts THEN [task EXCEPT ![s].tries = @ + 1]
               ELSE [task EXCEPT ![s].at = next]

(* /draw answers a row that has not been burnt at the coordinator, or 204   *)
(* or a 4xx, which pass the draw on.                                       *)
RemoteDraws(s) ==
    /\ At(s, "remote")
    /\ \/ \E row \in task[s].want \ withdrawn :
            task' = [task EXCEPT ![s].at = "drawn", ![s].row = row]
       \/ Goto(s, "corpus")
    /\ UNCHANGED <<burnt, recovered, file, withdrawn, crashes, histories>>

RemoteFails(s) ==
    /\ Again(s, "remote", "corpus")
    /\ UNCHANGED <<burnt, recovered, file, withdrawn, crashes, histories>>

(* withdrawn(): the first draw reads the file back, the others do not wait  *)
(* for it.                                                                 *)
CorpusOpens(s) ==
    /\ At(s, "corpus")
    /\ Goto(s, IF recovered THEN "loading" ELSE "reading")
    /\ recovered' = TRUE
    /\ UNCHANGED <<burnt, file, withdrawn, crashes, histories>>

(* Mutant: what is read replaces what is known. *)
ReadBackOver(s) ==
    /\ At(s, "reading") /\ Goto(s, "loading")
    /\ burnt' = Readable
    /\ UNCHANGED <<recovered, file, withdrawn, crashes, histories>>

ReadBack(s) ==
    /\ At(s, "reading") /\ Goto(s, "loading")
    /\ burnt' = burnt \cup Readable
    /\ UNCHANGED <<recovered, file, withdrawn, crashes, histories>>

(* .catch(() => ''): nothing is recovered, and nothing tries again. *)
ReadFails(s) ==
    /\ At(s, "reading") /\ Goto(s, "loading")
    /\ unread' = TRUE
    /\ UNCHANGED <<burnt, recovered, file, withdrawn, crashes, acked, recorded, cut>>

(* load(), then the filter; a corpus that cannot be read, or has no row     *)
(* left, passes the draw on to generate, which answers.                    *)
CorpusDraws(s) ==
    /\ At(s, "loading")
    /\ \E row \in (task[s].want \ burnt) \cup {Made} :
        task' = [task EXCEPT ![s].at = "drawn", ![s].row = row]
    /\ UNCHANGED <<burnt, recovered, file, withdrawn, crashes, histories>>
-----------------------------------------------------------------------------
(* Proxy.burn: every loader is told, remote first. *)
StartBurn(s) ==
    /\ At(s, "drawn")
    /\ Len(file) + Cardinality({t \in Sessions : task[t].at \in {"telling", "appending"}}) < MaxLines
    /\ task' = [task EXCEPT ![s].at = "telling", ![s].tries = 1]
    /\ UNCHANGED <<burnt, recovered, file, withdrawn, crashes, histories>>

(* /burn reaches the coordinator, and its answer comes back or does not. *)
RemoteHears(s) ==
    /\ At(s, "telling")
    /\ withdrawn' = withdrawn \cup ({task[s].row} \cap Rows)
    /\ \/ Goto(s, "told")
       \/ Again(s, "telling", "told")
    /\ UNCHANGED <<burnt, recovered, file, crashes, histories>>

(* It does not, or is refused. *)
RemoteDeaf(s) ==
    /\ At(s, "telling")
    /\ \/ Goto(s, "told")
       \/ Again(s, "telling", "told")
    /\ UNCHANGED <<burnt, recovered, file, withdrawn, crashes, histories>>

(* corpus: the id is withdrawn at once, and the line is being appended. *)
CorpusBurns(s) ==
    /\ At(s, "told") /\ Goto(s, "appending")
    /\ burnt' = burnt \cup {task[s].row}
    /\ UNCHANGED <<recovered, file, withdrawn, crashes, histories>>

(* The text after an append of `id', of which `how' got to the disk: all of *)
(* it, all but the \n, or a part.  After a line without \n it is that line  *)
(* that goes on, and two objects in a line do not parse.                   *)
(* Mutant: no \n is written.                                               *)
WrittenOpen(id, how) ==
    LET line == [id |-> id, parses |-> how # "part", ended |-> FALSE]
    IN  IF file # <<>> /\ ~file[Len(file)].ended
        THEN [file EXCEPT ![Len(file)] = [line EXCEPT !.parses = FALSE]]
        ELSE Append(file, line)

Written(id, how) ==
    LET line == [id |-> id, parses |-> how # "part", ended |-> how = "all"]
    IN  IF file # <<>> /\ ~file[Len(file)].ended
        THEN [file EXCEPT ![Len(file)] = [line EXCEPT !.parses = FALSE]]
        ELSE Append(file, line)

(* The burn is answered, whether the disk took the line, or a part, or not. *)
Appended(s) ==
    /\ At(s, "appending") /\ Goto(s, "burnt")
    /\ file' = Written(task[s].row, "all")
    /\ acked' = acked \cup {task[s].row} /\ recorded' = recorded \cup {task[s].row}
    /\ UNCHANGED <<burnt, recovered, withdrawn, crashes, cut, unread>>

CutShort(s) ==
    /\ \E how \in {"part", "all but the end"} : file' = Written(task[s].row, how)
    /\ cut' = cut + 1

AppendFails(s) ==
    /\ At(s, "appending") /\ Goto(s, "burnt")
    /\ acked' = acked \cup {task[s].row}
    /\ \/ UNCHANGED <<file, cut>>
       \/ cut < MaxCrashes /\ CutShort(s)
    /\ UNCHANGED <<burnt, recovered, withdrawn, crashes, recorded, unread>>

(* The session ends, and another comes in its place. *)
Leave(s) ==
    /\ task[s].at \in {"drawn", "burnt"}
    /\ task' = [task EXCEPT ![s] = Idle]
    /\ UNCHANGED <<burnt, recovered, file, withdrawn, crashes, histories>>

(* The process dies, and is started again: what it was writing is on the    *)
(* disk in part, or not at all.                                            *)
Crash ==
    /\ crashes < MaxCrashes /\ crashes' = crashes + 1
    /\ \/ UNCHANGED <<file, cut>>
       \/ \E s \in Sessions : At(s, "appending") /\ CutShort(s)
    /\ task' = [s \in Sessions |-> Idle]
    /\ burnt' = {} /\ recovered' = FALSE
    /\ acked' = {} /\ unread' = FALSE
    /\ UNCHANGED <<withdrawn, recorded>>

Drawing(s) ==
    \/ RemoteDraws(s) \/ RemoteFails(s)
    \/ CorpusOpens(s) \/ ReadBack(s) \/ ReadFails(s) \/ CorpusDraws(s)
Burning(s) == RemoteHears(s) \/ RemoteDeaf(s) \/ CorpusBurns(s) \/ Appended(s) \/ AppendFails(s)

CorpusNext ==
    \/ \E s \in Sessions : Drawing(s) \/ Burning(s) \/ StartDraw(s) \/ StartBurn(s) \/ Leave(s)
    \/ Crash

(* Every attempt has a timeout, and a read or a write of a file ends. *)
CorpusFairness == \A s \in Sessions : WF_corpusVars(Drawing(s)) /\ WF_corpusVars(Burning(s))

CorpusSpec == CorpusInit /\ [][CorpusNext]_corpusVars /\ CorpusFairness
-----------------------------------------------------------------------------
(* corpus never hands out a row whose burn this process has answered; nor   *)
(* one an earlier process recorded, except while another session's draw is *)
(* still reading the file, or when that failed, or the line is lost.       *)
Unknown(row) ==
    /\ row \notin acked
    /\ \/ row \notin Readable \/ unread
       \/ \E t \in Sessions : At(t, "reading")

BurntStaysOut ==
    [][\A s \in Sessions :
        At(s, "loading") /\ At(s, "drawn")' /\ task'[s].row \in acked \cup recorded
            => task'[s].row = Made \/ Unknown(task'[s].row)]_corpusVars

(* An append cut short, by a crash or by the disk, costs besides that burn  *)
(* at most one that was recorded: the next, which goes on in the same line. *)
OneLostPerCut == Cardinality(recorded \ Readable) <= cut

(* corpus.ts:92-95: half a line costs "the one burn it was writing rather   *)
(* than every burn before it": nothing that was recorded is lost.          *)
AnsweredIsKept == recorded \subseteq Readable

(* A draw ends with a row, a burn with an answer, whatever the coordinator  *)
(* does.                                                                   *)
Settled == {"idle", "drawn", "burnt"}
DrawsEnd == \A s \in Sessions : task[s].at \notin Settled ~> task[s].at \in Settled
=============================================================================
