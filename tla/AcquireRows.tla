------------------------------ MODULE AcquireRows ------------------------------
(***************************************************************************)
(* publish_planned_rows of the atomic iMessage acquisition: one planned    *)
(* row after another is staged, renamed into rows/, closed in the source   *)
(* ledger and in the checkpoint, under a row journal that tells the next   *)
(* process which physical state is authorized.  Every file is published    *)
(* through a temporary; a process may die between any two file-system      *)
(* operations.  A mode is one of the row I/O backends of the code:         *)
(*   live             macOS, whole run under the bootstrap flock           *)
(*   offline_macos    macOS descriptors, no lock                           *)
(*   offline_windows  Windows handles, no lock, rename-aside replacement   *)
(* Publishers follow each other here.  Live this is the flock; offline no  *)
(* lock keeps two runs apart, and it is an assumption about the operator.  *)
(***************************************************************************)
EXTENDS Integers, FiniteSets, Sequences

CONSTANTS
    Publishers,     \* processes that run the acquisition
    MaxRows,        \* bound on the rows of a plan
    MaxCrashes,     \* bound on the deaths of publishers
    Modes,          \* the row I/O backends explored
    None,           \* an absent file, an unread value
    Torn            \* the bytes of a file not yet written in full

ASSUME RowsAssumption ==
    /\ MaxRows \in Nat
    /\ MaxCrashes \in Nat
    /\ Modes \subseteq {"live", "offline_macos", "offline_windows"}

VARIABLES
    mode,       \* the backend of this run directory
    plan,       \* the planned rows: their number n and the retained ones, kept
    file,       \* the state files at the root of the run directory
    dirs,       \* which of the directories rows and staging exist
    stage,      \* the row staging directory of one row, or None
    rows,       \* the committed row directories: row -> files it holds
    temps,      \* temporary and set-aside files left in the tree
    pc,         \* where each publisher is
    mem,        \* what each publisher has read (the dict called state)
    io,         \* the durable write each publisher is in the middle of
    crashes     \* deaths so far

disk == <<file, dirs, stage, rows, temps>>
vars == <<mode, plan, file, dirs, stage, rows, temps, pc, mem, io, crashes>>

----------------------------------------------------------------------------
StateFiles == {"ledger", "checkpoint", "journal", "manifest", "receipt"}

\* _expected_row_files: text, sidecar, fragment, in this order.
Parts == <<"text", "sidecar", "fragment">>
AllParts == {"text", "sidecar", "fragment"}
Prefixes == {{}, {"text"}, {"text", "sidecar"}, AllParts}

JournalStates == {"prepared", "staged", "committed_unledgered",
                  "ledger_closed", "checkpoint_closed"}

\* None and Torn are no ledger, row journal, manifest or stage of a row.
ASSUME ValuesAssumption ==
    /\ None \notin [closed : Nat, complete : BOOLEAN]
    /\ {None, Torn} \cap [row : Nat, state : JournalStates] = {}
    /\ \A kept \in SUBSET (1..MaxRows) : None # kept
    /\ None \notin [row : Nat, files : SUBSET AllParts]
    /\ None \notin {"partial", "staged", "committed"}

Ledger(k) == [closed |-> k, complete |-> FALSE]
FinalLedger == [closed |-> plan.n, complete |-> TRUE]

\* _ledger_payload with complete=(index + 1 == len(planned)).
LedgerAt(k) == IF k = plan.n THEN FinalLedger ELSE Ledger(k)

Kept(i) == i \in plan.kept
Journal(i, s) == [row |-> i, state |-> s]

NoIo == [target |-> None, val |-> None, was |-> None, step |-> "none",
         then |-> "none", mem |-> None]
NoMem == [names |-> {}, ledger |-> None, checkpoint |-> None, chk |-> "missing",
          journal |-> None, ledgered |-> FALSE, staged |-> None]

Exchange == mode # "offline_windows"
Idle == {"idle", "refused", "done"}
Active(p) == pc[p] \notin Idle

TypeOK ==
    /\ mode \in Modes
    /\ plan.n \in 0..MaxRows /\ plan.kept \subseteq 1..plan.n
    /\ DOMAIN file = StateFiles
    /\ dirs \subseteq {"rows", "staging"}
    /\ stage # None => stage.row \in plan.kept /\ stage.files \subseteq AllParts
    /\ DOMAIN rows \subseteq plan.kept
    /\ \A t \in temps : t.target \in StateFiles \cup AllParts
    /\ \A p \in Publishers : io[p].step # "none" <=> pc[p] = "io"
    /\ crashes \in 0..MaxCrashes

Init ==
    /\ mode \in Modes
    /\ \E n \in 0..MaxRows : \E k \in SUBSET (1..n) : plan = [n |-> n, kept |-> k]
    /\ file = [f \in StateFiles |-> None]
    /\ dirs = {}
    /\ stage = None
    /\ rows = [i \in {} |-> {}]
    /\ temps = {}
    /\ pc = [p \in Publishers |-> "idle"]
    /\ mem = [p \in Publishers |-> NoMem]
    /\ io = [p \in Publishers |-> NoIo]
    /\ crashes = 0

----------------------------------------------------------------------------
(* Control.                                                                *)

Goto(p, l) == pc' = [pc EXCEPT ![p] = l]
Know(p, m) == mem' = [mem EXCEPT ![p] = m]

\* An AtomicAcquisitionError, BootstrapStateError or BootstrapRecoveryRequired:
\* the process ends, what it left on disk stays.
Refuse(p) ==
    /\ pc' = [pc EXCEPT ![p] = "refused"]
    /\ mem' = [mem EXCEPT ![p] = NoMem]
    /\ io' = [io EXCEPT ![p] = NoIo]
    /\ UNCHANGED <<mode, plan, disk, crashes>>

\* A step that only reads: it refuses unless ok, else goes on with m at l.
Read(p, ok, m, l) ==
    IF ok
    THEN /\ Goto(p, l)
         /\ Know(p, m)
         /\ UNCHANGED <<mode, plan, disk, io, crashes>>
    ELSE Refuse(p)

\* run: an operator starts the acquisition, or starts it again, behind the end
\* or the death of the process before.
Start(p) ==
    /\ \A q \in Publishers : ~ Active(q)
    /\ Goto(p, IF Exchange THEN "names" ELSE "recover")
    /\ Know(p, NoMem)
    /\ UNCHANGED <<mode, plan, disk, io, crashes>>

\* The process dies; the kernel releases its flock.
Crash(p) ==
    /\ Active(p)
    /\ crashes < MaxCrashes
    /\ crashes' = crashes + 1
    /\ Goto(p, "idle")
    /\ Know(p, NoMem)
    /\ io' = [io EXCEPT ![p] = NoIo]
    /\ UNCHANGED <<mode, plan, disk>>

----------------------------------------------------------------------------
(* Durable files: write_bytes, write_json, remove_file.                    *)

Present(f) ==
    IF f \in StateFiles THEN file[f] # None
    ELSE stage # None /\ f \in stage.files

Put(f, v) ==
    IF f \in StateFiles
    THEN file' = [file EXCEPT ![f] = v] /\ UNCHANGED stage
    ELSE stage' = [stage EXCEPT !.files = @ \cup {f}] /\ UNCHANGED file

Temp(p, v, k) == [by |-> p, target |-> io[p].target, val |-> v, kind |-> k]

\* The caller asks for val in place of was, then goes on at l knowing m.
Write(p, f, v, was, l, m) ==
    /\ Goto(p, "io")
    /\ io' = [io EXCEPT ![p] = [target |-> f, val |-> v, was |-> was,
                                step |-> "create", then |-> l, mem |-> m]]
    /\ UNCHANGED <<mode, plan, disk, mem, crashes>>

Step(p, s) == io' = [io EXCEPT ![p].step = s] /\ UNCHANGED <<pc, mem>>

Finish(p) ==
    /\ Goto(p, io[p].then)
    /\ Know(p, io[p].mem)
    /\ io' = [io EXCEPT ![p] = NoIo]

\* The bytes there are compared with the expected ones (or the name must be
\* free), then the temporary is created empty.
IoCreate(p) ==
    /\ io[p].step = "create"
    /\ IF IF io[p].was = None THEN ~ Present(io[p].target)
          ELSE file[io[p].target] = io[p].was
       THEN /\ (io[p].target \notin StateFiles) => stage # None
            /\ temps' = temps \cup {Temp(p, Torn, "tmp")}
            /\ Step(p, "flush")
            /\ UNCHANGED <<mode, plan, file, dirs, stage, rows, crashes>>
       ELSE Refuse(p)

\* Written in full and fsynced.
IoFlush(p) ==
    /\ io[p].step = "flush"
    /\ temps' = (temps \ {Temp(p, Torn, "tmp")}) \cup {Temp(p, io[p].val, "tmp")}
    /\ Step(p, IF io[p].was = None THEN "publish"
               ELSE IF Exchange THEN "compare" ELSE "aside")
    /\ UNCHANGED <<mode, plan, file, dirs, stage, rows, crashes>>

\* A new name: exclusive rename, refused when the name has appeared.
IoPublish(p) ==
    /\ io[p].step = "publish"
    /\ IF Present(io[p].target) \/ (io[p].target \notin StateFiles /\ stage = None)
       THEN Refuse(p)
       ELSE /\ Put(io[p].target, io[p].val)
            /\ temps' = temps \ {Temp(p, io[p].val, "tmp")}
            /\ Finish(p)
            /\ UNCHANGED <<mode, plan, dirs, rows, crashes>>

\* macOS replacement: the inode is compared once more just before the swap.
IoCompare(p) ==
    /\ io[p].step = "compare"
    /\ IF file[io[p].target] = io[p].was
       THEN Step(p, "swap") /\ UNCHANGED <<mode, plan, disk, crashes>>
       ELSE Refuse(p)

\* RENAME_SWAP: the temporary now holds the predecessor.  A name that is gone
\* refuses; another value than the expected one is left for recovery.
IoSwap(p) ==
    LET there == file[io[p].target]
    IN  /\ io[p].step = "swap"
        /\ IF there = None THEN Refuse(p)
           ELSE /\ Put(io[p].target, io[p].val)
                /\ temps' = (temps \ {Temp(p, io[p].val, "tmp")}) \cup {Temp(p, there, "tmp")}
                /\ IF there = io[p].was THEN Step(p, "drop")
                   ELSE /\ Goto(p, "refused")
                        /\ Know(p, NoMem)
                        /\ io' = [io EXCEPT ![p] = NoIo]
                /\ UNCHANGED <<mode, plan, dirs, rows, crashes>>

\* Windows replacement: the predecessor is renamed aside, the name is free ...
IoAside(p) ==
    /\ io[p].step = "aside"
    /\ IF file[io[p].target] = io[p].was
       THEN /\ file' = [file EXCEPT ![io[p].target] = None]
            /\ temps' = temps \cup {Temp(p, io[p].was, "replaced")}
            /\ Step(p, "fill")
            /\ UNCHANGED <<mode, plan, dirs, stage, rows, crashes>>
       ELSE Refuse(p)

\* ... until the temporary takes it.
IoFill(p) ==
    /\ io[p].step = "fill"
    /\ IF file[io[p].target] = None
       THEN /\ Put(io[p].target, io[p].val)
            /\ temps' = temps \ {Temp(p, io[p].val, "tmp")}
            /\ Step(p, "drop")
            /\ UNCHANGED <<mode, plan, dirs, rows, crashes>>
       ELSE Refuse(p)

\* The published bytes are read back and the predecessor is unlinked.
IoDrop(p) ==
    /\ io[p].step = "drop"
    /\ IF file[io[p].target] = io[p].val
       THEN /\ temps' = temps \ {Temp(p, io[p].was,
                                      IF Exchange THEN "tmp" ELSE "replaced")}
            /\ Finish(p)
            /\ UNCHANGED <<mode, plan, file, dirs, stage, rows, crashes>>
       ELSE Refuse(p)

DurableWrite(p) ==
    \/ IoCreate(p) \/ IoFlush(p) \/ IoPublish(p) \/ IoCompare(p) \/ IoSwap(p)
    \/ IoAside(p) \/ IoFill(p) \/ IoDrop(p)

----------------------------------------------------------------------------
(* recover_row_journal_rewrite (Windows only): finish one interrupted      *)
(* journal rewrite before the inventory.                                   *)

Residue(k) == {t \in temps : t.target = "journal" /\ t.kind = k}

\* _journal_rewrite_successor.
Succeeds(j, i) ==
    /\ i \in [row : {j.row}, state : JournalStates]
    /\ CASE j.state = "prepared" ->
              i.state = IF Kept(j.row) THEN "staged" ELSE "ledger_closed"
         [] j.state = "staged" -> i.state = "committed_unledgered"
         [] j.state = "committed_unledgered" -> i.state = "ledger_closed"
         [] j.state = "ledger_closed" -> i.state = "checkpoint_closed"
         [] OTHER -> FALSE

\* The files of an interrupted rewrite, oldest first.
RewriteChain(old, new) ==
    [n \in 1..Cardinality(old) |-> (CHOOSE t \in old : TRUE).val]
      \o (IF file["journal"] = None THEN <<>> ELSE <<file["journal"]>>)
      \o [n \in 1..Cardinality(new) |-> (CHOOSE t \in new : TRUE).val]

ChainOk(chain) ==
    /\ \A n \in 1..Len(chain) : chain[n] # Torn
    /\ \A n \in 1..(Len(chain) - 1) : Succeeds(chain[n], chain[n + 1])

\* The set-aside predecessor goes back to the free name or is deleted; then
\* the temporary takes the name.  Each pass does the first of these that is
\* left to do.
Recover(p) ==
    LET old == Residue("replaced")
        new == Residue("tmp")
        chain == RewriteChain(old, new)
        lone == new # {} /\ Len(chain) = 1
    IN  /\ pc[p] = "recover"
        /\ IF old = {} /\ new = {} THEN Read(p, TRUE, NoMem, "names")
           ELSE IF \/ Cardinality(old) > 1 \/ Cardinality(new) > 1
                   \/ ~ ChainOk(chain)
                   \/ lone /\ chain[1].state # "prepared"
           THEN Refuse(p)
           ELSE /\ IF old # {}
                   THEN /\ temps' = temps \ old
                        /\ file' = IF file["journal"] = None
                                   THEN [file EXCEPT !["journal"] = chain[1]] ELSE file
                   ELSE /\ temps' = temps \ new
                        /\ file' = [file EXCEPT !["journal"] = chain[Len(chain)]]
                /\ UNCHANGED <<mode, plan, dirs, stage, rows, pc, mem, io, crashes>>

----------------------------------------------------------------------------
(* _preflight_row_publication: the complete inventory is classified before *)
(* anything is changed.                                                    *)

ReadNames(p) ==
    /\ pc[p] = "names"
    /\ LET names == {f \in StateFiles : file[f] # None}
           residue == \E t \in temps : t.target \in StateFiles
       IN  Read(p, ~ residue /\ (names = {} \/ "ledger" \in names),
                [NoMem EXCEPT !.names = names],
                IF names = {} THEN "fresh" ELSE "ledger")

\* Without a ledger only the empty row directories may be there.
ReadFresh(p) ==
    /\ pc[p] = "fresh"
    /\ Read(p, rows = [i \in {} |-> {}] /\ stage = None, mem[p], "mk_rows")

ReadLedger(p) ==
    /\ pc[p] = "ledger"
    /\ LET l == file["ledger"]
       IN  Read(p, /\ l # None
                   /\ l.complete => l.closed = plan.n
                   /\ (l.closed = plan.n /\ plan.n > 0) => l.complete,
                [mem[p] EXCEPT !.ledger = l],
                IF "checkpoint" \in mem[p].names THEN "checkpoint" ELSE "journal")

\* The only ledger a lagging checkpoint may bind.
Predecessor(l) ==
    IF l.closed > 0 THEN Ledger(l.closed - 1)
    ELSE IF l.complete THEN Ledger(0) ELSE None

ReadCheckpoint(p) ==
    /\ pc[p] = "checkpoint"
    /\ LET c == file["checkpoint"]
           l == mem[p].ledger
       IN  Read(p, c # None /\ c \in {l, Predecessor(l)},
                [mem[p] EXCEPT !.checkpoint = c,
                               !.chk = IF c = l THEN "current" ELSE "predecessor"],
                "journal")

\* What a row transaction in state s may find: its row closed in the ledger
\* or not, and the checkpoint that goes with it.
JournalFits(j, l, chk) ==
    LET ledgered == l.closed = j.row
        closing == j.state \in {"ledger_closed", "checkpoint_closed"}
    IN  /\ j.row \in 1..plan.n
        /\ l.closed \in {j.row - 1, j.row}
        /\ closing => ledgered
        /\ (Kept(j.row) /\ j.state \in {"prepared", "staged"}) => ~ ledgered
        /\ CASE ~ ledgered -> chk = "current"
             [] ledgered /\ j.state = "checkpoint_closed" -> chk = "current"
             [] ledgered /\ j.state = "ledger_closed" -> TRUE
             [] OTHER -> chk # "current"

ReadJournal(p) ==
    /\ pc[p] = "journal"
    /\ LET j == file["journal"]
           l == mem[p].ledger
           m == mem[p]
       IN  IF "journal" \in m.names
           THEN Read(p, j # None /\ JournalFits(j, l, m.chk),
                     [m EXCEPT !.journal = j, !.ledgered = (l.closed = j.row)], "tree")
           ELSE Read(p, /\ \/ m.chk = "current"
                           \/ l.closed = 0 /\ (~ l.complete \/ plan.n = 0)
                        /\ l.complete \/ m.names \cap {"manifest", "receipt"} = {},
                     m, "tree")

\* rows/ and .row-staging/ hold exactly what ledger and journal account for.
ReadTree(p) ==
    LET m == mem[p]
        j == m.journal
        due == {i \in plan.kept : i <= m.ledger.closed}
        open == j # None /\ Kept(j.row)
        inRows == open /\ j.row \in DOMAIN rows
        inStage == open /\ stage # None /\ stage.row = j.row
        placed == open /\ \/ m.ledgered
                          \/ j.state \in {"committed_unledgered", "ledger_closed",
                                          "checkpoint_closed"}
                          \/ j.state = "staged" /\ inRows
        staged == open /\ ~ placed /\ inStage
        want == due \cup (IF placed THEN {j.row} ELSE {})
    IN  /\ pc[p] = "tree"
        /\ Read(p, /\ (open /\ ~ m.ledgered /\ j.state = "staged") => (inRows # inStage)
                   /\ DOMAIN rows = want
                   /\ \A i \in want : rows[i] = AllParts
                   /\ (stage # None) = staged
                   /\ staged => /\ \A t \in temps : t.target \notin AllParts
                                /\ IF j.state = "prepared" THEN stage.files \in Prefixes
                                   ELSE stage.files = AllParts,
                [m EXCEPT !.names = {}, !.staged =
                    IF ~ open \/ m.ledgered THEN None
                    ELSE IF j.state = "staged" THEN IF inRows THEN "committed" ELSE "staged"
                    ELSE IF j.state = "prepared" /\ inStage THEN "partial" ELSE None],
                IF j # None THEN "resume" ELSE "repair")

Preflight(p) ==
    \/ ReadNames(p) \/ ReadFresh(p) \/ ReadLedger(p) \/ ReadCheckpoint(p)
    \/ ReadJournal(p) \/ ReadTree(p)

----------------------------------------------------------------------------
(* publish_planned_rows.                                                   *)

\* ensure_directory: an existing directory is adopted.
MakeDir(p, d, l) ==
    /\ dirs' = dirs \cup {d}
    /\ Goto(p, l)
    /\ UNCHANGED <<mode, plan, file, stage, rows, temps, mem, io, crashes>>

MakeRows(p) == pc[p] = "mk_rows" /\ MakeDir(p, "rows", "mk_staging")
MakeStaging(p) == pc[p] = "mk_staging" /\ MakeDir(p, "staging", "init_ledger")

InitialLedger(p) ==
    /\ pc[p] = "init_ledger"
    /\ Write(p, "ledger", Ledger(0), None, "init_checkpoint",
             [mem[p] EXCEPT !.ledger = Ledger(0)])

InitialCheckpoint(p) ==
    /\ pc[p] = "init_checkpoint"
    /\ Write(p, "checkpoint", mem[p].ledger, None, "next_row",
             [mem[p] EXCEPT !.checkpoint = mem[p].ledger, !.chk = "current"])

\* MUTATION of RepairCheckpoint: a current checkpoint is written again.
RepairCheckpointAlways(p) ==
    /\ pc[p] = "repair"
    /\ Write(p, "checkpoint", mem[p].ledger, mem[p].checkpoint, "next_row",
             [mem[p] EXCEPT !.checkpoint = mem[p].ledger, !.chk = "current"])

\* After a resumed transaction, or without one: the checkpoint catches up.
RepairCheckpoint(p) ==
    /\ pc[p] = "repair"
    /\ IF mem[p].chk = "current" THEN Read(p, TRUE, mem[p], "next_row")
       ELSE Write(p, "checkpoint", mem[p].ledger, mem[p].checkpoint, "next_row",
                  [mem[p] EXCEPT !.checkpoint = mem[p].ledger, !.chk = "current"])

\* MUTATION of NextRow: an empty plan is not closed in the ledger.
NextRowUnclosed(p) ==
    LET m == mem[p]
        j == Journal(m.ledger.closed + 1, "prepared")
    IN  /\ pc[p] = "next_row"
        /\ IF m.ledger.closed < plan.n
           THEN Write(p, "journal", j, None, "resume",
                      [m EXCEPT !.journal = j, !.ledgered = FALSE, !.staged = None])
           ELSE Read(p, m.checkpoint = m.ledger, m, "manifest")

\* The next planned row gets its journal; behind the last one the ledger must be
\* complete and the checkpoint bound to it.
NextRow(p) ==
    LET m == mem[p]
        j == Journal(m.ledger.closed + 1, "prepared")
    IN  /\ pc[p] = "next_row"
        /\ IF m.ledger.closed < plan.n
           THEN Write(p, "journal", j, None, "resume",
                      [m EXCEPT !.journal = j, !.ledgered = FALSE, !.staged = None])
           ELSE IF ~ m.ledger.complete
           THEN IF plan.n > 0 THEN Refuse(p)
                ELSE Write(p, "ledger", FinalLedger, m.ledger, "repair",
                           [m EXCEPT !.ledger = FinalLedger, !.chk = "predecessor"])
           ELSE Read(p, m.checkpoint = m.ledger, m, "manifest")

\* MUTATION of Resume: a staged row is taken for committed.
ResumeCommitted(p) ==
    LET m == mem[p]
        s == m.journal.state
    IN  /\ pc[p] = "resume"
        /\ Read(p, TRUE, m,
                CASE s = "prepared" /\ Kept(m.journal.row) ->
                       IF m.staged = "partial" THEN "clear" ELSE "mk_stage"
                  [] s = "staged" -> "journal_committed"
                  [] s = "ledger_closed" -> "close_checkpoint"
                  [] s = "checkpoint_closed" -> "drop_journal"
                  [] OTHER -> IF m.ledgered THEN "journal_ledger" ELSE "close_ledger")

\* _resume_authorized_row_transaction goes on where the journal stands.
Resume(p) ==
    LET m == mem[p]
        s == m.journal.state
    IN  /\ pc[p] = "resume"
        /\ Read(p, TRUE, m,
                CASE s = "prepared" /\ Kept(m.journal.row) ->
                       IF m.staged = "partial" THEN "clear" ELSE "mk_stage"
                  [] s = "staged" ->
                       IF m.staged = "committed" THEN "journal_committed" ELSE "commit"
                  [] s = "ledger_closed" -> "close_checkpoint"
                  [] s = "checkpoint_closed" -> "drop_journal"
                  [] OTHER -> IF m.ledgered THEN "journal_ledger" ELSE "close_ledger")

\* MUTATION of ClearOrder: the files go in the order they were written in.
ClearOrderOfWriting == <<"text", "sidecar", "fragment">>

\* The partial stage is emptied in directory order (fragment, sidecar, text)
\* and its directory removed.
ClearOrder == <<"fragment", "sidecar", "text">>

ClearStage(p) ==
    /\ pc[p] = "clear"
    /\ IF stage = None THEN Refuse(p)
       ELSE IF stage.files = {}
       THEN IF \E t \in temps : t.target \in AllParts THEN Refuse(p)
            ELSE /\ stage' = None
                 /\ Goto(p, "mk_stage")
                 /\ UNCHANGED <<mode, plan, file, dirs, rows, temps, mem, io, crashes>>
       ELSE LET n == CHOOSE n \in 1..3 : /\ ClearOrder[n] \in stage.files
                                         /\ \A k \in 1..(n - 1) : ClearOrder[k] \notin stage.files
            IN  /\ stage' = [stage EXCEPT !.files = @ \ {ClearOrder[n]}]
                /\ UNCHANGED <<mode, plan, file, dirs, rows, temps, pc, mem, io, crashes>>

MakeStage(p) ==
    /\ pc[p] = "mk_stage"
    /\ stage' = IF stage = None THEN [row |-> mem[p].journal.row, files |-> {}] ELSE stage
    /\ Goto(p, Parts[1])
    /\ UNCHANGED <<mode, plan, file, dirs, rows, temps, mem, io, crashes>>

WritePart(p) ==
    \E n \in 1..3 :
        /\ pc[p] = Parts[n]
        /\ Write(p, Parts[n], Parts[n], None,
                 IF n = 3 THEN "seal" ELSE Parts[n + 1], mem[p])

\* seal_directory: inventory and bytes are verified before the journal says so.
Seal(p) ==
    /\ pc[p] = "seal"
    /\ Read(p, stage # None /\ stage.row = mem[p].journal.row /\ stage.files = AllParts
               /\ \A t \in temps : t.target \notin AllParts,
            mem[p], "journal_staged")

\* _advance_row_journal.
Advance(p, s, l, m) ==
    LET j == [mem[p].journal EXCEPT !.state = s]
    IN  Write(p, "journal", j, mem[p].journal, l, [m EXCEPT !.journal = j])

JournalStaged(p) ==
    /\ pc[p] = "journal_staged"
    /\ Advance(p, "staged", "commit", [mem[p] EXCEPT !.staged = "staged"])

\* commit_directory: verified once more, the destination must be free ...
Commit(p) ==
    /\ pc[p] = "commit"
    /\ Read(p, /\ stage # None /\ stage.row = mem[p].journal.row /\ stage.files = AllParts
               /\ \A t \in temps : t.target \notin AllParts
               /\ mem[p].journal.row \notin DOMAIN rows,
            mem[p], "rename")

\* ... the exclusive rename, and the verification behind it.
Rename(p) ==
    LET i == mem[p].journal.row
        moved == stage # None /\ stage.row = i /\ i \notin DOMAIN rows
        whole == moved /\ stage.files = AllParts
    IN  /\ pc[p] = "rename"
        /\ IF moved THEN /\ rows' = [r \in DOMAIN rows \cup {i} |->
                                       IF r = i THEN stage.files ELSE rows[r]]
                         /\ stage' = None
                    ELSE UNCHANGED <<stage, rows>>
        /\ Goto(p, IF whole THEN "journal_committed" ELSE "refused")
        /\ Know(p, IF whole THEN mem[p] ELSE NoMem)
        /\ UNCHANGED <<mode, plan, file, dirs, temps, io, crashes>>

JournalCommitted(p) ==
    /\ pc[p] = "journal_committed"
    /\ Advance(p, "committed_unledgered", "close_ledger", [mem[p] EXCEPT !.staged = "committed"])

\* MUTATION of CloseLedger: the closed row stays in memory.
CloseLedgerUnwritten(p) ==
    /\ pc[p] = "close_ledger"
    /\ Read(p, TRUE, [mem[p] EXCEPT !.ledgered = TRUE], "journal_ledger")

CloseLedger(p) ==
    LET m == mem[p]
        l == LedgerAt(m.journal.row)
    IN  /\ pc[p] = "close_ledger"
        /\ IF m.ledgered THEN Read(p, TRUE, m, "journal_ledger")
           ELSE Write(p, "ledger", l, m.ledger, "journal_ledger",
                      [m EXCEPT !.ledger = l, !.ledgered = TRUE])

JournalLedger(p) ==
    /\ pc[p] = "journal_ledger"
    /\ Advance(p, "ledger_closed", "close_checkpoint", mem[p])

\* MUTATION of CloseCheckpoint: the ledger follows a lagging checkpoint.
CloseCheckpointBackwards(p) ==
    LET m == mem[p]
    IN  /\ pc[p] = "close_checkpoint"
        /\ IF m.checkpoint = m.ledger THEN Read(p, TRUE, m, "journal_checkpoint")
           ELSE Write(p, "ledger", m.checkpoint, m.ledger, "journal_checkpoint",
                      [m EXCEPT !.ledger = m.checkpoint, !.chk = "current"])

CloseCheckpoint(p) ==
    LET m == mem[p]
    IN  /\ pc[p] = "close_checkpoint"
        /\ IF m.checkpoint = m.ledger THEN Read(p, TRUE, m, "journal_checkpoint")
           ELSE Write(p, "checkpoint", m.ledger, m.checkpoint, "journal_checkpoint",
                      [m EXCEPT !.checkpoint = m.ledger, !.chk = "current"])

JournalCheckpoint(p) ==
    /\ pc[p] = "journal_checkpoint"
    /\ Advance(p, "checkpoint_closed", "drop_journal", [mem[p] EXCEPT !.chk = "current"])

\* remove_file compares the journal with the expected one, then unlinks it.
DropJournal(p) ==
    /\ pc[p] = "drop_journal"
    /\ Read(p, file["journal"] = mem[p].journal, mem[p], "unlink_journal")

UnlinkJournal(p) ==
    /\ pc[p] = "unlink_journal"
    /\ IF file["journal"] = None THEN Refuse(p)
       ELSE /\ file' = [file EXCEPT !["journal"] = None]
            /\ Goto(p, "repair")
            /\ Know(p, [mem[p] EXCEPT !.journal = None, !.ledgered = FALSE,
                                      !.staged = None, !.chk = "current"])
            /\ UNCHANGED <<mode, plan, dirs, stage, rows, temps, io, crashes>>

\* The aggregate manifest and the acquisition receipt are created once, or
\* found equal to what this run would write.
CreateOrEqual(p, f, v, l) ==
    IF file[f] = None THEN Write(p, f, v, None, l, mem[p])
    ELSE Read(p, file[f] = v, mem[p], l)

Manifest(p) == pc[p] = "manifest" /\ CreateOrEqual(p, "manifest", plan.kept, "receipt")

\* _semantic_tree_payload hashes what is on disk now.
Tree == [ledger |-> file["ledger"], checkpoint |-> file["checkpoint"],
         manifest |-> file["manifest"], rows |-> rows]

Receipt(p) ==
    /\ pc[p] = "receipt"
    /\ IF file["ledger"] = None \/ file["checkpoint"] = None THEN Refuse(p)
       ELSE CreateOrEqual(p, "receipt", [ledger |-> mem[p].ledger, tree |-> Tree], "done")

Publish(p) ==
    \/ MakeRows(p) \/ MakeStaging(p) \/ InitialLedger(p) \/ InitialCheckpoint(p)
    \/ RepairCheckpoint(p) \/ NextRow(p) \/ Manifest(p) \/ Receipt(p)

RowTransaction(p) ==
    \/ Resume(p) \/ ClearStage(p) \/ MakeStage(p) \/ WritePart(p) \/ Seal(p)
    \/ JournalStaged(p) \/ Commit(p) \/ Rename(p) \/ JournalCommitted(p)
    \/ CloseLedger(p) \/ JournalLedger(p) \/ CloseCheckpoint(p)
    \/ JournalCheckpoint(p) \/ DropJournal(p) \/ UnlinkJournal(p)

Work(p) ==
    Recover(p) \/ Preflight(p) \/ Publish(p) \/ RowTransaction(p) \/ DurableWrite(p)

Next == \E p \in Publishers : Start(p) \/ Crash(p) \/ Work(p)

Spec == Init /\ [][Next]_vars

----------------------------------------------------------------------------
(* What the row transactions are for.                                      *)

\* The source ledger, also while a Windows replacement has it set aside.
LedgerOnDisk ==
    LET aside == {t.val : t \in {u \in temps : u.target = "ledger" /\ u.kind = "replaced"}}
    IN  IF file["ledger"] # None THEN file["ledger"]
        ELSE IF aside # {} THEN CHOOSE l \in aside : TRUE ELSE Ledger(0)

\* A row the source ledger has closed is committed with all of its files: the
\* ledger is only written behind the rename (publish_planned_rows).
RowsBeforeLedger ==
    \A i \in plan.kept : i <= LedgerOnDisk.closed => i \in DOMAIN rows /\ rows[i] = AllParts

\* At most the one row of the row journal is committed ahead of the ledger.
OneRowAhead ==
    \A i \in DOMAIN rows : i > LedgerOnDisk.closed =>
        /\ i = LedgerOnDisk.closed + 1
        /\ \E j \in {file["journal"]} \cup {t.val : t \in Residue("replaced")} :
              j \notin {None, Torn} /\ j.row = i

\* The acquisition receipt seals exactly the tree that is there: the complete
\* ledger, the checkpoint bound to it, every retained row, no transaction open.
ReceiptSealsTree ==
    file["receipt"] # None =>
        /\ file["receipt"] = [ledger |-> FinalLedger, tree |-> Tree]
        /\ file["checkpoint"] = FinalLedger
        /\ DOMAIN rows = plan.kept /\ \A i \in plan.kept : rows[i] = AllParts
        /\ file["journal"] = None /\ stage = None

\* The source ledger never goes back to fewer closed rows.
LedgerNeverGoesBack == [][LedgerOnDisk.closed <= LedgerOnDisk'.closed]_vars

\* _preflight_row_publication takes up every state that deaths leave between two
\* writes: a publisher is only refused over a temporary, live as well.
RefusedOverResidue ==
    [][\A p \in Publishers : pc[p] # "refused" /\ pc'[p] = "refused" => temps' # {}]_vars
=============================================================================
