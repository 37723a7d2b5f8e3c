------------------------------- MODULE AcquireRun -------------------------------
(***************************************************************************)
(* One atomic iMessage acquisition from its first start to its receipt:    *)
(* AcquireBootstrap builds the run directory, AcquireRows publishes the    *)
(* planned rows into it.  Each restart begins with the bootstrap, whose    *)
(* verifier looks at a run directory the rows have already changed.        *)
(***************************************************************************)
EXTENDS AcquireBootstrap

CONSTANTS Runner,   \* the process at work
          MaxRows   \* bound on the rows of a plan

VARIABLES plan, file, dirs, stage, rows, temps, pc, mem, io

Publishers == {Runner}
Rows == INSTANCE AcquireRows

\* None and Torn are no value of the row layer (ValuesAssumption of AcquireRows).
ASSUME RunAssumption ==
    /\ MaxRows \in Nat
    /\ None \notin [closed : Nat, complete : BOOLEAN]
    /\ {None, Torn} \cap [row : Nat, state : Rows!JournalStates] = {}
    /\ \A kept \in SUBSET (1..MaxRows) : None # kept
    /\ None \notin [row : Nat, files : SUBSET Rows!AllParts]
    /\ None \notin {"partial", "staged", "committed"}

rvars == <<plan, file, dirs, stage, rows, temps, pc, mem, io>>
runvars == <<bvars, rvars>>

\* The names of the row layer at the root of the run directory.
RowLayer ==
    dirs # {} \/ temps # {} \/ \E f \in Rows!StateFiles : file[f] # None

Publishing == Rows!Active(Runner)

Init == BInit /\ Rows!Init

BootstrapStep ==
    /\ ~ Publishing
    /\ Bootstrap \/ BootstrapCrash \/ \E o \in Options : Begin(o)
    /\ UNCHANGED rvars

SourceStep == SourceChanges /\ UNCHANGED rvars

\* run goes on from the bootstrap to publish_planned_rows ...
StartRows ==
    /\ bpc = "handed"
    /\ Rows!Start(Runner)
    /\ UNCHANGED bvars

\* ... whose end, well or refused, is the end of the process.
RowStep ==
    /\ Publishing
    /\ Rows!Work(Runner)
    /\ rowlayer' = RowLayer'
    /\ bpc' = IF Publishing' THEN bpc ELSE "idle"
    /\ closure' = IF Publishing' THEN closure ELSE None
    /\ UNCHANGED <<source, journal, staging, final, opt>>

RowCrash ==
    /\ Rows!Crash(Runner)
    /\ bpc' = "idle"
    /\ closure' = None
    /\ UNCHANGED <<source, journal, staging, final, rowlayer, opt>>

Next == BootstrapStep \/ SourceStep \/ StartRows \/ RowStep \/ RowCrash

Spec == Init /\ [][Next]_runvars

\* A process that was started runs on, and an operator does not give up starting
\* the run with the options it was begun with.
BeginAgain ==
    /\ ~ Publishing
    /\ Begin(IF journal = None THEN opt ELSE journal.opt)
    /\ UNCHANGED rvars

Fairness ==
    /\ WF_runvars(~ Publishing /\ Bootstrap /\ UNCHANGED rvars)
    /\ WF_runvars(StartRows)
    /\ WF_runvars(RowStep)
    /\ SF_runvars(BeginAgain)

FairSpec == Spec /\ Fairness

----------------------------------------------------------------------------
(* What the acquisition promises.                                          *)

RunTypeOK == TypeOK /\ Rows!TypeOK

RowsBeforeLedger == Rows!RowsBeforeLedger
OneRowAhead == Rows!OneRowAhead
ReceiptSealsTree == Rows!ReceiptSealsTree

\* Rows are only published by a process whose candidate universe comes from the
\* snapshot and the options of the run directory: every process that adds to a
\* run works from one plan (plan_row_artifacts).
RowsOfOneUniverse ==
    Publishing => /\ final # None /\ staging = None
                  /\ closure = Closure(final.db, journal.opt)
                  /\ \A i \in 1..ArtifactCount : final.closed[i] = closure

\* A temporary of a durable write the process did not live to finish.
Residue == temps # {} \/ (staging # None /\ "temp" \in staging.scratch)

\* A bootstrap is refused for one of three reasons only: the operator passed
\* other options, a death inside a durable write left a temporary, or the live
\* verifier met a run directory with names of the row layer.  Any other state a
\* death leaves, at any step, is taken up.
RefusedForCause ==
    bpc = "refused" => \/ opt # journal.opt
                       \/ Residue
                       \/ Live /\ rowlayer

\* The row publisher is refused only over a temporary, whatever death came
\* before (_preflight_row_publication accepts every state between two writes).
RowsRefusedOverResidue == pc[Runner] = "refused" => temps # {}

\* Nothing changes a run that has its receipt: not its rows and state files, nor
\* the run directory and the journal below them.
SealedRunIsClosed ==
    [][file["receipt"] # None =>
         UNCHANGED <<journal, staging, final, file, dirs, stage, rows, temps>>]_runvars

LedgerNeverGoesBack == Rows!LedgerNeverGoesBack

\* An acquisition that is started again after every death reaches its receipt,
\* unless a temporary was left behind or, live, its rows had been begun.
ReceiptOrCause ==
    <>[](file["receipt"] # None \/ Residue \/ (Live /\ rowlayer /\ ~ Publishing))

\* specs/imessage-atomic-message-acquisition.md, 921-923: "The promoted-bootstrap
\* verifier runs before this row-layer reconciliation and must not make a
\* legitimate row checkpoint unresumable."  With the options of the run and no
\* temporary in the way, the verifier lets a restarted run go on.
RowCheckpointResumable ==
    bpc = "refused" /\ journal.state = "promoted" /\ opt = journal.opt => Residue
=============================================================================
