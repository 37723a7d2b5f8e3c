---------------------------- MODULE AcquireBootstrap ----------------------------
(***************************************************************************)
(* The bootstrap of the atomic iMessage acquisition: a snapshot of the     *)
(* source database and the initialization artifacts derived from it are    *)
(* built in a staging directory under an external journal and promoted to  *)
(* the run directory by one exclusive rename.  One process works at a time *)
(* (the live backend holds a flock from here to its end, the offline ones  *)
(* are started one after another); it may die between any two file-system  *)
(* operations, and a later one resumes from what it finds.  A check that   *)
(* only reads is part of the step it guards.                               *)
(***************************************************************************)
EXTENDS Integers, Sequences, FiniteSets

CONSTANTS
    Modes,          \* the backends explored: live, offline_macos, offline_windows
    Options,        \* the semantic options and run controls an operator may pass
    ArtifactCount,  \* initialization artifacts (7 live, 8 offline); the last
                    \* live one is the run owner
    MaxVersions,    \* bound on the changes of the source database
    MaxCrashes,     \* bound on the deaths of processes
    None,           \* an absent file or directory
    Torn            \* the bytes of a file not yet written in full

VARIABLES
    mode,       \* the backend of this run directory
    source,     \* the version of the source database
    journal,    \* the external bootstrap journal, or None
    staging,    \* the staging directory, or None
    final,      \* the run directory as promotion made it, or None
    rowlayer,   \* whether the run directory also holds names of the row layer
    opt,        \* the options of the process at work
    closure,    \* what it derives the artifacts from: a snapshot, its options
    bpc,        \* where it is
    crashes     \* deaths so far

disk == <<journal, staging, final, rowlayer>>
bvars == <<mode, source, journal, staging, final, rowlayer, opt, closure, bpc, crashes>>

----------------------------------------------------------------------------
\* BOOTSTRAP_STATES, in the order validate_bootstrap_transition enforces.
LiveStates == <<"reserved", "staging_created", "snapshot_in_progress",
                "snapshot_closed", "universe_closed", "options_maps_closed",
                "owner_closed", "ready_to_promote", "promoted">>

Rank(s) == IF s = "approved" THEN 0 ELSE CHOOSE n \in 1..9 : LiveStates[n] = s

Live == mode = "live"
Dependencies == ArtifactCount - 1
Versions == 0..MaxVersions

\* A tree under construction: the snapshot, the scratch files next to it and
\* the artifacts closed so far, in their fixed order.
EmptyTree == [db |-> None, scratch |-> {}, closed |-> <<>>]
Closure(s, o) == [snap |-> s, opt |-> o]

\* The tree holds the journal's snapshot and the first k artifacts, with the
\* bytes this process derives from that snapshot and its own options.
Holds(t, k) ==
    /\ t.db = journal.snap
    /\ t.scratch = {}
    /\ t.closed = [i \in 1..k |-> Closure(t.db, opt)]

Contents == [snap : Versions, opt : Options]

Journals == [state : {"approved"} \cup {LiveStates[n] : n \in 1..9},
             opt : Options, snap : Versions \cup {None}]

Trees == [db : Versions \cup {None, Torn},
          scratch : SUBSET {"sidecar", "copying", "temp"},
          closed : Seq(Contents)]

ASSUME BootstrapAssumption ==
    /\ Modes \subseteq {"live", "offline_macos", "offline_windows"}
    /\ ArtifactCount \in Nat \ {0}
    /\ MaxVersions \in Nat
    /\ MaxCrashes \in Nat
    /\ None \notin Nat /\ Torn \notin Nat /\ None # Torn
    /\ None \notin Journals /\ None \notin Trees

TypeOK ==
    /\ mode \in Modes
    /\ source \in Versions
    /\ journal \in Journals \cup {None}
    /\ staging \in Trees \cup {None} /\ final \in Trees \cup {None}
    /\ \A t \in {staging, final} \ {None} : Len(t.closed) <= ArtifactCount
    /\ rowlayer \in BOOLEAN
    /\ opt \in Options
    /\ closure \in Contents \cup {None}
    /\ bpc \in {"idle", "resume", "empty", "backup", "copied", "scanned", "publish",
                "handed", "refused"}
    /\ crashes \in 0..MaxCrashes

BInit ==
    /\ mode \in Modes
    /\ source = 0
    /\ journal = None /\ staging = None /\ final = None
    /\ rowlayer = FALSE
    /\ opt \in Options
    /\ closure = None
    /\ bpc = "idle"
    /\ crashes = 0

----------------------------------------------------------------------------
(* Processes.                                                              *)

\* An operator starts the run, or starts it again, perhaps with other options.
Begin(o) ==
    /\ bpc \in {"idle", "refused"}
    /\ bpc' = "resume"
    /\ opt' = o
    /\ closure' = None
    /\ UNCHANGED <<mode, source, disk, crashes>>

BootstrapCrash ==
    /\ bpc \notin {"idle", "refused"}
    /\ crashes < MaxCrashes
    /\ crashes' = crashes + 1
    /\ bpc' = "idle"
    /\ closure' = None
    /\ UNCHANGED <<mode, source, disk, opt>>

\* Messages writes to the source of a live run; once its snapshot is closed
\* nothing reads the source again.
SourceChanges ==
    /\ Live
    /\ journal # None => journal.snap = None
    /\ source < MaxVersions
    /\ source' = source + 1
    /\ UNCHANGED <<mode, disk, opt, closure, bpc, crashes>>

At(s) == bpc = "resume" /\ journal # None /\ journal.state = s

\* _advance_bootstrap_journal_locked_at: one atomic replacement.
Mark(s, snap) == journal' = [journal EXCEPT !.state = s, !.snap = snap]

\* MUTATION of PartialSnapshot: SQLite's journal is not among the names reset.
PartialSnapshotBare(t) == t.scratch = {} /\ t.closed = <<>>

\* SNAPSHOT_PARTIAL_FILENAMES: the snapshot and SQLite's files next to it.
PartialSnapshot(t) == t.scratch \subseteq {"sidecar"} /\ t.closed = <<>>

\* What the classifiers accept of the journal and the two directories; nothing
\* is changed unless they do.
Recognized ==
    /\ journal.opt = opt
    /\ CASE journal.state = "approved" ->
              IF final # None THEN staging = None /\ Holds(final, ArtifactCount)
              ELSE staging # None =>
                     \/ staging = EmptyTree
                     \/ staging = [EmptyTree EXCEPT !.scratch = {"copying"}]
                     \/ \E k \in 0..ArtifactCount : Holds(staging, k)
         [] journal.state = "promoted" ->
              staging = None /\ final # None /\ Holds(final, ArtifactCount) /\ ~ rowlayer
         [] journal.state = "ready_to_promote" ->
              IF final # None
              THEN staging = None /\ Holds(final, ArtifactCount) /\ ~ rowlayer
              ELSE staging # None /\ Holds(staging, ArtifactCount)
         [] OTHER ->
              /\ final = None
              /\ staging = None => journal.state = "reserved"
              /\ staging # None =>
                   CASE journal.state \in {"reserved", "staging_created"} ->
                          staging = EmptyTree
                     [] journal.state = "snapshot_in_progress" -> PartialSnapshot(staging)
                     [] journal.state = "snapshot_closed" -> Holds(staging, 0)
                     [] journal.state = "universe_closed" ->
                          \E k \in 0..Dependencies : Holds(staging, k)
                     [] journal.state = "options_maps_closed" ->
                          \E k \in Dependencies..ArtifactCount : Holds(staging, k)
                     [] OTHER -> Holds(staging, ArtifactCount)

\* BootstrapStateError or BootstrapRecoveryRequired: the process ends.
RefuseBootstrap ==
    /\ bpc = "resume"
    /\ IF journal = None THEN ~ Live /\ (staging # None \/ final # None)
                         ELSE ~ Recognized
    /\ bpc' = "refused"
    /\ UNCHANGED <<mode, source, disk, opt, closure, crashes>>

----------------------------------------------------------------------------
(* The steps of a bootstrap.                                               *)

\* The first journal.  The offline one binds the approved snapshot at once.
Reserve ==
    /\ bpc = "resume"
    /\ journal = None
    /\ Live \/ (staging = None /\ final = None)
    /\ journal' = IF Live THEN [state |-> "reserved", opt |-> opt, snap |-> None]
                          ELSE [state |-> "approved", opt |-> opt, snap |-> 0]
    /\ UNCHANGED <<mode, source, staging, final, rowlayer, opt, closure, bpc, crashes>>

\* MUTATION of CreateStaging: the bindings are compared only afterwards.
CreateStagingUnbound ==
    /\ At("reserved") \/ At("approved")
    /\ staging = None /\ final = None
    /\ staging' = EmptyTree
    /\ UNCHANGED <<mode, source, journal, final, rowlayer, opt, closure, bpc, crashes>>

\* _create_private_staging_at, ensure_directory.
CreateStaging ==
    /\ At("reserved") \/ At("approved")
    /\ Recognized
    /\ staging = None /\ final = None
    /\ staging' = EmptyTree
    /\ UNCHANGED <<mode, source, journal, final, rowlayer, opt, closure, bpc, crashes>>

\* The two transitions over an exactly empty staging directory.
MarkEmpty ==
    /\ At("reserved") \/ At("staging_created")
    /\ Recognized
    /\ staging # None
    /\ Mark(IF journal.state = "reserved" THEN "staging_created"
                                          ELSE "snapshot_in_progress", None)
    /\ UNCHANGED <<mode, source, staging, final, rowlayer, opt, closure, bpc, crashes>>

\* _reset_recognized_snapshot_in_progress_at: a partial snapshot is deleted, its
\* sidecars first, one file at a time.
ResetSnapshot ==
    /\ At("snapshot_in_progress")
    /\ Recognized
    /\ staging' = IF staging.scratch # {} THEN [staging EXCEPT !.scratch = {}]
                                          ELSE EmptyTree
    /\ bpc' = IF staging = EmptyTree THEN "empty" ELSE "resume"
    /\ UNCHANGED <<mode, source, journal, final, rowlayer, opt, closure, crashes>>

\* _materialize_consistent_snapshot_in_precreated_staging_at: the snapshot is
\* created exclusively, SQLite copies the source with a journal next to it ...
CreateSnapshot ==
    /\ bpc = "empty"
    /\ staging' = [staging EXCEPT !.db = Torn]
    /\ bpc' = "backup"
    /\ UNCHANGED <<mode, source, journal, final, rowlayer, opt, closure, crashes>>

Backup ==
    /\ bpc = "backup"
    /\ IF staging.scratch = {}
       THEN staging' = [staging EXCEPT !.scratch = {"sidecar"}] /\ UNCHANGED bpc
       ELSE /\ staging' = [staging EXCEPT !.db = source, !.scratch = {}]
            /\ bpc' = "copied"
    /\ UNCHANGED <<mode, source, journal, final, rowlayer, opt, closure, crashes>>

\* MUTATION of CloseSnapshot: the hash is taken of the source once more.
CloseSnapshotOfSource ==
    /\ bpc = "copied"
    /\ Mark("snapshot_closed", source)
    /\ bpc' = "resume"
    /\ UNCHANGED <<mode, source, staging, final, rowlayer, opt, closure, crashes>>

\* ... and the journal binds the hash of what was copied.
CloseSnapshot ==
    /\ bpc = "copied"
    /\ Mark("snapshot_closed", staging.db)
    /\ bpc' = "resume"
    /\ UNCHANGED <<mode, source, staging, final, rowlayer, opt, closure, crashes>>

\* copy_file_resumable: the copy goes on behind the bytes that are there, and
\* takes its name once their digest is the approved one.
StartCopy ==
    /\ At("approved")
    /\ staging = EmptyTree /\ Recognized
    /\ staging' = [staging EXCEPT !.scratch = {"copying"}]
    /\ UNCHANGED <<mode, source, journal, final, rowlayer, opt, closure, bpc, crashes>>

\* MUTATION of FinishCopy: what an earlier process copied is thrown away.
FinishCopyRestarts ==
    /\ At("approved")
    /\ staging # None /\ Recognized
    /\ staging.scratch = {"copying"}
    /\ staging' = EmptyTree
    /\ UNCHANGED <<mode, source, journal, final, rowlayer, opt, closure, bpc, crashes>>

FinishCopy ==
    /\ At("approved")
    /\ staging # None /\ Recognized
    /\ staging.scratch = {"copying"}
    /\ staging' = [staging EXCEPT !.scratch = {}, !.db = journal.snap]
    /\ UNCHANGED <<mode, source, journal, final, rowlayer, opt, closure, bpc, crashes>>

\* States in which a closed snapshot is scanned before the process goes on.
Scanning == {"snapshot_closed", "universe_closed", "options_maps_closed", "owner_closed",
             "ready_to_promote", "promoted", "approved"}

TheTree == IF final # None THEN final ELSE staging

\* MUTATION of Scan: the source database is scanned in place of its snapshot.
ScanOfSource ==
    /\ bpc = "resume" /\ journal # None
    /\ journal.state \in Scanning
    /\ TheTree # None /\ Recognized
    /\ TheTree.db # None
    /\ closure' = Closure(source, opt)
    /\ bpc' = "scanned"
    /\ UNCHANGED <<mode, source, disk, opt, crashes>>

\* The candidate universe and the artifacts are derived from the snapshot in
\* the tree and this process's options.
Scan ==
    /\ bpc = "resume" /\ journal # None
    /\ journal.state \in Scanning
    /\ TheTree # None /\ Recognized
    /\ TheTree.db # None
    /\ closure' = Closure(TheTree.db, opt)
    /\ bpc' = "scanned"
    /\ UNCHANGED <<mode, source, disk, opt, crashes>>

\* MUTATION of Writable: the last artifact of the offline bootstrap is written twice.
WritableTwice ==
    CASE journal.state = "universe_closed" -> Dependencies
      [] journal.state = "options_maps_closed" -> ArtifactCount
      [] journal.state = "approved" -> ArtifactCount + 1
      [] OTHER -> 0

\* The artifacts that may be written while the journal is in this state.
Writable ==
    CASE journal.state = "universe_closed" -> Dependencies
      [] journal.state \in {"options_maps_closed", "approved"} -> ArtifactCount
      [] OTHER -> 0

Building == bpc = "scanned" /\ final = None
Unfinished == Len(staging.closed) < Writable

\* _create_or_verify_private_json_at: a temporary in the staging directory ...
CreateArtifact ==
    /\ Building /\ Unfinished
    /\ staging' = [staging EXCEPT !.scratch = {"temp"}]
    /\ bpc' = "publish"
    /\ UNCHANGED <<mode, source, journal, final, rowlayer, opt, closure, crashes>>

\* ... renamed to the artifact.
PublishArtifact ==
    /\ bpc = "publish"
    /\ staging' = [staging EXCEPT !.scratch = {}, !.closed = Append(@, closure)]
    /\ bpc' = "scanned"
    /\ UNCHANGED <<mode, source, journal, final, rowlayer, opt, closure, crashes>>

\* The journal closes a stage over the tree that was verified.
CloseStage ==
    /\ Building /\ ~ Unfinished
    /\ journal.state \in {"snapshot_closed", "universe_closed", "options_maps_closed",
                          "owner_closed"}
    /\ Mark(LiveStates[Rank(journal.state) + 1], journal.snap)
    /\ UNCHANGED <<mode, source, staging, final, rowlayer, opt, closure, bpc, crashes>>

\* MUTATION of Promote: the tree is not verified before the rename.
PromoteUnverified ==
    /\ Building
    /\ journal.state \in {"ready_to_promote", "approved"}
    /\ final' = staging
    /\ staging' = None
    /\ UNCHANGED <<mode, source, journal, rowlayer, opt, closure, bpc, crashes>>

\* The exclusive rename of the complete staging directory.
Promote ==
    /\ Building /\ ~ Unfinished
    /\ journal.state \in {"ready_to_promote", "approved"}
    /\ final' = staging
    /\ staging' = None
    /\ UNCHANGED <<mode, source, journal, rowlayer, opt, closure, bpc, crashes>>

MarkPromoted ==
    /\ bpc = "scanned"
    /\ final # None
    /\ journal.state = "ready_to_promote"
    /\ Mark("promoted", journal.snap)
    /\ UNCHANGED <<mode, source, staging, final, rowlayer, opt, closure, bpc, crashes>>

\* The verified run directory goes to publish_planned_rows.
HandOver ==
    /\ bpc = "scanned"
    /\ final # None
    /\ journal.state \in {"promoted", "approved"}
    /\ bpc' = "handed"
    /\ UNCHANGED <<mode, source, disk, opt, closure, crashes>>

Bootstrap ==
    \/ RefuseBootstrap \/ Reserve \/ CreateStaging \/ MarkEmpty \/ ResetSnapshot
    \/ CreateSnapshot \/ Backup \/ CloseSnapshot \/ StartCopy \/ FinishCopy \/ Scan
    \/ CreateArtifact \/ PublishArtifact \/ CloseStage \/ Promote \/ MarkPromoted
    \/ HandOver

BNext == Bootstrap \/ BootstrapCrash \/ SourceChanges \/ \E o \in Options : Begin(o)

BSpec == BInit /\ [][BNext]_bvars

----------------------------------------------------------------------------
(* What a bootstrap promises.                                              *)

\* Every artifact that is there, and the snapshot from the moment the journal
\* closes it, come from one version of the source and from the options of the
\* journal: a process that dies over a partial snapshot leaves nothing the
\* next one mixes with its own (_reset_recognized_snapshot_in_progress_at).
OneClosure ==
    \A t \in {staging, final} \ {None} :
        /\ journal # None
        /\ (Live /\ journal.snap # None) \/ t.closed # <<>> => t.db = journal.snap
        /\ \A i \in 1..Len(t.closed) : t.closed[i] = Closure(journal.snap, journal.opt)

\* The run directory appears whole, and only promotion makes it: no crash
\* leaves staging and run directory side by side (_promote_bootstrap_ready).
FinalIsWhole ==
    final # None =>
        /\ staging = None
        /\ journal # None /\ (Live => journal.state \in {"ready_to_promote", "promoted"})
        /\ final.scratch = {} /\ Len(final.closed) = ArtifactCount

\* A process started with other options than the journal's ends without having
\* changed anything (require_bindings).
ForeignRunIsInert ==
    [][journal # None /\ bpc # "idle" /\ opt # journal.opt =>
         UNCHANGED <<journal, staging, final>>]_bvars
=============================================================================
