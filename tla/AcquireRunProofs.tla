---------------------------- MODULE AcquireRunProofs ----------------------------
(***************************************************************************)
(* What an acquisition keeps true of its run directory, for every number   *)
(* of artifacts, rows, source changes and deaths: the safety part of the   *)
(* bootstrap and of the row publisher, in their composition.               *)
(***************************************************************************)
EXTENDS AcquireRun, TLAPS

\* States in which the journal binds a snapshot.
Snapped == {"snapshot_closed", "universe_closed", "options_maps_closed", "owner_closed",
            "ready_to_promote", "promoted"}

JournalInv ==
    /\ journal = None => staging = None /\ final = None
    /\ journal # None =>
         /\ Live => /\ journal.state # "approved"
                    /\ (journal.snap # None <=> journal.state \in Snapped)
         /\ ~ Live => journal.state = "approved" /\ journal.snap = 0

\* A tree on disk holds nothing that is not derived from the journal's closure.
FromJournal(t) ==
    /\ (Live /\ journal.snap # None) => t.db = journal.snap
    /\ t.closed # <<>> => t.db = journal.snap /\ journal.snap # None
    /\ \A i \in 1..Len(t.closed) : t.closed[i] = Closure(journal.snap, journal.opt)

TreeInv ==
    /\ staging # None => FromJournal(staging)
    /\ final # None => FromJournal(final)

FinalInv ==
    final # None =>
        /\ staging = None
        /\ Live => journal.state \in {"ready_to_promote", "promoted"}
        /\ final.scratch = {} /\ Len(final.closed) = ArtifactCount

\* What the process at work knows is what the journal binds.
SnapshotAtWork ==
    bpc \in {"empty", "backup", "copied"} =>
        /\ Live /\ journal # None /\ journal.state = "snapshot_in_progress"
        /\ opt = journal.opt
        /\ staging # None /\ final = None /\ staging.closed = <<>>
        /\ bpc = "copied" => staging.db \in Versions

ClosureAtWork ==
    bpc \in {"scanned", "publish", "handed"} =>
        /\ journal # None /\ journal.state \in Scanning
        /\ journal.snap # None
        /\ opt = journal.opt /\ closure = Closure(journal.snap, journal.opt)

BuildAtWork ==
    /\ (bpc = "scanned" /\ final = None) =>
         /\ staging # None
         /\ staging.scratch = {} /\ staging.db = journal.snap
         /\ journal.state \in {"owner_closed", "ready_to_promote"} =>
              Len(staging.closed) = ArtifactCount
    /\ bpc = "publish" =>
         /\ final = None /\ staging # None
         /\ staging.db = journal.snap /\ Len(staging.closed) < ArtifactCount
         /\ journal.state \in {"universe_closed", "options_maps_closed", "approved"}
    /\ bpc = "handed" => final # None

IInv == /\ TypeOK /\ JournalInv /\ TreeInv /\ FinalInv
        /\ SnapshotAtWork /\ ClosureAtWork /\ BuildAtWork

----------------------------------------------------------------------------
(* Journals and trees.                                                     *)

LEMMA StatesAre ==
    {"approved"} \cup {LiveStates[n] : n \in 1..9} =
      {"approved", "reserved", "staging_created", "snapshot_in_progress"} \cup Snapped
BY DEF LiveStates, Snapped

\* _advance_bootstrap_journal_locked_at goes one state forward.
LEMMA NextState ==
    /\ LiveStates[Rank("snapshot_closed") + 1] = "universe_closed"
    /\ LiveStates[Rank("universe_closed") + 1] = "options_maps_closed"
    /\ LiveStates[Rank("options_maps_closed") + 1] = "owner_closed"
    /\ LiveStates[Rank("owner_closed") + 1] = "ready_to_promote"
<1>1. Rank("snapshot_closed") = 4
  BY DEF Rank, LiveStates
<1>2. Rank("universe_closed") = 5
  BY DEF Rank, LiveStates
<1>3. Rank("options_maps_closed") = 6
  BY DEF Rank, LiveStates
<1>4. Rank("owner_closed") = 7
  BY DEF Rank, LiveStates
<1> QED
  BY <1>1, <1>2, <1>3, <1>4 DEF LiveStates

LEMMA JournalType ==
    ASSUME NEW s \in {"approved", "reserved", "staging_created", "snapshot_in_progress"}
                     \cup Snapped,
           NEW o \in Options, NEW v \in Versions \cup {None}
    PROVE  [state |-> s, opt |-> o, snap |-> v] \in Journals
BY StatesAre DEF Journals

LEMMA JournalFields ==
    ASSUME TypeOK, journal # None
    PROVE  /\ journal.state \in {"approved", "reserved", "staging_created",
                                 "snapshot_in_progress"} \cup Snapped
           /\ journal.opt \in Options /\ journal.snap \in Versions \cup {None}
           /\ journal \in Journals
BY StatesAre DEF TypeOK, Journals

LEMMA MarkType ==
    ASSUME TypeOK, journal # None,
           NEW s \in {"approved", "reserved", "staging_created", "snapshot_in_progress"}
                     \cup Snapped,
           NEW v \in Versions \cup {None}, Mark(s, v)
    PROVE  /\ journal' \in Journals /\ journal' # None
           /\ journal'.state = s /\ journal'.snap = v /\ journal'.opt = journal.opt
<1>1. journal' = [state |-> s, opt |-> journal.opt, snap |-> v]
  BY JournalFields DEF Mark, Journals
<1> QED
  BY <1>1, JournalFields, JournalType, BootstrapAssumption

\* The empty sequence closes nothing.
LEMMA EmptyTreeType ==
    /\ EmptyTree \in Trees /\ EmptyTree # None
    /\ EmptyTree.db = None /\ EmptyTree.scratch = {} /\ EmptyTree.closed = <<>>
    /\ Len(EmptyTree.closed) = 0
<1>1. <<>> \in Seq(Contents) /\ Len(<<>>) = 0
  OBVIOUS
<1>2. EmptyTree = [db |-> None, scratch |-> {}, closed |-> <<>>]
  BY DEF EmptyTree
<1>3. EmptyTree \in Trees
  BY <1>1, <1>2 DEF Trees
<1> QED
  BY <1>1, <1>2, <1>3, BootstrapAssumption

LEMMA InvInit == BInit => IInv
<1> SUFFICES ASSUME BInit PROVE IInv
  OBVIOUS
<1>1. TypeOK
  <2>1. 0 \in Versions /\ 0 \in 0..MaxCrashes
    BY BootstrapAssumption DEF Versions
  <2> QED
    BY <2>1 DEF BInit, TypeOK
<1> QED
  BY <1>1 DEF BInit, IInv, JournalInv, TreeInv, FinalInv, SnapshotAtWork,
              ClosureAtWork, BuildAtWork

----------------------------------------------------------------------------
(* Every step of the bootstrap.                                            *)

LEMMA BeginStep ==
    ASSUME IInv, NEW o \in Options, Begin(o)
    PROVE  IInv'
BY BootstrapAssumption
   DEF IInv, TypeOK, JournalInv, TreeInv, FromJournal, FinalInv, SnapshotAtWork, ClosureAtWork,
       BuildAtWork, Begin, disk, Live

LEMMA CrashStep ==
    ASSUME IInv, BootstrapCrash
    PROVE  IInv'
BY BootstrapAssumption
   DEF IInv, TypeOK, JournalInv, TreeInv, FromJournal, FinalInv, SnapshotAtWork, ClosureAtWork,
       BuildAtWork, BootstrapCrash, disk, Live

LEMMA SourceChangesStep ==
    ASSUME IInv, SourceChanges
    PROVE  IInv'
<1>1. source' \in Versions
  BY BootstrapAssumption DEF IInv, TypeOK, SourceChanges, Versions
<1> QED
  BY <1>1
     DEF IInv, TypeOK, JournalInv, TreeInv, FromJournal, FinalInv, SnapshotAtWork, ClosureAtWork,
         BuildAtWork, SourceChanges, disk, Live, TheTree

LEMMA RefuseStep ==
    ASSUME IInv, RefuseBootstrap
    PROVE  IInv'
BY BootstrapAssumption
   DEF IInv, TypeOK, JournalInv, TreeInv, FromJournal, FinalInv, SnapshotAtWork, ClosureAtWork,
       BuildAtWork, RefuseBootstrap, disk, Live

LEMMA ReserveStep ==
    ASSUME IInv, Reserve
    PROVE  IInv'
<1> USE DEF IInv
<1>1. journal' \in Journals /\ journal' # None
  BY BootstrapAssumption, JournalType DEF Reserve, TypeOK, Versions
<1>2. TypeOK'
  BY <1>1 DEF TypeOK, Reserve
<1>3. JournalInv'
  BY <1>1, BootstrapAssumption DEF Reserve, JournalInv, Live, Snapped
<1>4. staging = None /\ final = None
  BY DEF Reserve, JournalInv
<1> QED
  BY <1>1, <1>2, <1>3, <1>4 DEF Reserve, TreeInv, FinalInv, SnapshotAtWork, ClosureAtWork,
     BuildAtWork

LEMMA CreateStagingStep ==
    ASSUME IInv, CreateStaging
    PROVE  IInv'
<1> USE DEF IInv
<1>1. TypeOK'
  BY EmptyTreeType, BootstrapAssumption DEF TypeOK, CreateStaging
<1>2. TreeInv'
  BY EmptyTreeType DEF TreeInv, FromJournal, CreateStaging, At, JournalInv, Snapped, Live
<1> QED
  BY <1>1, <1>2 DEF CreateStaging, At, JournalInv, Live, FinalInv, SnapshotAtWork,
                    ClosureAtWork, BuildAtWork

LEMMA MarkEmptyStep ==
    ASSUME IInv, MarkEmpty
    PROVE  IInv'
<1> USE DEF IInv
<1>1. journal # None /\ staging = EmptyTree /\ final = None /\ Live
      /\ journal.state \in {"reserved", "staging_created"}
  BY DEF MarkEmpty, At, Recognized, JournalInv
<1>2. /\ journal' \in Journals /\ journal' # None
      /\ journal'.state \in {"staging_created", "snapshot_in_progress"} /\ journal'.snap = None
  BY <1>1, MarkType DEF MarkEmpty
<1>3. TypeOK'
  BY <1>2 DEF MarkEmpty, TypeOK
<1>4. JournalInv' /\ Live'
  BY <1>1, <1>2 DEF JournalInv, MarkEmpty, Live, Snapped
<1>5. TreeInv'
  BY <1>1, <1>2, EmptyTreeType DEF TreeInv, FromJournal, MarkEmpty
<1> QED
  BY <1>1, <1>2, <1>3, <1>4, <1>5 DEF MarkEmpty, At, FinalInv, SnapshotAtWork, ClosureAtWork,
     BuildAtWork

LEMMA ResetSnapshotStep ==
    ASSUME IInv, ResetSnapshot
    PROVE  IInv'
<1> USE DEF IInv
<1>1. /\ journal # None /\ journal.state = "snapshot_in_progress" /\ bpc = "resume"
      /\ opt = journal.opt
      /\ final = None /\ staging # None /\ PartialSnapshot(staging)
  BY DEF ResetSnapshot, At, Recognized
<1>2. Live /\ journal.snap = None
  BY <1>1 DEF JournalInv, Snapped
<1>3. /\ staging' \in Trees /\ staging' # None
      /\ staging'.closed = <<>> /\ Len(staging'.closed) = 0
  <2>1. CASE staging.scratch # {}
    <3>1. staging' = [staging EXCEPT !.scratch = {}]
      BY <2>1 DEF ResetSnapshot
    <3>2. staging \in Trees /\ staging.closed = <<>>
      BY <1>1 DEF TypeOK, PartialSnapshot
    <3> QED
      BY <3>1, <3>2, BootstrapAssumption DEF Trees
  <2>2. CASE staging.scratch = {}
    BY <2>2, EmptyTreeType DEF ResetSnapshot
  <2> QED
    BY <2>1, <2>2
<1>4. TypeOK'
  <2>1. bpc' \in {"resume", "empty", "backup"}
    BY DEF ResetSnapshot
  <2>2. UNCHANGED <<mode, source, journal, final, rowlayer, opt, closure, crashes>>
    BY DEF ResetSnapshot
  <2> QED
    BY <1>1, <1>3, <2>1, <2>2, BootstrapAssumption DEF TypeOK
<1>5. TreeInv'
  BY <1>1, <1>2, <1>3 DEF TreeInv, FromJournal, ResetSnapshot
<1>6. JournalInv' /\ FinalInv'
  BY <1>1, <1>2 DEF JournalInv, FinalInv, ResetSnapshot, Live
<1>7. SnapshotAtWork' /\ ClosureAtWork' /\ BuildAtWork'
  BY <1>1, <1>2, <1>3 DEF SnapshotAtWork, ClosureAtWork, BuildAtWork, ResetSnapshot, Live
<1> QED
  BY <1>4, <1>5, <1>6, <1>7

LEMMA CreateSnapshotStep ==
    ASSUME IInv, CreateSnapshot
    PROVE  IInv'
<1> USE DEF IInv
<1>1. /\ Live /\ journal # None /\ journal.state = "snapshot_in_progress" /\ opt = journal.opt
      /\ staging # None /\ final = None /\ staging.closed = <<>>
  BY DEF CreateSnapshot, SnapshotAtWork
<1>2. journal.snap = None /\ staging \in Trees
  BY <1>1 DEF JournalInv, Snapped, TypeOK
<1>3. /\ staging' \in Trees /\ staging' # None
      /\ staging'.closed = <<>> /\ Len(staging'.closed) = 0
  <2>1. staging' = [staging EXCEPT !.db = Torn]
    BY DEF CreateSnapshot
  <2> QED
    BY <1>1, <1>2, <2>1, BootstrapAssumption DEF Trees
<1>4. TypeOK'
  <2>1. bpc' \in {"resume", "empty", "backup"}
    BY DEF CreateSnapshot
  <2>2. UNCHANGED <<mode, source, journal, final, rowlayer, opt, closure, crashes>>
    BY DEF CreateSnapshot
  <2> QED
    BY <1>1, <1>3, <2>1, <2>2, BootstrapAssumption DEF TypeOK
<1> QED
  BY <1>1, <1>2, <1>3, <1>4 DEF CreateSnapshot, TreeInv, FromJournal, JournalInv, FinalInv,
     SnapshotAtWork, ClosureAtWork, BuildAtWork, Live

LEMMA BackupStep ==
    ASSUME IInv, Backup
    PROVE  IInv'
<1> USE DEF IInv
<1>1. /\ Live /\ journal # None /\ journal.state = "snapshot_in_progress" /\ opt = journal.opt
      /\ staging # None /\ final = None /\ staging.closed = <<>>
  BY DEF Backup, SnapshotAtWork
<1>2. journal.snap = None /\ staging \in Trees /\ source \in Versions
  BY <1>1 DEF JournalInv, Snapped, TypeOK
<1>3. /\ staging' \in Trees /\ staging' # None
      /\ staging'.closed = <<>> /\ Len(staging'.closed) = 0
      /\ bpc' = "copied" => staging'.db \in Versions
  <2>1. CASE staging.scratch = {}
    <3>1. staging' = [staging EXCEPT !.scratch = {"sidecar"}] /\ bpc' = "backup"
      BY <2>1 DEF Backup
    <3> QED
      BY <1>1, <1>2, <3>1, BootstrapAssumption DEF Trees
  <2>2. CASE staging.scratch # {}
    <3>1. staging' = [staging EXCEPT !.db = source, !.scratch = {}]
      BY <2>2 DEF Backup
    <3> QED
      BY <1>1, <1>2, <3>1, BootstrapAssumption DEF Trees
  <2> QED
    BY <2>1, <2>2
<1>4. bpc' \in {"backup", "copied"}
  BY DEF Backup
<1>5. TypeOK'
  BY <1>3, <1>4, BootstrapAssumption DEF Backup, TypeOK
<1> QED
  BY <1>1, <1>2, <1>3, <1>4, <1>5 DEF Backup, TreeInv, FromJournal, JournalInv, FinalInv,
     SnapshotAtWork, ClosureAtWork, BuildAtWork, Live

LEMMA CloseSnapshotStep ==
    ASSUME IInv, CloseSnapshot
    PROVE  IInv'
<1> USE DEF IInv
<1>1. /\ Live /\ journal # None /\ staging.db \in Versions
      /\ staging # None /\ final = None /\ staging.closed = <<>>
  BY DEF CloseSnapshot, SnapshotAtWork
<1>2. /\ journal' \in Journals /\ journal' # None
      /\ journal'.state = "snapshot_closed" /\ journal'.snap = staging.db
  BY <1>1, MarkType DEF CloseSnapshot, Snapped
<1>3. journal'.snap # None
  BY <1>1, <1>2, BootstrapAssumption DEF Versions
<1>4. TypeOK'
  BY <1>2 DEF CloseSnapshot, TypeOK
<1>5. JournalInv'
  BY <1>1, <1>2, <1>3 DEF JournalInv, CloseSnapshot, Live, Snapped
<1> QED
  BY <1>1, <1>2, <1>3, <1>4, <1>5 DEF CloseSnapshot, TreeInv, FromJournal, FinalInv,
     SnapshotAtWork, ClosureAtWork, BuildAtWork

LEMMA CopyStep ==
    ASSUME IInv, StartCopy \/ FinishCopy
    PROVE  IInv'
<1> USE DEF IInv
<1>1. /\ journal # None /\ journal.state = "approved" /\ bpc = "resume"
      /\ staging # None /\ staging.closed = <<>> /\ final = None
  <2>1. At("approved") /\ Recognized /\ staging # None
    BY EmptyTreeType DEF StartCopy, FinishCopy
  <2>2. final = None
    BY <2>1 DEF FinalInv
  <2>3. staging.closed = <<>>
    <3>1. CASE StartCopy
      BY <3>1, EmptyTreeType DEF StartCopy
    <3>2. CASE FinishCopy
      <4>1. staging.scratch = {"copying"}
        BY <3>2 DEF FinishCopy
      <4>2. staging = [EmptyTree EXCEPT !.scratch = {"copying"}]
        BY <2>1, <2>2, <4>1, EmptyTreeType DEF At, Recognized, Holds
      <4> QED
        BY <4>2 DEF EmptyTree
    <3> QED
      BY <3>1, <3>2
  <2> QED
    BY <2>1, <2>2, <2>3 DEF At
<1>2. ~ Live /\ journal.snap = 0 /\ staging \in Trees /\ 0 \in Versions
  BY <1>1, BootstrapAssumption DEF JournalInv, TypeOK, Versions
<1>3. /\ staging' \in Trees /\ staging' # None
      /\ staging'.closed = <<>> /\ Len(staging'.closed) = 0
  <2>1. \/ staging' = [staging EXCEPT !.scratch = {"copying"}]
        \/ staging' = [staging EXCEPT !.scratch = {}, !.db = journal.snap]
    BY DEF StartCopy, FinishCopy
  <2>2. CASE staging' = [staging EXCEPT !.scratch = {"copying"}]
    BY <1>1, <1>2, <2>2, BootstrapAssumption DEF Trees
  <2>3. CASE staging' = [staging EXCEPT !.scratch = {}, !.db = journal.snap]
    BY <1>1, <1>2, <2>3, BootstrapAssumption DEF Trees
  <2> QED
    BY <2>1, <2>2, <2>3
<1>4. UNCHANGED <<mode, source, journal, final, rowlayer, opt, closure, bpc, crashes>>
  BY DEF StartCopy, FinishCopy
<1>5. TypeOK'
  BY <1>3, <1>4, BootstrapAssumption DEF TypeOK
<1> QED
  BY <1>1, <1>2, <1>3, <1>4, <1>5 DEF TreeInv, FromJournal, JournalInv, FinalInv,
     SnapshotAtWork, ClosureAtWork, BuildAtWork, Live

\* A run directory holds the journal's snapshot.
LEMMA FinalSnapshot ==
    ASSUME IInv, final # None
    PROVE  journal # None /\ journal.snap # None /\ final.db = journal.snap
<1>1. final.closed \in Seq(Contents) /\ Len(final.closed) = ArtifactCount
  BY DEF IInv, TypeOK, FinalInv, Trees
<1>2. final.closed # <<>>
  BY <1>1, BootstrapAssumption
<1> QED
  BY <1>2 DEF IInv, TreeInv, FromJournal, JournalInv

\* What the classifiers make of a staging directory that is to be scanned.
LEMMA ScannedStaging ==
    ASSUME IInv, At("approved") \/ (bpc = "resume" /\ journal # None /\ journal.state \in Snapped),
           Recognized, final = None, staging # None, staging.db # None
    PROVE  /\ staging.db = journal.snap /\ staging.scratch = {}
           /\ journal.state \in {"owner_closed", "ready_to_promote"} =>
                Len(staging.closed) = ArtifactCount
<1> USE BootstrapAssumption
<1>1. ASSUME NEW k \in 0..ArtifactCount, Holds(staging, k)
      PROVE  /\ staging.db = journal.snap /\ staging.scratch = {}
             /\ Len(staging.closed) = k
  BY <1>1 DEF Holds
<1>2. CASE journal.state = "approved"
  <2>1. PICK k \in 0..ArtifactCount : Holds(staging, k)
    BY <1>2, EmptyTreeType DEF Recognized, EmptyTree
  <2> QED
    BY <1>1, <1>2, <2>1
<1>3. CASE journal.state = "snapshot_closed"
  <2>1. Holds(staging, 0)
    BY <1>3 DEF Recognized
  <2> QED
    BY <1>1, <1>3, <2>1
<1>4. CASE journal.state = "universe_closed"
  <2>1. PICK k \in 0..Dependencies : Holds(staging, k)
    BY <1>4 DEF Recognized
  <2> QED
    BY <1>1, <1>4, <2>1 DEF Dependencies
<1>5. CASE journal.state = "options_maps_closed"
  <2>1. PICK k \in Dependencies..ArtifactCount : Holds(staging, k)
    BY <1>5 DEF Recognized
  <2> QED
    BY <1>1, <1>5, <2>1 DEF Dependencies
<1>6. CASE journal.state \in {"owner_closed", "ready_to_promote"}
  <2>1. Holds(staging, ArtifactCount)
    BY <1>6 DEF Recognized
  <2> QED
    BY <1>1, <2>1
<1>7. journal.state # "promoted"
  BY DEF Recognized
<1> QED
  BY <1>2, <1>3, <1>4, <1>5, <1>6, <1>7 DEF At, Snapped

LEMMA ScanStep ==
    ASSUME IInv, Scan
    PROVE  IInv'
<1> USE DEF IInv
<1>1. /\ journal # None /\ journal.state \in Scanning /\ journal.opt = opt
      /\ journal \in Journals
      /\ UNCHANGED <<mode, source, disk, opt, crashes>> /\ bpc' = "scanned"
  BY JournalFields DEF Scan, Recognized
<1>2. TheTree # None /\ TheTree.db = journal.snap /\ journal.snap # None
  <2>1. CASE final # None
    BY <2>1, FinalSnapshot DEF TheTree
  <2>2. CASE final = None
    <3>1. staging # None /\ staging.db # None
      BY <2>2 DEF Scan, TheTree
    <3>2. At("approved") \/ (bpc = "resume" /\ journal # None /\ journal.state \in Snapped)
      BY DEF Scan, At, Scanning, Snapped
    <3> QED
      BY <2>2, <3>1, <3>2, ScannedStaging DEF Scan, TheTree
  <2> QED
    BY <2>1, <2>2
<1>3. closure' = Closure(journal.snap, journal.opt) /\ closure' \in Contents
  <2>1. journal.snap \in Versions /\ opt \in Options
    BY <1>1, <1>2, JournalFields DEF TypeOK
  <2> QED
    BY <1>1, <1>2, <2>1 DEF Scan, Closure, Contents
<1>4. TypeOK'
  BY <1>1, <1>3 DEF TypeOK, disk
<1>5. BuildAtWork'
  <2>1. CASE final # None
    BY <1>1, <2>1 DEF BuildAtWork, disk
  <2>2. CASE final = None
    <3>1. staging # None /\ staging.db # None
      BY <2>2 DEF Scan, TheTree
    <3>2. At("approved") \/ (bpc = "resume" /\ journal # None /\ journal.state \in Snapped)
      BY DEF Scan, At, Scanning, Snapped
    <3> QED
      BY <1>1, <2>2, <3>1, <3>2, ScannedStaging DEF Scan, BuildAtWork, disk
  <2> QED
    BY <2>1, <2>2
<1>6. ClosureAtWork' /\ SnapshotAtWork'
  BY <1>1, <1>2, <1>3 DEF ClosureAtWork, SnapshotAtWork, disk, Scanning
<1>7. JournalInv' /\ TreeInv' /\ FinalInv'
  BY <1>1 DEF JournalInv, TreeInv, FromJournal, FinalInv, disk, Live
<1> QED
  BY <1>4, <1>5, <1>6, <1>7

LEMMA WritableBound ==
    /\ Writable \in Nat /\ Writable <= ArtifactCount
    /\ Writable > 0 => journal.state \in {"universe_closed", "options_maps_closed", "approved"}
BY BootstrapAssumption DEF Writable, Dependencies

LEMMA CreateArtifactStep ==
    ASSUME IInv, CreateArtifact
    PROVE  IInv'
<1> USE DEF IInv
<1>1. /\ bpc = "scanned" /\ final = None /\ staging # None /\ staging \in Trees
      /\ staging.db = journal.snap
  BY DEF CreateArtifact, Building, BuildAtWork, TypeOK
<1>2. Len(staging.closed) < Writable /\ Len(staging.closed) \in Nat
  BY <1>1 DEF CreateArtifact, Unfinished, Trees
<1>3. /\ Len(staging.closed) < ArtifactCount
      /\ journal.state \in {"universe_closed", "options_maps_closed", "approved"}
  BY <1>2, WritableBound, BootstrapAssumption
<1>4. /\ staging' \in Trees /\ staging' # None
      /\ staging'.closed = staging.closed /\ staging'.db = staging.db
  <2>1. staging' = [staging EXCEPT !.scratch = {"temp"}]
    BY DEF CreateArtifact
  <2> QED
    BY <1>1, <2>1, BootstrapAssumption DEF Trees
<1>5. TypeOK'
  BY <1>1, <1>4 DEF CreateArtifact, TypeOK
<1>6. BuildAtWork'
  BY <1>1, <1>3, <1>4 DEF CreateArtifact, BuildAtWork
<1>7. ClosureAtWork' /\ SnapshotAtWork'
  BY <1>1 DEF CreateArtifact, ClosureAtWork, SnapshotAtWork
<1>8. JournalInv' /\ TreeInv' /\ FinalInv'
  BY <1>1, <1>4 DEF CreateArtifact, JournalInv, TreeInv, FromJournal, FinalInv, Live, ClosureAtWork
<1> QED
  BY <1>5, <1>6, <1>7, <1>8

LEMMA PublishArtifactStep ==
    ASSUME IInv, PublishArtifact
    PROVE  IInv'
<1> USE DEF IInv
<1>1. /\ bpc = "publish" /\ final = None /\ staging # None /\ staging \in Trees
      /\ staging.db = journal.snap /\ Len(staging.closed) < ArtifactCount
      /\ journal.state \in {"universe_closed", "options_maps_closed", "approved"}
  BY DEF PublishArtifact, BuildAtWork, TypeOK
<1>2. /\ journal # None /\ journal.snap # None
      /\ closure = Closure(journal.snap, journal.opt) /\ closure \in Contents
  <2>1. /\ journal # None /\ journal.snap # None
        /\ closure = Closure(journal.snap, journal.opt)
    BY <1>1 DEF ClosureAtWork
  <2> QED
    BY <2>1, JournalFields DEF Closure, Contents
<1>3. /\ staging' \in Trees /\ staging' # None
      /\ staging'.closed = Append(staging.closed, closure)
      /\ staging'.db = staging.db /\ staging'.scratch = {}
  <2>1. staging' = [staging EXCEPT !.scratch = {}, !.closed = Append(@, closure)]
    BY DEF PublishArtifact
  <2>2. Append(staging.closed, closure) \in Seq(Contents)
    BY <1>1, <1>2 DEF Trees
  <2> QED
    BY <1>1, <2>1, <2>2, BootstrapAssumption DEF Trees
<1>4. /\ Len(staging'.closed) = Len(staging.closed) + 1 /\ Len(staging.closed) \in Nat
      /\ \A i \in 1..Len(staging'.closed) : staging'.closed[i] = Closure(journal.snap, journal.opt)
  <2>1. \A i \in 1..Len(staging.closed) : staging.closed[i] = Closure(journal.snap, journal.opt)
    BY <1>1 DEF TreeInv, FromJournal
  <2>2. staging.closed \in Seq(Contents)
    BY <1>1 DEF Trees
  <2> QED
    BY <1>2, <1>3, <2>1, <2>2
<1>5. TypeOK'
  <2>1. Len(staging'.closed) <= ArtifactCount
    BY <1>1, <1>4, BootstrapAssumption
  <2>2. UNCHANGED <<mode, source, journal, final, rowlayer, opt, closure, crashes>>
    BY DEF PublishArtifact
  <2>3. bpc' = "scanned"
    BY DEF PublishArtifact
  <2> QED
    BY <1>1, <1>3, <2>1, <2>2, <2>3 DEF TypeOK
<1>6. BuildAtWork' /\ ClosureAtWork' /\ SnapshotAtWork'
  BY <1>1, <1>2, <1>3 DEF PublishArtifact, BuildAtWork, ClosureAtWork, SnapshotAtWork
<1>7. JournalInv' /\ TreeInv' /\ FinalInv'
  BY <1>1, <1>2, <1>3, <1>4 DEF PublishArtifact, JournalInv, TreeInv, FromJournal, FinalInv, Live
<1> QED
  BY <1>5, <1>6, <1>7

LEMMA CloseStageStep ==
    ASSUME IInv, CloseStage
    PROVE  IInv'
<1> USE DEF IInv
<1>1. /\ bpc = "scanned" /\ final = None /\ staging # None /\ staging \in Trees
      /\ staging.db = journal.snap /\ staging.scratch = {}
      /\ Len(staging.closed) <= ArtifactCount /\ Len(staging.closed) \in Nat
      /\ journal # None /\ journal.snap # None
  BY DEF CloseStage, Building, BuildAtWork, ClosureAtWork, TypeOK, Trees
<1>2. /\ journal.state \in {"snapshot_closed", "universe_closed", "options_maps_closed",
                            "owner_closed"}
      /\ Live
  BY <1>1 DEF CloseStage, JournalInv
<1>3. PICK s \in Snapped :
        /\ Mark(s, journal.snap) /\ s \in Scanning
        /\ s \in {"owner_closed", "ready_to_promote"} =>
             journal.state \in {"options_maps_closed", "owner_closed"}
  <2>1. Mark(LiveStates[Rank(journal.state) + 1], journal.snap)
    BY DEF CloseStage
  <2> QED
    BY <1>2, <2>1, NextState DEF Snapped, Scanning
<1>4. /\ journal' \in Journals /\ journal' # None
      /\ journal'.state = s /\ journal'.snap = journal.snap /\ journal'.opt = journal.opt
  BY <1>1, <1>3, MarkType, JournalFields
<1>5. s \in {"owner_closed", "ready_to_promote"} => Len(staging.closed) = ArtifactCount
  <2>1. CASE journal.state = "owner_closed"
    BY <1>1, <2>1 DEF BuildAtWork
  <2>2. CASE journal.state = "options_maps_closed"
    <3>1. Writable = ArtifactCount
      BY <2>2 DEF Writable
    <3> QED
      BY <1>1, <3>1, BootstrapAssumption DEF CloseStage, Unfinished
  <2> QED
    BY <1>3, <2>1, <2>2
<1>6. TypeOK'
  BY <1>4 DEF CloseStage, TypeOK
<1>7. BuildAtWork' /\ ClosureAtWork' /\ SnapshotAtWork'
  BY <1>1, <1>3, <1>4, <1>5 DEF CloseStage, BuildAtWork, ClosureAtWork, SnapshotAtWork
<1>8. JournalInv' /\ TreeInv' /\ FinalInv'
  BY <1>1, <1>2, <1>4 DEF CloseStage, JournalInv, TreeInv, FromJournal, FinalInv, Live, Snapped
<1> QED
  BY <1>6, <1>7, <1>8

LEMMA PromoteStep ==
    ASSUME IInv, Promote
    PROVE  IInv'
<1> USE DEF IInv
<1>1. /\ bpc = "scanned" /\ final = None /\ staging # None /\ staging \in Trees
      /\ staging.scratch = {} /\ journal # None
      /\ Len(staging.closed) <= ArtifactCount /\ Len(staging.closed) \in Nat
      /\ journal.state \in {"ready_to_promote", "approved"}
  BY DEF Promote, Building, BuildAtWork, ClosureAtWork, TypeOK, Trees
<1>2. Len(staging.closed) = ArtifactCount
  <2>1. CASE journal.state = "ready_to_promote"
    BY <1>1, <2>1 DEF BuildAtWork
  <2>2. CASE journal.state = "approved"
    <3>1. Writable = ArtifactCount
      BY <2>2 DEF Writable
    <3> QED
      BY <1>1, <3>1, BootstrapAssumption DEF Promote, Unfinished
  <2> QED
    BY <1>1, <2>1, <2>2
<1>3. Live => journal.state = "ready_to_promote"
  BY <1>1 DEF JournalInv
<1>4. /\ final' = staging /\ staging' = None
      /\ UNCHANGED <<mode, source, journal, rowlayer, opt, closure, bpc, crashes>>
  BY DEF Promote
<1>5. TypeOK'
  BY <1>1, <1>4 DEF TypeOK
<1>6. BuildAtWork' /\ ClosureAtWork' /\ SnapshotAtWork'
  BY <1>1, <1>4 DEF BuildAtWork, ClosureAtWork, SnapshotAtWork
<1>7. JournalInv' /\ TreeInv' /\ FinalInv'
  BY <1>1, <1>2, <1>3, <1>4 DEF JournalInv, TreeInv, FromJournal, FinalInv, Live
<1> QED
  BY <1>5, <1>6, <1>7

LEMMA MarkPromotedStep ==
    ASSUME IInv, MarkPromoted
    PROVE  IInv'
<1> USE DEF IInv
<1>1. /\ bpc = "scanned" /\ final # None /\ journal # None /\ journal.snap # None
      /\ journal.state = "ready_to_promote" /\ Live
  BY DEF MarkPromoted, ClosureAtWork, JournalInv
<1>2. /\ journal' \in Journals /\ journal' # None
      /\ journal'.state = "promoted" /\ journal'.snap = journal.snap
      /\ journal'.opt = journal.opt
  BY <1>1, MarkType, JournalFields DEF MarkPromoted, Snapped
<1>3. TypeOK'
  BY <1>2 DEF MarkPromoted, TypeOK
<1>4. BuildAtWork' /\ ClosureAtWork' /\ SnapshotAtWork'
  BY <1>1, <1>2 DEF MarkPromoted, BuildAtWork, ClosureAtWork, SnapshotAtWork, Scanning
<1>5. JournalInv' /\ TreeInv' /\ FinalInv'
  BY <1>1, <1>2 DEF MarkPromoted, JournalInv, TreeInv, FromJournal, FinalInv, Live, Snapped
<1> QED
  BY <1>3, <1>4, <1>5

LEMMA HandOverStep ==
    ASSUME IInv, HandOver
    PROVE  IInv'
BY DEF IInv, TypeOK, JournalInv, TreeInv, FromJournal, FinalInv, SnapshotAtWork, ClosureAtWork,
       BuildAtWork, HandOver, disk, Live

LEMMA BootstrapStepInv ==
    ASSUME IInv, Bootstrap
    PROVE  IInv'
BY RefuseStep, ReserveStep, CreateStagingStep, MarkEmptyStep, ResetSnapshotStep,
   CreateSnapshotStep, BackupStep, CloseSnapshotStep, CopyStep, ScanStep, CreateArtifactStep,
   PublishArtifactStep, CloseStageStep, PromoteStep, MarkPromotedStep, HandOverStep
   DEF Bootstrap

----------------------------------------------------------------------------
(* The row publisher leaves the bootstrap's files alone.                   *)

\* pc is a function on the one process.
OneProcess == pc = [q \in {Runner} |-> pc[Runner]]

LEMMA Moves ==
    ASSUME OneProcess, NEW l, pc' = [pc EXCEPT ![Runner] = l]
    PROVE  OneProcess' /\ pc'[Runner] = l
<1>1. pc = [q \in {Runner} |-> pc[Runner]]
  BY DEF OneProcess
<1>2. pc' = [q \in {Runner} |-> l]
  BY <1>1
<1> QED
  BY <1>2 DEF OneProcess

LEMMA Stays == ASSUME OneProcess, pc' = pc PROVE OneProcess'
BY DEF OneProcess

\* Whatever the publisher does next, it touches neither the bound on deaths nor
\* the backend.
Frame == mode' = mode /\ crashes' = crashes /\ OneProcess'

LEMMA RefuseFrame == ASSUME OneProcess, Rows!Refuse(Runner) PROVE Frame
BY Moves DEF Rows!Refuse, Frame

LEMMA ReadFrame ==
    ASSUME OneProcess, NEW ok, NEW m, NEW l, Rows!Read(Runner, ok, m, l)
    PROVE  Frame
<1>1. CASE Rows!Refuse(Runner)
  BY <1>1, RefuseFrame
<1>2. CASE Rows!Goto(Runner, l) /\ mode' = mode /\ crashes' = crashes
  BY <1>2, Moves DEF Rows!Goto, Frame
<1> QED
  BY <1>1, <1>2 DEF Rows!Read

LEMMA WriteFrame ==
    ASSUME OneProcess, NEW f, NEW v, NEW was, NEW l, NEW m,
           Rows!Write(Runner, f, v, was, l, m)
    PROVE  Frame
BY Moves DEF Rows!Write, Rows!Goto, Frame

LEMMA PreflightFrame == ASSUME OneProcess, Rows!Preflight(Runner) PROVE Frame
<1>1. CASE Rows!ReadNames(Runner)
  BY <1>1, ReadFrame DEF Rows!ReadNames
<1>2. CASE Rows!ReadFresh(Runner)
  BY <1>2, ReadFrame DEF Rows!ReadFresh
<1>3. CASE Rows!ReadLedger(Runner)
  BY <1>3, ReadFrame DEF Rows!ReadLedger
<1>4. CASE Rows!ReadCheckpoint(Runner)
  BY <1>4, ReadFrame DEF Rows!ReadCheckpoint
<1>5. CASE Rows!ReadJournal(Runner)
  BY <1>5, ReadFrame DEF Rows!ReadJournal
<1>6. CASE Rows!ReadTree(Runner)
  BY <1>6, ReadFrame DEF Rows!ReadTree
<1> QED
  BY <1>1, <1>2, <1>3, <1>4, <1>5, <1>6 DEF Rows!Preflight

LEMMA RecoverFrame == ASSUME OneProcess, Rows!Recover(Runner) PROVE Frame
<1>1. CASE Rows!Refuse(Runner)
  BY <1>1, RefuseFrame
<1>2. CASE \E m, l : Rows!Read(Runner, TRUE, m, l)
  BY <1>2, ReadFrame
<1>3. CASE mode' = mode /\ crashes' = crashes /\ pc' = pc
  BY <1>3, Stays DEF Frame
<1> QED
  BY <1>1, <1>2, <1>3 DEF Rows!Recover

LEMMA PublishFrame == ASSUME OneProcess, Rows!Publish(Runner) PROVE Frame
<1>1. CASE Rows!MakeRows(Runner) \/ Rows!MakeStaging(Runner)
  BY <1>1, Moves DEF Rows!MakeRows, Rows!MakeStaging, Rows!MakeDir, Rows!Goto, Frame
<1>2. CASE Rows!InitialLedger(Runner)
  BY <1>2, WriteFrame DEF Rows!InitialLedger
<1>3. CASE Rows!InitialCheckpoint(Runner)
  BY <1>3, WriteFrame DEF Rows!InitialCheckpoint
<1>4. CASE Rows!RepairCheckpoint(Runner)
  BY <1>4, ReadFrame, WriteFrame DEF Rows!RepairCheckpoint
<1>5. CASE Rows!NextRow(Runner)
  BY <1>5, ReadFrame, WriteFrame, RefuseFrame DEF Rows!NextRow
<1>6. CASE Rows!Manifest(Runner)
  BY <1>6, ReadFrame, WriteFrame DEF Rows!Manifest, Rows!CreateOrEqual
<1>7. CASE Rows!Receipt(Runner)
  BY <1>7, ReadFrame, WriteFrame, RefuseFrame DEF Rows!Receipt, Rows!CreateOrEqual
<1> QED
  BY <1>1, <1>2, <1>3, <1>4, <1>5, <1>6, <1>7 DEF Rows!Publish

LEMMA TransactionFrame == ASSUME OneProcess, Rows!RowTransaction(Runner) PROVE Frame
<1>1. CASE Rows!Resume(Runner)
  BY <1>1, ReadFrame DEF Rows!Resume
<1>2. CASE Rows!ClearStage(Runner)
  <2>1. CASE Rows!Refuse(Runner)
    BY <2>1, RefuseFrame
  <2>2. CASE mode' = mode /\ crashes' = crashes /\ (pc' = pc \/ Rows!Goto(Runner, "mk_stage"))
    BY <2>2, Moves, Stays DEF Rows!Goto, Frame
  <2> QED
    BY <1>2, <2>1, <2>2 DEF Rows!ClearStage
<1>3. CASE Rows!MakeStage(Runner)
  BY <1>3, Moves DEF Rows!MakeStage, Rows!Goto, Frame
<1>4. CASE Rows!WritePart(Runner)
  BY <1>4, WriteFrame DEF Rows!WritePart
<1>5. CASE Rows!Seal(Runner)
  BY <1>5, ReadFrame DEF Rows!Seal
<1>6. CASE Rows!JournalStaged(Runner)
  BY <1>6, WriteFrame DEF Rows!JournalStaged, Rows!Advance
<1>7. CASE Rows!Commit(Runner)
  BY <1>7, ReadFrame DEF Rows!Commit
<1>8. CASE Rows!Rename(Runner)
  BY <1>8, Moves DEF Rows!Rename, Rows!Goto, Frame
<1>9. CASE Rows!JournalCommitted(Runner)
  BY <1>9, WriteFrame DEF Rows!JournalCommitted, Rows!Advance
<1>10. CASE Rows!CloseLedger(Runner)
  BY <1>10, ReadFrame, WriteFrame DEF Rows!CloseLedger
<1>11. CASE Rows!JournalLedger(Runner)
  BY <1>11, WriteFrame DEF Rows!JournalLedger, Rows!Advance
<1>12. CASE Rows!CloseCheckpoint(Runner)
  BY <1>12, ReadFrame, WriteFrame DEF Rows!CloseCheckpoint
<1>13. CASE Rows!JournalCheckpoint(Runner)
  BY <1>13, WriteFrame DEF Rows!JournalCheckpoint, Rows!Advance
<1>14. CASE Rows!DropJournal(Runner)
  BY <1>14, ReadFrame DEF Rows!DropJournal
<1>15. CASE Rows!UnlinkJournal(Runner)
  <2>1. CASE Rows!Refuse(Runner)
    BY <2>1, RefuseFrame
  <2>2. CASE mode' = mode /\ crashes' = crashes /\ Rows!Goto(Runner, "repair")
    BY <2>2, Moves DEF Rows!Goto, Frame
  <2> QED
    BY <1>15, <2>1, <2>2 DEF Rows!UnlinkJournal
<1> QED
  BY <1>1, <1>2, <1>3, <1>4, <1>5, <1>6, <1>7, <1>8, <1>9, <1>10, <1>11, <1>12, <1>13,
     <1>14, <1>15 DEF Rows!RowTransaction

LEMMA WorkedFrame ==
    ASSUME OneProcess, mode' = mode, crashes' = crashes,
           \/ \E s : Rows!Step(Runner, s)
           \/ Rows!Finish(Runner)
           \/ Rows!Goto(Runner, "refused")
    PROVE  Frame
BY Moves, Stays DEF Rows!Step, Rows!Finish, Rows!Goto, Frame

LEMMA DurableWriteFrame == ASSUME OneProcess, Rows!DurableWrite(Runner) PROVE Frame
<1>1. CASE Rows!IoCreate(Runner)
  BY <1>1, RefuseFrame, WorkedFrame DEF Rows!IoCreate
<1>2. CASE Rows!IoFlush(Runner)
  BY <1>2, WorkedFrame DEF Rows!IoFlush
<1>3. CASE Rows!IoPublish(Runner)
  BY <1>3, RefuseFrame, WorkedFrame DEF Rows!IoPublish
<1>4. CASE Rows!IoCompare(Runner)
  BY <1>4, RefuseFrame, WorkedFrame DEF Rows!IoCompare
<1>5. CASE Rows!IoSwap(Runner)
  BY <1>5, RefuseFrame, WorkedFrame DEF Rows!IoSwap
<1>6. CASE Rows!IoAside(Runner)
  BY <1>6, RefuseFrame, WorkedFrame DEF Rows!IoAside
<1>7. CASE Rows!IoFill(Runner)
  BY <1>7, RefuseFrame, WorkedFrame DEF Rows!IoFill
<1>8. CASE Rows!IoDrop(Runner)
  BY <1>8, RefuseFrame, WorkedFrame DEF Rows!IoDrop
<1> QED
  BY <1>1, <1>2, <1>3, <1>4, <1>5, <1>6, <1>7, <1>8 DEF Rows!DurableWrite

LEMMA WorkFrame == ASSUME OneProcess, Rows!Work(Runner) PROVE Frame
BY RecoverFrame, PreflightFrame, PublishFrame, TransactionFrame, DurableWriteFrame DEF Rows!Work

----------------------------------------------------------------------------
(* The acquisition.                                                        *)

RunInv == IInv /\ OneProcess /\ (Publishing => bpc = "handed")

\* The row layer only ends the process, or marks that its names are there.
LEMMA RowLayerInv ==
    ASSUME IInv, mode' = mode, crashes' \in 0..MaxCrashes, rowlayer' \in BOOLEAN,
           UNCHANGED <<source, journal, staging, final, opt>>,
           \/ bpc' = bpc /\ closure' = closure
           \/ bpc' = "idle" /\ closure' = None
    PROVE  IInv'
BY DEF IInv, TypeOK, JournalInv, TreeInv, FromJournal, FinalInv, SnapshotAtWork, ClosureAtWork,
       BuildAtWork, Live

LEMMA RunInit == Init => RunInv
<1> SUFFICES ASSUME Init PROVE RunInv
  OBVIOUS
<1>1. IInv
  BY InvInit DEF Init
<1>2. pc = [q \in {Runner} |-> "idle"]
  BY DEF Init, Rows!Init, Publishers
<1> QED
  BY <1>1, <1>2 DEF RunInv, OneProcess, Publishing, Rows!Active, Rows!Idle

LEMMA RunStep == RunInv /\ [Next]_runvars => RunInv'
<1> SUFFICES ASSUME RunInv, [Next]_runvars PROVE RunInv'
  OBVIOUS
<1> USE DEF RunInv
<1>1. CASE UNCHANGED runvars
  <2>1. UNCHANGED bvars /\ pc' = pc
    BY <1>1 DEF runvars, rvars
  <2> QED
    BY <2>1 DEF bvars, IInv, TypeOK, JournalInv, TreeInv, FromJournal, FinalInv, SnapshotAtWork,
       ClosureAtWork, BuildAtWork, Live, OneProcess, Publishing, Rows!Active
<1>2. CASE BootstrapStep
  <2>1. IInv'
    <3>1. CASE Bootstrap
      BY <3>1, BootstrapStepInv
    <3>2. CASE BootstrapCrash
      BY <3>2, CrashStep
    <3>3. ASSUME NEW o \in Options, Begin(o) PROVE IInv'
      BY <3>3, BeginStep
    <3> QED
      BY <1>2, <3>1, <3>2, <3>3 DEF BootstrapStep
  <2>2. pc' = pc /\ ~ Publishing
    BY <1>2 DEF BootstrapStep, rvars
  <2> QED
    BY <2>1, <2>2 DEF OneProcess, Publishing, Rows!Active
<1>3. CASE SourceStep
  <2>1. pc' = pc /\ bpc' = bpc
    BY <1>3 DEF SourceStep, SourceChanges, rvars
  <2> QED
    BY <1>3, <2>1, SourceChangesStep DEF SourceStep, OneProcess, Publishing, Rows!Active
<1>4. CASE StartRows
  <2>1. UNCHANGED bvars /\ bpc = "handed"
    BY <1>4 DEF StartRows
  <2>2. IInv'
    BY <2>1 DEF bvars, IInv, TypeOK, JournalInv, TreeInv, FromJournal, FinalInv, SnapshotAtWork,
       ClosureAtWork, BuildAtWork, Live
  <2>3. OneProcess'
    BY <1>4, Moves DEF StartRows, Rows!Start, Rows!Goto
  <2> QED
    BY <2>1, <2>2, <2>3 DEF bvars
<1>5. CASE RowStep
  <2>1. mode' = mode /\ crashes' = crashes /\ OneProcess'
    BY <1>5, WorkFrame DEF RowStep, Frame
  <2>2. /\ rowlayer' \in BOOLEAN /\ UNCHANGED <<source, journal, staging, final, opt>>
        /\ bpc' = (IF Publishing' THEN bpc ELSE "idle")
        /\ closure' = (IF Publishing' THEN closure ELSE None)
    BY <1>5 DEF RowStep, RowLayer
  <2>3. IInv'
    BY <2>1, <2>2, RowLayerInv DEF IInv, TypeOK
  <2> QED
    BY <1>5, <2>1, <2>2, <2>3 DEF RowStep
<1>6. CASE RowCrash
  <2>1. Rows!Crash(Runner) /\ bpc' = "idle" /\ closure' = None
        /\ UNCHANGED <<source, journal, staging, final, rowlayer, opt>>
    BY <1>6 DEF RowCrash
  <2>2. /\ mode' = mode /\ crashes' = crashes + 1 /\ crashes < MaxCrashes
        /\ pc' = [pc EXCEPT ![Runner] = "idle"]
    BY <2>1 DEF Rows!Crash, Rows!Goto
  <2>3. crashes' \in 0..MaxCrashes
    BY <2>2, BootstrapAssumption DEF IInv, TypeOK
  <2>4. IInv'
    BY <2>1, <2>2, <2>3, RowLayerInv DEF IInv, TypeOK
  <2>5. OneProcess' /\ pc'[Runner] = "idle"
    BY <2>2, Moves
  <2> QED
    BY <2>4, <2>5 DEF Publishing, Rows!Active, Rows!Idle
<1> QED
  BY <1>1, <1>2, <1>3, <1>4, <1>5, <1>6 DEF Next

LEMMA Invariant == Spec => []RunInv
BY RunInit, RunStep, PTL DEF Spec

----------------------------------------------------------------------------
\* TypeOK of the bootstrap, through every row step and every death.
THEOREM BootstrapTypeCorrect == Spec => []TypeOK
<1>1. RunInv => TypeOK
  BY DEF RunInv, IInv
<1> QED
  BY <1>1, Invariant, PTL

\* OneClosure: whatever dies when, and with whatever options it is started
\* again, snapshot and artifacts come from one version of the source and from
\* the options of the journal.
THEOREM AlwaysOneClosure == Spec => []OneClosure
<1>1. RunInv => OneClosure
  <2> SUFFICES ASSUME RunInv, NEW t \in {staging, final} \ {None}
               PROVE  /\ journal # None
                      /\ (Live /\ journal.snap # None) \/ t.closed # <<>> => t.db = journal.snap
                      /\ \A i \in 1..Len(t.closed) :
                            t.closed[i] = Closure(journal.snap, journal.opt)
    BY DEF OneClosure
  <2>1. journal # None
    BY DEF RunInv, IInv, JournalInv
  <2>2. FromJournal(t)
    BY DEF RunInv, IInv, TreeInv
  <2> QED
    BY <2>1, <2>2 DEF FromJournal
<1> QED
  BY <1>1, Invariant, PTL

\* FinalIsWhole: the run directory appears complete, by promotion only.
THEOREM RunDirectoryIsWhole == Spec => []FinalIsWhole
<1>1. RunInv => FinalIsWhole
  BY DEF RunInv, IInv, FinalInv, FinalIsWhole, JournalInv
<1> QED
  BY <1>1, Invariant, PTL

\* RowsOfOneUniverse: every process that publishes rows works from the snapshot
\* and the options the run directory was built of, whichever process built it.
THEOREM RowsShareOneUniverse == Spec => []RowsOfOneUniverse
<1>1. RunInv => RowsOfOneUniverse
  <2> SUFFICES ASSUME RunInv, Publishing
               PROVE  /\ final # None /\ staging = None
                      /\ closure = Closure(final.db, journal.opt)
                      /\ \A i \in 1..ArtifactCount : final.closed[i] = closure
    BY DEF RowsOfOneUniverse
  <2>1. final # None /\ closure = Closure(journal.snap, journal.opt)
    BY DEF RunInv, IInv, ClosureAtWork, BuildAtWork
  <2>2. final.db = journal.snap /\ staging = None /\ Len(final.closed) = ArtifactCount
    BY <2>1, FinalSnapshot DEF RunInv, IInv, FinalInv
  <2>3. \A i \in 1..ArtifactCount : final.closed[i] = closure
    BY <2>1, <2>2 DEF RunInv, IInv, TreeInv, FromJournal
  <2> QED
    BY <2>1, <2>2, <2>3
<1> QED
  BY <1>1, Invariant, PTL

\* ForeignRunIsInert: a process started with other options than the journal's
\* ends without having changed journal, staging or run directory.
THEOREM ForeignOptionsChangeNothing == Spec => ForeignRunIsInert
<1>1. ASSUME RunInv, [Next]_runvars, journal # None, bpc # "idle", opt # journal.opt
      PROVE  UNCHANGED <<journal, staging, final>>
  <2> USE <1>1 DEF RunInv, IInv
  <2>1. ~ Recognized
    BY DEF Recognized
  <2>2. bpc \notin {"empty", "backup", "copied", "scanned", "publish", "handed"}
    BY DEF SnapshotAtWork, ClosureAtWork
  <2>3. ASSUME Bootstrap PROVE UNCHANGED <<journal, staging, final>>
    <3>1. \/ RefuseBootstrap
          \/ ~ RefuseBootstrap /\ journal = None
      BY <2>1, <2>2, <2>3
         DEF Bootstrap, Reserve, CreateStaging, MarkEmpty, ResetSnapshot, CreateSnapshot, Backup,
             CloseSnapshot, StartCopy, FinishCopy, Scan, CreateArtifact, PublishArtifact,
             CloseStage, Promote, MarkPromoted, HandOver, Building
    <3> QED
      BY <3>1 DEF RefuseBootstrap, disk
  <2>4. CASE UNCHANGED runvars
    BY <2>4 DEF runvars, bvars
  <2>5. CASE BootstrapStep
    BY <2>3, <2>5 DEF BootstrapStep, BootstrapCrash, Begin, disk
  <2>6. CASE SourceStep
    BY <2>6 DEF SourceStep, SourceChanges, disk
  <2>7. CASE StartRows
    BY <2>7 DEF StartRows, bvars
  <2>8. CASE RowStep \/ RowCrash
    BY <2>8 DEF RowStep, RowCrash
  <2> QED
    BY <2>4, <2>5, <2>6, <2>7, <2>8 DEF Next
<1>2. RunInv /\ [Next]_runvars =>
        [journal # None /\ bpc # "idle" /\ opt # journal.opt =>
           UNCHANGED <<journal, staging, final>>]_bvars
  BY <1>1
<1> QED
  BY <1>2, Invariant, PTL DEF Spec, ForeignRunIsInert

----------------------------------------------------------------------------
(* The row layer as AcquireRowsProofs knows it, for one publisher at work. *)
(* Its operators are those of Rows, one by one.                            *)

P == INSTANCE AcquireRowsProofs

LEMMA RowsAssumed == P!RowsAssumption /\ P!ValuesAssumption
BY BootstrapAssumption, RunAssumption
   DEF P!RowsAssumption, P!ValuesAssumption, Rows!JournalStates, P!JournalStates, Rows!AllParts,
       P!AllParts

LEMMA SameStart == Rows!Start(Runner) => P!Start(Runner)
BY DEF Rows!Start, P!Start, Rows!Active, P!Active, Rows!Goto, P!Goto,
       Rows!Exchange, P!Exchange, Rows!Know, P!Know, Rows!NoMem, P!NoMem, Rows!disk, P!disk,
       Rows!Idle, P!Idle

LEMMA SameCrash == Rows!Crash(Runner) => P!Crash(Runner)
BY DEF Rows!Crash, P!Crash, Rows!Active, P!Active, Rows!Goto, P!Goto, Rows!Know, P!Know, Rows!NoMem,
       P!NoMem, Rows!NoIo, P!NoIo, Rows!disk, P!disk, Rows!Idle, P!Idle

LEMMA SameRecover == Rows!Recover(Runner) => P!Recover(Runner)
BY DEF Rows!Cardinality, P!Cardinality,
       Rows!Recover, P!Recover, Rows!Residue, P!Residue, Rows!RewriteChain, P!RewriteChain,
       Rows!Read, P!Read, Rows!NoMem, P!NoMem, Rows!ChainOk, P!ChainOk, Rows!Refuse, P!Refuse,
       Rows!Goto, P!Goto, Rows!Know, P!Know, Rows!disk, P!disk, Rows!Succeeds, P!Succeeds,
       Rows!NoIo, P!NoIo, Rows!JournalStates, P!JournalStates, Rows!Kept, P!Kept

LEMMA SamePreflight == Rows!Preflight(Runner) => P!Preflight(Runner)
BY DEF Rows!Preflight, P!Preflight, Rows!ReadNames, P!ReadNames, Rows!ReadFresh, P!ReadFresh,
       Rows!ReadLedger, P!ReadLedger, Rows!ReadCheckpoint, P!ReadCheckpoint, Rows!ReadJournal,
       P!ReadJournal, Rows!ReadTree, P!ReadTree, Rows!StateFiles, P!StateFiles, Rows!Read, P!Read,
       Rows!NoMem, P!NoMem, Rows!Predecessor, P!Predecessor, Rows!JournalFits, P!JournalFits,
       Rows!Kept, P!Kept, Rows!AllParts, P!AllParts, Rows!Prefixes, P!Prefixes, Rows!Goto, P!Goto,
       Rows!Know, P!Know, Rows!disk, P!disk, Rows!Refuse, P!Refuse, Rows!Ledger, P!Ledger,
       Rows!NoIo, P!NoIo

LEMMA SamePublish == Rows!Publish(Runner) => P!Publish(Runner)
BY DEF Rows!Publish, P!Publish, Rows!MakeRows, P!MakeRows, Rows!MakeStaging, P!MakeStaging,
       Rows!InitialLedger, P!InitialLedger, Rows!InitialCheckpoint, P!InitialCheckpoint,
       Rows!RepairCheckpoint, P!RepairCheckpoint, Rows!NextRow, P!NextRow, Rows!Manifest,
       P!Manifest, Rows!Receipt, P!Receipt, Rows!MakeDir, P!MakeDir, Rows!Write, P!Write,
       Rows!Ledger, P!Ledger, Rows!Read, P!Read, Rows!Journal, P!Journal, Rows!Refuse, P!Refuse,
       Rows!FinalLedger, P!FinalLedger, Rows!CreateOrEqual, P!CreateOrEqual, Rows!Tree, P!Tree,
       Rows!Goto, P!Goto, Rows!disk, P!disk, Rows!Know, P!Know, Rows!NoMem, P!NoMem, Rows!NoIo,
       P!NoIo

LEMMA SameTransaction == Rows!RowTransaction(Runner) => P!RowTransaction(Runner)
BY DEF Rows!RowTransaction, P!RowTransaction, Rows!Resume, P!Resume, Rows!ClearStage, P!ClearStage,
       Rows!MakeStage, P!MakeStage, Rows!WritePart, P!WritePart, Rows!Seal, P!Seal,
       Rows!JournalStaged, P!JournalStaged, Rows!Commit, P!Commit, Rows!Rename, P!Rename,
       Rows!JournalCommitted, P!JournalCommitted, Rows!CloseLedger, P!CloseLedger,
       Rows!JournalLedger, P!JournalLedger, Rows!CloseCheckpoint, P!CloseCheckpoint,
       Rows!JournalCheckpoint, P!JournalCheckpoint, Rows!DropJournal, P!DropJournal,
       Rows!UnlinkJournal, P!UnlinkJournal, Rows!Read, P!Read, Rows!Kept, P!Kept, Rows!Refuse,
       P!Refuse, Rows!AllParts, P!AllParts, Rows!Goto, P!Goto, Rows!ClearOrder, P!ClearOrder,
       Rows!Parts, P!Parts, Rows!Write, P!Write, Rows!Advance, P!Advance, Rows!Know, P!Know,
       Rows!NoMem, P!NoMem, Rows!LedgerAt, P!LedgerAt, Rows!disk, P!disk, Rows!NoIo, P!NoIo,
       Rows!FinalLedger, P!FinalLedger, Rows!Ledger, P!Ledger

LEMMA SameDurableWrite == Rows!DurableWrite(Runner) => P!DurableWrite(Runner)
BY DEF Rows!DurableWrite, P!DurableWrite, Rows!IoCreate, P!IoCreate, Rows!IoFlush, P!IoFlush,
       Rows!IoPublish, P!IoPublish, Rows!IoCompare, P!IoCompare, Rows!IoSwap, P!IoSwap,
       Rows!IoAside, P!IoAside, Rows!IoFill, P!IoFill, Rows!IoDrop, P!IoDrop, Rows!Present,
       P!Present, Rows!StateFiles, P!StateFiles, Rows!Temp, P!Temp, Rows!Step, P!Step, Rows!Refuse,
       P!Refuse, Rows!Exchange, P!Exchange, Rows!Put, P!Put, Rows!Finish, P!Finish, Rows!disk,
       P!disk, Rows!Goto, P!Goto, Rows!Know, P!Know, Rows!NoMem, P!NoMem, Rows!NoIo, P!NoIo

LEMMA SameWork == Rows!Work(Runner) => P!Work(Runner)
BY SameRecover, SamePreflight, SamePublish, SameTransaction, SameDurableWrite
   DEF Rows!Work, P!Work

LEMMA SameInit == Rows!Init => P!Init
BY DEF Rows!Init, P!Init, Rows!StateFiles, P!StateFiles, Rows!NoMem, P!NoMem, Rows!NoIo, P!NoIo

LEMMA SameProperties ==
    /\ P!TypeOK => Rows!TypeOK
    /\ P!LedgerOnDisk = Rows!LedgerOnDisk
    /\ P!RowsBeforeLedger => RowsBeforeLedger
    /\ P!OneRowAhead => OneRowAhead
    /\ P!ReceiptSealsTree => ReceiptSealsTree
BY DEF RowsBeforeLedger, OneRowAhead, ReceiptSealsTree,
       Rows!TypeOK, P!TypeOK, Rows!RowsBeforeLedger, P!RowsBeforeLedger, Rows!OneRowAhead,
       P!OneRowAhead, Rows!ReceiptSealsTree, P!ReceiptSealsTree, Rows!StateFiles, P!StateFiles,
       Rows!AllParts, P!AllParts, Rows!LedgerOnDisk, P!LedgerOnDisk, Rows!Residue, P!Residue,
       Rows!FinalLedger, P!FinalLedger, Rows!Tree, P!Tree, Rows!Ledger, P!Ledger

----------------------------------------------------------------------------
(* The row publisher within the acquisition.                               *)

RowInv == P!CoverInv /\ P!TypeInv /\ P!AloneInv

LEMMA TheRunner == Runner \in Publishers /\ \A q \in Publishers : q = Runner
BY DEF Publishers

\* Steps of the bootstrap count deaths, and keep the backend.
LEMMA BootstrapMode ==
    ASSUME BootstrapStep \/ SourceStep PROVE mode' = mode
BY DEF BootstrapStep, SourceStep, SourceChanges, BootstrapCrash, Begin, Bootstrap, RefuseBootstrap,
       Reserve, CreateStaging, MarkEmpty, ResetSnapshot, CreateSnapshot, Backup, CloseSnapshot,
       StartCopy, FinishCopy, Scan, CreateArtifact, PublishArtifact, CloseStage, Promote,
       MarkPromoted, HandOver

LEMMA RowsIdle ==
    ASSUME RowInv, UNCHANGED rvars, mode' = mode, crashes' \in 0..MaxCrashes
    PROVE  RowInv'
<1>1. UNCHANGED <<plan, file, dirs, stage, rows, temps, pc, mem, io>>
  BY DEF rvars
<1>2. P!CoverInv'
  BY <1>1, RowsAssumed, P!IdleStep DEF RowInv
<1>3. P!AloneInv'
  BY <1>1, RowsAssumed, P!IdleStays DEF RowInv
<1>4. P!TypeInv'
  BY <1>1 DEF RowInv, P!TypeInv, P!DiskTyped, P!Placed, P!Kept
<1> QED
  BY <1>2, <1>3, <1>4 DEF RowInv

LEMMA RowsGoOn ==
    ASSUME RowInv, P!Start(Runner) \/ P!Crash(Runner) \/ P!Work(Runner)
    PROVE  RowInv' /\ P!Next
<1>1. P!Next
  BY TheRunner DEF P!Next
<1>2. P!CoverInv' /\ P!TypeInv' /\ P!AloneInv'
  BY <1>1, RowsAssumed, P!CoverNext, P!TypeNext, P!AloneNext DEF RowInv
<1> QED
  BY <1>1, <1>2 DEF RowInv

LEMMA RowActions ==
    /\ StartRows => P!Start(Runner)
    /\ RowStep => P!Work(Runner)
    /\ RowCrash => P!Crash(Runner)
BY SameStart, SameWork, SameCrash DEF StartRows, RowStep, RowCrash

\* A step of the acquisition is one of the row publisher or leaves it alone.
LEMMA RowLayerSteps ==
    ASSUME RunInv, RunInv', RowInv, [Next]_runvars
    PROVE  \/ UNCHANGED rvars /\ mode' = mode /\ crashes' \in 0..MaxCrashes
           \/ P!Start(Runner) \/ P!Crash(Runner) \/ P!Work(Runner)
<1>1. crashes' \in 0..MaxCrashes
  BY DEF RunInv, IInv, TypeOK
<1>2. CASE UNCHANGED runvars
  BY <1>1, <1>2 DEF runvars, bvars
<1>3. CASE BootstrapStep \/ SourceStep
  BY <1>1, <1>3, BootstrapMode DEF BootstrapStep, SourceStep
<1> QED
  BY <1>2, <1>3, RowActions DEF Next

LEMMA RowsInit == Init => RowInv
<1> SUFFICES ASSUME Init PROVE RowInv
  OBVIOUS
<1>1. P!Init
  BY SameInit DEF Init
<1> QED
  BY <1>1, RowsAssumed, P!CoverInit, P!TypeInit, P!AloneInit DEF RowInv

LEMMA RowsNext == RunInv /\ RunInv' /\ RowInv /\ [Next]_runvars => RowInv'
BY RowLayerSteps, RowsIdle, RowsGoOn

LEMMA RowsInvariant == Spec => []RowInv
BY Invariant, RowsInit, RowsNext, PTL DEF Spec

----------------------------------------------------------------------------
\* RunTypeOK: bootstrap and row layer are typed.
THEOREM RunTypeCorrect == Spec => []RunTypeOK
<1>1. RunInv /\ RowInv => RunTypeOK
  BY RowsAssumed, P!TypesAre, SameProperties DEF RunInv, IInv, RowInv, RunTypeOK
<1> QED
  BY <1>1, Invariant, RowsInvariant, PTL

\* RowsBeforeLedger: whichever step of bootstrap or publication a process dies
\* in, and however often, a row the ledger has closed is committed in full.
THEOREM ClosedRowsAreCommitted == Spec => []RowsBeforeLedger
<1>1. RowInv => RowsBeforeLedger
  BY RowsAssumed, P!CoverOnDisk, SameProperties DEF RowInv
<1> QED
  BY <1>1, RowsInvariant, PTL

\* OneRowAhead: at most the row of the row journal is ahead of the ledger.
THEOREM RowsStayWithinReach == Spec => []OneRowAhead
<1>1. RowInv => OneRowAhead
  BY RowsAssumed, P!OneAhead, SameProperties DEF RowInv
<1> QED
  BY <1>1, RowsInvariant, PTL

\* ReceiptSealsTree: a receipt is there only over the tree it names.
THEOREM ReceiptNamesTree == Spec => []ReceiptSealsTree
<1>1. RowInv => ReceiptSealsTree
  BY RowsAssumed, P!SealsTree, SameProperties DEF RowInv
<1> QED
  BY <1>1, RowsInvariant, PTL

\* LedgerNeverGoesBack: neither a restart, nor the bootstrap that comes before
\* it, nor any step of a publication takes a closed row from the ledger.
THEOREM LedgerGrows == Spec => LedgerNeverGoesBack
<1>1. ASSUME RunInv, RunInv', RowInv, [Next]_runvars
      PROVE  Rows!LedgerOnDisk.closed <= Rows!LedgerOnDisk'.closed
  <2>1. P!LedgerOnDisk = Rows!LedgerOnDisk /\ P!LedgerOnDisk' = Rows!LedgerOnDisk'
    BY DEF P!LedgerOnDisk, Rows!LedgerOnDisk, P!Ledger, Rows!Ledger
  <2>2. CASE UNCHANGED rvars
    <3>1. P!LedgerOnDisk' = P!LedgerOnDisk
      BY <2>2 DEF rvars, P!LedgerOnDisk, P!Ledger
    <3>2. P!LedgerOnDisk.closed \in Nat
      BY <1>1, RowsAssumed, P!LedgerType DEF RowInv
    <3> QED
      BY <2>1, <3>1, <3>2
  <2>3. CASE P!Start(Runner) \/ P!Crash(Runner) \/ P!Work(Runner)
    <3>1. [P!Next]_P!vars
      BY <1>1, <2>3, RowsGoOn
    <3> QED
      BY <1>1, <2>1, <3>1, RowsAssumed, P!LedgerForward DEF RowInv
  <2> QED
    BY <1>1, <2>2, <2>3, RowLayerSteps
<1>2. RunInv /\ RunInv' /\ RowInv /\ [Next]_runvars
        => [Rows!LedgerOnDisk.closed <= Rows!LedgerOnDisk'.closed]_Rows!vars
  BY <1>1
<1> QED
  BY <1>2, Invariant, RowsInvariant, PTL DEF Spec, LedgerNeverGoesBack, Rows!LedgerNeverGoesBack

\* RowsRefusedOverResidue: the inventory of a restarted publisher accepts what a
\* death left between any two writes; only a temporary stands in its way.
THEOREM OnlyResidueRefuses == Spec => []RowsRefusedOverResidue
<1>1. Init => RowsRefusedOverResidue
  BY TheRunner DEF Init, Rows!Init, RowsRefusedOverResidue
<1>2. ASSUME RunInv, RunInv', RowInv, RowsRefusedOverResidue, [Next]_runvars
      PROVE  RowsRefusedOverResidue'
  <2> USE <1>2 DEF RowsRefusedOverResidue
  <2>1. CASE UNCHANGED rvars
    BY <2>1 DEF rvars
  <2>2. CASE P!Start(Runner)
    <3>1. PICK l \in {"names", "recover"} : pc' = [pc EXCEPT ![Runner] = l]
      BY <2>2 DEF P!Start, P!Goto
    <3> QED
      BY <3>1, Moves DEF RunInv
  <2>3. CASE P!Crash(Runner)
    BY <2>3, Moves DEF RunInv, P!Crash, P!Goto
  <2>4. CASE P!Work(Runner)
    <3>1. P!Here(Runner)
      BY <2>4, RowsAssumed, TheRunner, P!WorkActive, P!AloneHere DEF RowInv
    <3>2. P!After(Runner)
      BY <2>4, <3>1, RowsAssumed, P!WorkAlone
    <3> QED
      BY <3>2 DEF P!After
  <2> QED
    BY <2>1, <2>2, <2>3, <2>4, RowLayerSteps
<1> QED
  BY <1>1, <1>2, Invariant, RowsInvariant, PTL DEF Spec

----------------------------------------------------------------------------
(* The run directory behind its receipt.                                   *)

\* Rows go into a run directory whose journal has nothing left to record.
Promoted ==
    /\ final # None /\ journal # None
    /\ journal.state \in {"promoted", "approved"}

SealInv ==
    /\ bpc = "handed" => Promoted
    /\ file["receipt"] # None => Promoted

LEMMA PromotedStays ==
    ASSUME IInv, Promoted, Bootstrap PROVE UNCHANGED <<journal, staging, final>>
<1> USE DEF Promoted
<1>1. staging = None /\ EmptyTree # None
  BY EmptyTreeType DEF IInv, FinalInv
<1>2. bpc \notin {"empty", "backup", "copied", "publish"} /\ ~ Building
  BY DEF IInv, SnapshotAtWork, BuildAtWork, Building
<1>3. ~ CreateSnapshot /\ ~ Backup /\ ~ CloseSnapshot /\ ~ PublishArtifact
  BY <1>2 DEF CreateSnapshot, Backup, CloseSnapshot, PublishArtifact
<1>4. ~ CreateArtifact /\ ~ CloseStage /\ ~ Promote
  BY <1>2 DEF CreateArtifact, CloseStage, Promote
<1>5. ~ Reserve /\ ~ CreateStaging /\ ~ MarkEmpty /\ ~ ResetSnapshot /\ ~ StartCopy /\ ~ FinishCopy
      /\ ~ MarkPromoted
  BY <1>1 DEF Reserve, CreateStaging, MarkEmpty, ResetSnapshot, StartCopy, FinishCopy, MarkPromoted,
     At
<1> QED
  BY <1>3, <1>4, <1>5 DEF Bootstrap, RefuseBootstrap, Scan, HandOver, disk

\* The hand-over is the only way to publish_planned_rows.
LEMMA HandedOver ==
    ASSUME IInv, Bootstrap, bpc' = "handed" PROVE Promoted'
<1>1. HandOver
  BY DEF Bootstrap, RefuseBootstrap, Reserve, CreateStaging, MarkEmpty, ResetSnapshot,
     CreateSnapshot, Backup, CloseSnapshot, StartCopy, FinishCopy, Scan, CreateArtifact,
     PublishArtifact, CloseStage, Promote, MarkPromoted, Building, At
<1> QED
  BY <1>1 DEF HandOver, disk, Promoted, IInv, JournalInv

LEMMA SealNext ==
    ASSUME RunInv, RowInv, SealInv, [Next]_runvars PROVE SealInv'
<1> USE DEF SealInv
<1>1. CASE UNCHANGED runvars
  BY <1>1 DEF runvars, bvars, rvars, Promoted
<1>2. CASE BootstrapStep
  <2>1. CASE Bootstrap
    <3>1. Promoted => Promoted'
      BY <2>1, PromotedStays DEF RunInv, Promoted
    <3> QED
      BY <1>2, <2>1, <3>1, HandedOver DEF BootstrapStep, rvars, RunInv
  <2>2. CASE BootstrapCrash \/ \E o \in Options : Begin(o)
    BY <1>2, <2>2 DEF BootstrapStep, rvars, BootstrapCrash, Begin, disk, Promoted
  <2> QED
    BY <1>2, <2>1, <2>2 DEF BootstrapStep
<1>3. CASE SourceStep
  BY <1>3 DEF SourceStep, SourceChanges, rvars, disk, Promoted
<1>4. CASE StartRows
  BY <1>4 DEF StartRows, Rows!Start, Rows!disk, bvars, Promoted
<1>5. CASE RowStep
  BY <1>5 DEF RowStep, Promoted, RunInv
<1>6. CASE RowCrash
  BY <1>6 DEF RowCrash, Rows!Crash, Rows!disk, Promoted
<1> QED
  BY <1>1, <1>2, <1>3, <1>4, <1>5, <1>6 DEF Next

LEMMA SealInvariant == Spec => []SealInv
<1>1. Init => SealInv
  BY DEF Init, BInit, Rows!Init, Rows!StateFiles, SealInv
<1> QED
  BY <1>1, SealNext, Invariant, RowsInvariant, PTL DEF Spec

\* SealedRunIsClosed: a run that is started again behind its receipt, by
\* whichever options and however often it dies, changes neither the rows and
\* state files nor journal, staging and run directory.
THEOREM ReceiptClosesRun == Spec => SealedRunIsClosed
<1>1. ASSUME RunInv, RunInv', RowInv, SealInv, [Next]_runvars, file["receipt"] # None
      PROVE  UNCHANGED <<journal, staging, final, file, dirs, stage, rows, temps>>
  <2> USE <1>1
  <2>1. UNCHANGED <<file, dirs, stage, rows, temps>>
    <3>1. CASE UNCHANGED rvars
      BY <3>1 DEF rvars
    <3>2. CASE P!Start(Runner) \/ P!Crash(Runner) \/ P!Work(Runner)
      <4>1. [P!Next]_P!vars
        BY <3>2, RowsGoOn
      <4>2. UNCHANGED P!disk
        BY <4>1, RowsAssumed, P!SealedUntouched DEF RowInv
      <4> QED
        BY <4>2 DEF P!disk
    <3> QED
      BY <3>1, <3>2, RowLayerSteps
  <2>2. UNCHANGED <<journal, staging, final>>
    <3>1. CASE UNCHANGED runvars
      BY <3>1 DEF runvars, bvars
    <3>2. CASE BootstrapStep
      <4>1. CASE Bootstrap
        BY <4>1, PromotedStays DEF SealInv, RunInv
      <4> QED
        BY <3>2, <4>1 DEF BootstrapStep, BootstrapCrash, Begin, disk
    <3>3. CASE SourceStep
      BY <3>3 DEF SourceStep, SourceChanges, disk
    <3>4. CASE StartRows \/ RowStep \/ RowCrash
      BY <3>4 DEF StartRows, RowStep, RowCrash, bvars
    <3> QED
      BY <3>1, <3>2, <3>3, <3>4 DEF Next
  <2> QED
    BY <2>1, <2>2
<1>2. RunInv /\ RunInv' /\ RowInv /\ SealInv /\ [Next]_runvars
        => [file["receipt"] # None =>
              UNCHANGED <<journal, staging, final, file, dirs, stage, rows, temps>>]_runvars
  BY <1>1
<1> QED
  BY <1>2, Invariant, RowsInvariant, SealInvariant, PTL DEF Spec, SealedRunIsClosed

----------------------------------------------------------------------------
(* What a death of a bootstrap leaves behind.                              *)

\* Staging holds the journal's snapshot and j to k artifacts, and what may be
\* left of the next one.
Filled(j, k) ==
    /\ staging.db = journal.snap
    /\ staging.scratch \subseteq {"temp"}
    /\ Len(staging.closed) \in j..k

Copying == staging = [EmptyTree EXCEPT !.scratch = {"copying"}]

\* The staging directory a journal in state s stands for.
LeftBy(s) ==
    CASE s = "approved" -> staging = EmptyTree \/ Copying \/ Filled(0, ArtifactCount)
      [] s \in {"reserved", "staging_created"} -> staging = EmptyTree
      [] s = "snapshot_in_progress" -> PartialSnapshot(staging)
      [] s = "snapshot_closed" -> Filled(0, 0)
      [] s = "universe_closed" -> Filled(0, Dependencies)
      [] s = "options_maps_closed" -> Filled(Dependencies, ArtifactCount)
      [] OTHER -> Filled(ArtifactCount, ArtifactCount)

StagedInv ==
    (journal # None /\ final = None) =>
        /\ journal.state # "promoted"
        /\ journal.state \notin {"reserved", "approved"} => staging # None
        /\ staging # None => LeftBy(journal.state)

BuildingInv ==
    /\ bpc = "copied" => staging.scratch = {}
    /\ bpc = "publish" => Len(staging.closed) < Writable

LeftInv == StagedInv /\ BuildingInv

LEMMA LeftStays ==
    ASSUME LeftInv, UNCHANGED <<journal, staging, final>>, bpc' \notin {"copied", "publish"}
    PROVE  LeftInv'
BY DEF LeftInv, StagedInv, BuildingInv, LeftBy, Filled, Copying, PartialSnapshot

\* A step that leaves staging in the state the journal then stands for.
LEMMA LeftSet ==
    ASSUME LeftInv, staging' # None, final' = None,
           journal' # None, journal'.state # "promoted", LeftBy(journal.state)',
           bpc' \notin {"copied", "publish"}
    PROVE  LeftInv'
BY DEF LeftInv, StagedInv, BuildingInv

LEMMA ReserveLeft == ASSUME IInv, LeftInv, Reserve PROVE LeftInv'
<1>1. staging' = None /\ final' = None /\ journal'.state \in {"reserved", "approved"}
  BY DEF IInv, JournalInv, Reserve
<1>2. bpc' = "resume"
  BY DEF Reserve
<1> QED
  BY <1>1, <1>2 DEF LeftInv, StagedInv, BuildingInv

LEMMA CreateStagingLeft == ASSUME IInv, LeftInv, CreateStaging PROVE LeftInv'
<1>1. /\ staging' = EmptyTree /\ journal' = journal /\ final' = None /\ bpc' = "resume"
      /\ journal # None /\ journal.state \in {"reserved", "approved"}
  BY DEF CreateStaging, At
<1>2. LeftBy(journal.state)'
  BY <1>1 DEF LeftBy
<1> QED
  BY <1>1, <1>2, LeftSet, EmptyTreeType

LEMMA MarkEmptyLeft == ASSUME IInv, LeftInv, MarkEmpty PROVE LeftInv'
<1>1. journal # None /\ staging = EmptyTree /\ final = None
      /\ journal.state \in {"reserved", "staging_created"}
  BY DEF MarkEmpty, At, Recognized, IInv, JournalInv
<1>2. journal'.state \in {"staging_created", "snapshot_in_progress"} /\ journal' # None
  BY <1>1, MarkType DEF MarkEmpty, IInv
<1>3. UNCHANGED <<staging, final>> /\ bpc' = "resume"
  BY DEF MarkEmpty, At
<1>4. LeftBy(journal.state)'
  BY <1>1, <1>2, <1>3, EmptyTreeType DEF LeftBy, PartialSnapshot
<1> QED
  BY <1>1, <1>2, <1>3, <1>4, LeftSet, EmptyTreeType

\* The steps over a partial snapshot.
LEMMA PartialLeft ==
    ASSUME IInv, LeftInv, journal # None, journal.state = "snapshot_in_progress",
           UNCHANGED <<journal, final>>, final = None, staging' # None,
           staging'.scratch \subseteq {"sidecar"}, staging'.closed = <<>>,
           bpc' = "copied" => staging'.scratch = {}, bpc' # "publish"
    PROVE  LeftInv'
BY DEF LeftInv, StagedInv, BuildingInv, LeftBy, PartialSnapshot

LEMMA SnapshotLeft ==
    ASSUME IInv, LeftInv, ResetSnapshot \/ CreateSnapshot \/ Backup PROVE LeftInv'
<1>1. /\ journal # None /\ journal.state = "snapshot_in_progress" /\ final = None
      /\ staging # None
  BY DEF ResetSnapshot, CreateSnapshot, Backup, At, Recognized, IInv, SnapshotAtWork
<1>2. /\ staging \in Trees /\ staging.scratch \subseteq {"sidecar"} /\ staging.closed = <<>>
  BY <1>1 DEF LeftInv, StagedInv, LeftBy, PartialSnapshot, IInv, TypeOK
<1>3. /\ staging' # None /\ staging'.scratch \subseteq {"sidecar"} /\ staging'.closed = <<>>
      /\ bpc' = "copied" => staging'.scratch = {}
      /\ bpc' # "publish" /\ UNCHANGED <<journal, final>>
  <2>1. CASE ResetSnapshot
    <3>1. staging' = [staging EXCEPT !.scratch = {}] \/ staging' = EmptyTree
      BY <2>1 DEF ResetSnapshot
    <3> QED
      BY <1>2, <2>1, <3>1, EmptyTreeType, BootstrapAssumption DEF ResetSnapshot, Trees
  <2>2. CASE CreateSnapshot
    BY <1>2, <2>2, CreateSnapshotStep, BootstrapAssumption DEF CreateSnapshot, Trees
  <2>3. CASE Backup
    <3>1. CASE staging.scratch = {}
      BY <1>2, <2>3, <3>1, BootstrapAssumption DEF Backup, Trees
    <3>2. CASE staging.scratch # {}
      <4>1. staging' = [staging EXCEPT !.db = source, !.scratch = {}]
        BY <2>3, <3>2 DEF Backup
      <4>2. source \in Versions
        BY DEF IInv, TypeOK
      <4> QED
        BY <1>2, <2>3, <4>1, <4>2, BootstrapAssumption DEF Backup, Trees
    <3> QED
      BY <3>1, <3>2
  <2> QED
    BY <2>1, <2>2, <2>3
<1> QED
  BY <1>1, <1>3, PartialLeft

LEMMA CloseSnapshotLeft == ASSUME IInv, LeftInv, CloseSnapshot PROVE LeftInv'
<1>1. /\ journal # None /\ staging # None /\ final = None /\ staging.closed = <<>>
      /\ staging.db \in Versions
  BY DEF CloseSnapshot, IInv, SnapshotAtWork
<1>2. journal' # None /\ journal'.state = "snapshot_closed" /\ journal'.snap = staging.db
  BY <1>1, MarkType DEF CloseSnapshot, Snapped, IInv
<1>3. staging.scratch = {} /\ UNCHANGED <<staging, final>> /\ bpc' = "resume"
  BY DEF CloseSnapshot, LeftInv, BuildingInv
<1>4. LeftBy(journal.state)'
  BY <1>1, <1>2, <1>3 DEF LeftBy, Filled
<1> QED
  BY <1>1, <1>2, <1>3, <1>4, LeftSet

LEMMA CopyLeft == ASSUME IInv, LeftInv, StartCopy \/ FinishCopy PROVE LeftInv'
<1>1. /\ journal # None /\ journal.state = "approved" /\ staging # None /\ final = None
      /\ UNCHANGED <<journal, final, bpc>> /\ bpc = "resume"
  BY EmptyTreeType DEF StartCopy, FinishCopy, At, IInv, FinalInv
<1>2. staging' # None /\ LeftBy("approved")'
  <2>1. CASE StartCopy
    <3>1. staging' = [EmptyTree EXCEPT !.scratch = {"copying"}]
      BY <2>1 DEF StartCopy
    <3>2. staging' # None
      BY <3>1, EmptyTreeType, BootstrapAssumption DEF Trees
    <3> QED
      BY <3>1, <3>2 DEF LeftBy, Copying, EmptyTree
  <2>2. CASE FinishCopy
    <3>1. /\ staging \in Trees /\ staging.scratch = {"copying"}
          /\ staging' = [staging EXCEPT !.scratch = {}, !.db = journal.snap]
      BY <1>1, <2>2 DEF FinishCopy, IInv, TypeOK
    <3>2. Copying
      BY <1>1, <3>1, EmptyTreeType DEF LeftInv, StagedInv, LeftBy, Filled
    <3>3. staging.closed = <<>> /\ Len(staging.closed) = 0
      BY <3>2, EmptyTreeType DEF Copying, Trees
    <3>4. journal.snap \in Versions
      BY <1>1, BootstrapAssumption DEF IInv, JournalInv, Live, Snapped, Versions
    <3>5. staging' \in Trees
      BY <3>1, <3>4 DEF Trees
    <3>6. Filled(0, ArtifactCount)'
      BY <1>1, <3>1, <3>3, BootstrapAssumption DEF Filled, Trees
    <3> QED
      BY <3>5, <3>6, BootstrapAssumption DEF LeftBy
  <2> QED
    BY <2>1, <2>2, <1>1
<1>3. LeftBy(journal.state)'
  BY <1>1, <1>2
<1> QED
  BY <1>1, <1>2, <1>3, LeftSet

\* The process that builds the artifacts stands over a tree it has verified.
LEMMA Built ==
    ASSUME IInv, LeftInv, bpc = "scanned", final = None
    PROVE  /\ journal # None /\ staging # None /\ staging \in Trees
           /\ staging.db = journal.snap /\ staging.scratch = {}
           /\ Len(staging.closed) \in 0..ArtifactCount
           /\ LeftBy(journal.state) /\ journal.state \in Scanning \ {"promoted"}
           /\ journal.state = "approved" => Filled(0, ArtifactCount)
<1>1. /\ journal # None /\ staging # None /\ staging \in Trees /\ staging.db = journal.snap
      /\ staging.scratch = {} /\ journal.snap # None /\ journal.state \in Scanning
      /\ Len(staging.closed) <= ArtifactCount
  BY DEF IInv, BuildAtWork, ClosureAtWork, TypeOK
<1>2. Len(staging.closed) \in 0..ArtifactCount
  BY <1>1, BootstrapAssumption DEF Trees
<1>3. LeftBy(journal.state) /\ journal.state # "promoted"
  BY <1>1 DEF LeftInv, StagedInv
<1>4. staging # EmptyTree /\ ~ Copying
  BY <1>1, EmptyTreeType DEF Copying, Trees
<1> QED
  BY <1>1, <1>2, <1>3, <1>4 DEF LeftBy

LEMMA CreateArtifactLeft == ASSUME IInv, LeftInv, CreateArtifact PROVE LeftInv'
<1>1. bpc = "scanned" /\ final = None /\ Len(staging.closed) < Writable
  BY DEF CreateArtifact, Building, Unfinished
<1>2. /\ journal # None /\ staging \in Trees /\ Len(staging.closed) \in 0..ArtifactCount
      /\ LeftBy(journal.state) /\ journal.state # "promoted"
      /\ journal.state = "approved" => Filled(0, ArtifactCount)
  BY <1>1, Built
<1>3. /\ staging' = [staging EXCEPT !.scratch = {"temp"}] /\ bpc' = "publish"
      /\ UNCHANGED <<journal, final>>
  BY DEF CreateArtifact
<1>4. /\ staging' # None /\ staging'.db = staging.db /\ staging'.closed = staging.closed
      /\ staging'.scratch = {"temp"}
  BY <1>2, <1>3, BootstrapAssumption DEF Trees
<1>5. journal.state \in {"universe_closed", "options_maps_closed", "approved"}
  BY <1>1, <1>2, WritableBound, BootstrapAssumption
<1>6. \A j, k : Filled(j, k) => Filled(j, k)'
  BY <1>3, <1>4 DEF Filled
<1>7. LeftBy(journal.state)'
  BY <1>2, <1>3, <1>5, <1>6 DEF LeftBy
<1>8. Len(staging'.closed) < Writable'
  BY <1>1, <1>3, <1>4 DEF Writable
<1> QED
  BY <1>1, <1>2, <1>3, <1>4, <1>7, <1>8 DEF LeftInv, StagedInv, BuildingInv

LEMMA PublishArtifactLeft == ASSUME IInv, LeftInv, PublishArtifact PROVE LeftInv'
<1>1. /\ bpc = "publish" /\ final = None /\ staging # None /\ staging \in Trees
      /\ staging.db = journal.snap /\ Len(staging.closed) < Writable
      /\ journal.state \in {"universe_closed", "options_maps_closed", "approved"}
      /\ journal # None /\ closure \in Contents \cup {None} /\ journal.snap # None
      /\ closure = Closure(journal.snap, journal.opt)
  BY DEF PublishArtifact, IInv, BuildAtWork, ClosureAtWork, TypeOK, LeftInv, BuildingInv
<1>2. closure \in Contents
  BY <1>1, JournalFields DEF Closure, Contents, IInv
<1>3. /\ staging' = [staging EXCEPT !.scratch = {}, !.closed = Append(@, closure)]
      /\ bpc' = "scanned" /\ UNCHANGED <<journal, final>>
  BY DEF PublishArtifact
<1>4. /\ Append(staging.closed, closure) \in Seq(Contents)
      /\ Len(Append(staging.closed, closure)) = Len(staging.closed) + 1
      /\ Len(staging.closed) \in Nat
  BY <1>1, <1>2 DEF Trees
<1>5. /\ staging' # None /\ staging'.db = staging.db /\ staging'.scratch = {}
      /\ Len(staging'.closed) = Len(staging.closed) + 1
  BY <1>1, <1>3, <1>4, BootstrapAssumption DEF Trees
<1>6. Len(staging'.closed) <= Writable /\ Writable <= ArtifactCount
  BY <1>1, <1>4, <1>5, WritableBound
<1>7. ASSUME NEW j \in Nat, NEW k \in Nat, Filled(j, k), Writable <= k PROVE Filled(j, k)'
  BY <1>1, <1>3, <1>4, <1>5, <1>6, <1>7, WritableBound DEF Filled
<1>8. staging.db # None /\ LeftBy(journal.state)
  BY <1>1 DEF LeftInv, StagedInv
<1>9. staging # EmptyTree /\ ~ Copying
  BY <1>8, EmptyTreeType DEF Copying, Trees
<1>10. LeftBy(journal.state)'
  <2>1. CASE journal.state = "approved"
    BY <1>3, <1>6, <1>7, <1>8, <1>9, <2>1, BootstrapAssumption DEF LeftBy
  <2>2. CASE journal.state = "universe_closed"
    <3>1. Writable = Dependencies /\ Dependencies \in Nat
      BY <2>2, BootstrapAssumption DEF Writable, Dependencies
    <3> QED
      BY <1>3, <1>7, <1>8, <2>2, <3>1 DEF LeftBy
  <2>3. CASE journal.state = "options_maps_closed"
    <3>1. Dependencies \in Nat /\ ArtifactCount \in Nat
      BY BootstrapAssumption DEF Dependencies
    <3> QED
      BY <1>3, <1>6, <1>7, <1>8, <2>3, <3>1 DEF LeftBy
  <2> QED
    BY <1>1, <2>1, <2>2, <2>3
<1> QED
  BY <1>1, <1>3, <1>5, <1>10, LeftSet

LEMMA CloseStageLeft == ASSUME IInv, LeftInv, CloseStage PROVE LeftInv'
<1>1. /\ bpc = "scanned" /\ final = None /\ UNCHANGED <<staging, final, bpc>>
      /\ journal.state \in {"snapshot_closed", "universe_closed", "options_maps_closed",
                            "owner_closed"}
      /\ Mark(LiveStates[Rank(journal.state) + 1], journal.snap)
      /\ ~ (Len(staging.closed) < Writable)
  BY DEF CloseStage, Building, Unfinished
<1>2. /\ journal # None /\ staging # None /\ staging \in Trees
      /\ staging.db = journal.snap /\ staging.scratch = {}
      /\ Len(staging.closed) \in 0..ArtifactCount /\ LeftBy(journal.state)
  BY <1>1, Built
<1>3. PICK s \in Snapped :
        /\ Mark(s, journal.snap) /\ s = LiveStates[Rank(journal.state) + 1]
        /\ journal.state = "snapshot_closed" => s = "universe_closed"
        /\ journal.state = "universe_closed" => s = "options_maps_closed"
        /\ journal.state = "options_maps_closed" => s = "owner_closed"
        /\ journal.state = "owner_closed" => s = "ready_to_promote"
  BY <1>1, NextState DEF Snapped
<1>4. /\ journal' # None /\ journal'.state = s /\ journal'.snap = journal.snap
  BY <1>2, <1>3, MarkType, JournalFields DEF IInv
<1>5. \A j, k : Len(staging.closed) \in j..k => Filled(j, k)'
  BY <1>1, <1>2, <1>4 DEF Filled
<1>6. LeftBy(s)' /\ s # "promoted"
  <2>1. CASE journal.state = "snapshot_closed"
    <3>1. Len(staging.closed) \in 0..Dependencies
      BY <1>2, <2>1, BootstrapAssumption DEF LeftBy, Filled, Dependencies
    <3> QED
      BY <1>3, <1>5, <2>1, <3>1 DEF LeftBy
  <2>2. CASE journal.state = "universe_closed"
    <3>1. Writable = Dependencies
      BY <2>2 DEF Writable
    <3>2. Len(staging.closed) \in Dependencies..ArtifactCount
      BY <1>1, <1>2, <3>1, BootstrapAssumption DEF Dependencies
    <3> QED
      BY <1>3, <1>5, <2>2, <3>2 DEF LeftBy
  <2>3. CASE journal.state = "options_maps_closed"
    <3>1. Writable = ArtifactCount
      BY <2>3 DEF Writable
    <3>2. Len(staging.closed) \in ArtifactCount..ArtifactCount
      BY <1>1, <1>2, <3>1, BootstrapAssumption
    <3> QED
      BY <1>3, <1>5, <2>3, <3>2 DEF LeftBy
  <2>4. CASE journal.state = "owner_closed"
    <3>1. Len(staging.closed) \in ArtifactCount..ArtifactCount
      BY <1>2, <2>4 DEF LeftBy, Filled
    <3> QED
      BY <1>3, <1>5, <2>4, <3>1 DEF LeftBy
  <2> QED
    BY <1>1, <2>1, <2>2, <2>3, <2>4
<1>7. LeftBy(journal.state)'
  BY <1>4, <1>6
<1> QED
  BY <1>1, <1>2, <1>4, <1>6, <1>7, LeftSet

LEMMA PromotionLeft == ASSUME IInv, LeftInv, Promote \/ MarkPromoted PROVE LeftInv'
<1>1. final' # None /\ bpc' \notin {"copied", "publish"}
  <2>1. CASE Promote
    BY <2>1, Built DEF Promote, Building
  <2>2. CASE MarkPromoted
    BY <2>2 DEF MarkPromoted
  <2> QED
    BY <2>1, <2>2
<1> QED
  BY <1>1 DEF LeftInv, StagedInv, BuildingInv

LEMMA BootstrapLeft == ASSUME IInv, LeftInv, Bootstrap PROVE LeftInv'
<1>1. CASE RefuseBootstrap \/ Scan \/ HandOver
  BY <1>1, LeftStays DEF RefuseBootstrap, Scan, HandOver, disk
<1> QED
  BY <1>1, ReserveLeft, CreateStagingLeft, MarkEmptyLeft, SnapshotLeft, CloseSnapshotLeft, CopyLeft,
     CreateArtifactLeft, PublishArtifactLeft, CloseStageLeft, PromotionLeft DEF Bootstrap

----------------------------------------------------------------------------
(* Every state a death leaves is recognized.                               *)

LEMMA HoldsNow ==
    ASSUME IInv, NEW t \in Trees, FromJournal(t), opt = journal.opt,
           t.db = journal.snap, t.scratch = {}
    PROVE  Holds(t, Len(t.closed))
<1>1. t.closed \in Seq(Contents)
  BY DEF Trees
<1>2. \A i \in 1..Len(t.closed) : t.closed[i] = Closure(t.db, opt)
  BY DEF FromJournal
<1>3. t.closed = [i \in 1..Len(t.closed) |-> t.closed[i]]
  BY <1>1
<1>4. t.closed = [i \in 1..Len(t.closed) |-> Closure(t.db, opt)]
  BY <1>2, <1>3
<1> QED
  BY <1>4 DEF Holds

LEMMA FinalRecognized ==
    ASSUME IInv, journal # None, final # None, opt = journal.opt, ~ (Live /\ rowlayer)
    PROVE  Recognized
<1>1. /\ staging = None /\ final \in Trees /\ FromJournal(final)
      /\ final.scratch = {} /\ Len(final.closed) = ArtifactCount
      /\ final.db = journal.snap
  BY FinalSnapshot DEF IInv, TypeOK, FinalInv, TreeInv
<1>2. Holds(final, ArtifactCount)
  BY <1>1, HoldsNow
<1>3. CASE Live
  BY <1>1, <1>2, <1>3 DEF Recognized, IInv, FinalInv
<1>4. CASE ~ Live
  BY <1>1, <1>2, <1>4 DEF Recognized, IInv, JournalInv
<1> QED
  BY <1>3, <1>4

LEMMA StagingRecognized ==
    ASSUME IInv, LeftInv, journal # None, final = None, opt = journal.opt,
           staging # None => "temp" \notin staging.scratch
    PROVE  Recognized
<1>1. journal.state \in
        {"approved", "reserved", "staging_created", "snapshot_in_progress"} \cup Snapped
  BY JournalFields DEF IInv
<1>2. /\ journal.state # "promoted"
      /\ journal.state \notin {"reserved", "approved"} => staging # None
      /\ staging # None => LeftBy(journal.state)
  BY DEF LeftInv, StagedInv
<1>3. CASE staging = None
  BY <1>2, <1>3 DEF Recognized
<1>4. ASSUME staging # None, NEW j \in Nat, NEW k \in Nat, Filled(j, k)
      PROVE  \E n \in j..k : Holds(staging, n)
  <2>1. staging \in Trees /\ FromJournal(staging) /\ staging.db = journal.snap
        /\ staging.scratch = {} /\ Len(staging.closed) \in j..k
    BY <1>4 DEF IInv, TypeOK, TreeInv, Filled
  <2> QED
    BY <2>1, HoldsNow
<1>5. CASE staging # None
  <2> USE <1>5
  <2>1. LeftBy(journal.state)
    BY <1>2
  <2>2. Dependencies \in Nat /\ ArtifactCount \in Nat /\ 0 \in Nat
    BY BootstrapAssumption DEF Dependencies
  <2>3. CASE journal.state = "approved"
    <3>1. CASE Filled(0, ArtifactCount)
      BY <1>4, <2>2, <2>3, <3>1 DEF Recognized
    <3> QED
      BY <2>1, <2>3, <3>1 DEF LeftBy, Copying, Recognized
  <2>4. CASE journal.state \in {"reserved", "staging_created", "snapshot_in_progress"}
    BY <2>1, <2>4 DEF LeftBy, Recognized
  <2>5. CASE journal.state = "snapshot_closed"
    <3>1. Holds(staging, 0)
      BY <1>4, <2>1, <2>2, <2>5 DEF LeftBy
    <3> QED
      BY <2>5, <3>1 DEF Recognized
  <2>6. CASE journal.state = "universe_closed"
    <3>1. \E k \in 0..Dependencies : Holds(staging, k)
      BY <1>4, <2>1, <2>2, <2>6 DEF LeftBy
    <3> QED
      BY <2>6, <3>1 DEF Recognized
  <2>7. CASE journal.state = "options_maps_closed"
    <3>1. \E k \in Dependencies..ArtifactCount : Holds(staging, k)
      BY <1>4, <2>1, <2>2, <2>7 DEF LeftBy
    <3> QED
      BY <2>7, <3>1 DEF Recognized
  <2>8. CASE journal.state \in {"owner_closed", "ready_to_promote"}
    <3>1. PICK n \in ArtifactCount..ArtifactCount : Holds(staging, n)
      BY <1>4, <2>1, <2>2, <2>8 DEF LeftBy
    <3>2. n = ArtifactCount
      BY <2>2
    <3> QED
      BY <2>8, <3>1, <3>2 DEF Recognized
  <2> QED
    BY <1>1, <1>2, <2>3, <2>4, <2>5, <2>6, <2>7, <2>8 DEF Snapped
<1> QED
  BY <1>3, <1>5

LEMMA LeftNext == RunInv /\ LeftInv /\ [Next]_runvars => LeftInv'
<1> SUFFICES ASSUME RunInv, LeftInv, [Next]_runvars PROVE LeftInv'
  OBVIOUS
<1>1. CASE UNCHANGED runvars
  BY <1>1 DEF runvars, bvars, LeftInv, StagedInv, BuildingInv, LeftBy, Filled, Copying,
     PartialSnapshot, Writable
<1>2. CASE BootstrapStep
  <2>1. CASE BootstrapCrash \/ \E o \in Options : Begin(o)
    BY <2>1, LeftStays DEF BootstrapCrash, Begin, disk
  <2> QED
    BY <1>2, <2>1, BootstrapLeft DEF BootstrapStep, RunInv
<1>3. CASE SourceStep
  BY <1>3 DEF SourceStep, SourceChanges, disk, LeftInv, StagedInv, BuildingInv, LeftBy, Filled,
     Copying, PartialSnapshot, Writable
<1>4. CASE StartRows
  BY <1>4, LeftStays DEF StartRows, bvars
<1>5. CASE RowStep
  BY <1>5, LeftStays DEF RowStep, RunInv
<1>6. CASE RowCrash
  BY <1>6, LeftStays DEF RowCrash
<1> QED
  BY <1>1, <1>2, <1>3, <1>4, <1>5, <1>6 DEF Next

LEMMA LeftInvariant == Spec => []LeftInv
<1>1. Init => LeftInv
  BY DEF Init, BInit, LeftInv, StagedInv, BuildingInv
<1> QED
  BY <1>1, LeftNext, Invariant, PTL DEF Spec

\* RefusedForCause: whatever state a death leaves, between any two file-system
\* operations of the bootstrap, a restart with the options of the run takes it
\* up; it is refused over a temporary and, live, over names of the row layer only.
THEOREM OnlyForCause == Spec => []RefusedForCause
<1>1. Init => RefusedForCause
  BY DEF Init, BInit, RefusedForCause
<1>2. ASSUME RunInv, LeftInv, RefusedForCause, [Next]_runvars PROVE RefusedForCause'
  <2> USE <1>2
  <2>1. CASE UNCHANGED <<journal, staging, opt, mode, rowlayer, temps, bpc>>
    BY <2>1 DEF RefusedForCause, Residue, Live
  <2>2. CASE bpc' # "refused"
    BY <2>2 DEF RefusedForCause
  <2>3. CASE BootstrapStep /\ bpc' = "refused"
    <3>1. RefuseBootstrap /\ UNCHANGED <<journal, staging, opt, mode, rowlayer, temps>>
      BY <2>3 DEF BootstrapStep, rvars, BootstrapCrash, Begin, Bootstrap, RefuseBootstrap, Reserve,
         CreateStaging, MarkEmpty, ResetSnapshot, CreateSnapshot, Backup, CloseSnapshot, StartCopy,
         FinishCopy, Scan, CreateArtifact, PublishArtifact, CloseStage, Promote, MarkPromoted,
         HandOver, Building, At, disk
    <3>2. journal # None /\ ~ Recognized
      BY <3>1 DEF RefuseBootstrap, RunInv, IInv, JournalInv
    <3>3. opt # journal.opt \/ Residue \/ (Live /\ rowlayer)
      BY <3>2, FinalRecognized, StagingRecognized DEF RunInv, Residue
    <3> QED
      BY <3>1, <3>3 DEF RefusedForCause, Residue, Live
  <2>4. CASE SourceStep
    BY <2>1, <2>4 DEF SourceStep, SourceChanges, disk, rvars
  <2>5. CASE StartRows
    BY <2>2, <2>5 DEF StartRows, bvars
  <2>6. CASE RowStep \/ RowCrash
    BY <2>2, <2>6 DEF RowStep, RowCrash, RunInv
  <2>7. CASE UNCHANGED runvars
    BY <2>1, <2>7 DEF runvars, bvars, rvars
  <2> QED
    BY <2>2, <2>3, <2>4, <2>5, <2>6, <2>7 DEF Next
<1> QED
  BY <1>1, <1>2, Invariant, LeftInvariant, PTL DEF Spec
=============================================================================
