-------------------------- MODULE ShardRunProofs --------------------------
(***************************************************************************)
(* Theorems about ShardRun for every number of shards, workers and         *)
(* sweepers, every scorer and every combination of faults, unless a        *)
(* theorem says otherwise.                                                 *)
(***************************************************************************)
EXTENDS ShardRun, TLAPS

\* Where a worker uses target[p]; it has selected a shard by then.
AtShard == BusyAt \cup
    {"create", "fill", "refresh", "claim", "race", "release", "bail"}

\* ... and a sweeper starget[w]; it is visiting a shard by then.
Visiting == Sweeping \ {"walk"}

TargetOK ==
    /\ \A p \in Workers : pc[p] \in AtShard => target[p] \in Shards
    /\ \A w \in Sweepers : spc[w] \in Visiting => starget[w] \in Shards

TypeInv == TypeOK /\ TargetOK

\* The type invariant, strengthened by TargetOK: HashCache reads
\* cache[target[p]], which is a cache file only if target[p] is a shard, and
\* SweepRead reads claim[starget[w]].
THEOREM TypeInvariant == Spec => []TypeInv
<1>1. Init => TypeInv
  <2> SUFFICES ASSUME Init PROVE TypeInv
    OBVIOUS
  <2>1. TypeOK
    BY DEF Init, TypeOK, BusyAt, WorkerPC, Stopped, SweeperPC,
          Sweeping, ShardStates
  <2>2. TargetOK
    BY DEF Init, TargetOK, AtShard, BusyAt, Visiting, Sweeping
  <2> QED
    BY <2>1, <2>2 DEF TypeInv
<1>2. TypeInv /\ [Next]_vars => TypeInv'
  <2> SUFFICES ASSUME TypeInv, [Next]_vars PROVE TypeInv'
    OBVIOUS
  <2> USE ConstantsAssumption
      DEF TypeInv, TypeOK, TargetOK, AtShard, BusyAt, WorkerPC, Stopped,
          SweeperPC, Sweeping, Visiting, ShardStates, File, Goto, SGoto, SetState, SetClaim,
          WriteCache, files, workerVars, sweeperVars
  <2>1. ASSUME NEW p \in Workers, Start(p) PROVE TypeInv'
    BY <2>1 DEF Start
  <2>2. ASSUME NEW p \in Workers, GateExit(p) PROVE TypeInv'
    BY <2>2 DEF GateExit
  <2>3. ASSUME NEW p \in Workers, GatePass(p) PROVE TypeInv'
    BY <2>3 DEF GatePass
  <2>4. ASSUME NEW p \in Workers, SelectResumable(p) PROVE TypeInv'
    BY <2>4 DEF SelectResumable, Resumable, IsLeast
  <2>5. ASSUME NEW p \in Workers, SelectPending(p) PROVE TypeInv'
    BY <2>5 DEF SelectPending, Pending
  <2>6. ASSUME NEW p \in Workers, ScanSkip(p) PROVE TypeInv'
    BY <2>6 DEF ScanSkip, IsLeast
  <2>7. ASSUME NEW p \in Workers, ScanPick(p) PROVE TypeInv'
    BY <2>7 DEF ScanPick, IsLeast
  <2>8. ASSUME NEW p \in Workers, ScanEmpty(p) PROVE TypeInv'
    BY <2>8 DEF ScanEmpty
  <2>9. ASSUME NEW p \in Workers, TryClaim(p) PROVE TypeInv'
    BY <2>9 DEF TryClaim
  <2>10. ASSUME NEW p \in Workers, TryClaimLost(p) PROVE TypeInv'
    BY <2>10 DEF TryClaimLost
  <2>11. ASSUME NEW p \in Workers, FillClaim(p) PROVE TypeInv'
    BY <2>11 DEF FillClaim
  <2>12. ASSUME NEW p \in Workers, RefreshClaim(p) PROVE TypeInv'
    BY <2>12 DEF RefreshClaim
  <2>13. ASSUME NEW p \in Workers, ClaimShard(p) PROVE TypeInv'
    BY <2>13 DEF ClaimShard
  <2>14. ASSUME NEW p \in Workers, ClaimRefused(p) PROVE TypeInv'
    BY <2>14 DEF ClaimRefused
  <2>15. ASSUME NEW p \in Workers, LoseRace(p) PROVE TypeInv'
    BY <2>15 DEF LoseRace
  <2>16. ASSUME NEW p \in Workers, CacheHit(p) PROVE TypeInv'
    BY <2>16 DEF CacheHit
  <2>17. ASSUME NEW p \in Workers, BeginScoring(p) PROVE TypeInv'
    BY <2>17 DEF BeginScoring
  <2>18. ASSUME NEW p \in Workers, Flush(p) PROVE TypeInv'
    BY <2>18 DEF Flush
  <2>19. ASSUME NEW p \in Workers, FinishScoring(p) PROVE TypeInv'
    <3>1. CASE UNCHANGED cache
      BY <2>19, <3>1 DEF FinishScoring
    <3>2. CASE WriteCache(p, TRUE)
      BY <2>19, <3>2 DEF FinishScoring
    <3> QED
      BY <2>19, <3>1, <3>2 DEF FinishScoring
  <2>20. ASSUME NEW p \in Workers, ScorerRaises(p) PROVE TypeInv'
    BY <2>20 DEF ScorerRaises
  <2>21. ASSUME NEW p \in Workers, Checkpoint(p) PROVE TypeInv'
    <3>1. CASE UNCHANGED cache
      BY <2>21, <3>1 DEF Checkpoint
    <3>2. CASE WriteCache(p, FALSE)
      BY <2>21, <3>2 DEF Checkpoint
    <3> QED
      BY <2>21, <3>1, <3>2 DEF Checkpoint
  <2>22. ASSUME NEW p \in Workers, PersistSkip(p) PROVE TypeInv'
    BY <2>22 DEF PersistSkip
  <2>23. ASSUME NEW p \in Workers, PersistOpen(p) PROVE TypeInv'
    BY <2>23 DEF PersistOpen
  <2>24. ASSUME NEW p \in Workers, PersistDump(p) PROVE TypeInv'
    BY <2>24 DEF PersistDump
  <2>25. ASSUME NEW p \in Workers, HashCache(p) PROVE TypeInv'
    BY <2>25 DEF HashCache
  <2>26. ASSUME NEW p \in Workers, MarkDone(p) PROVE TypeInv'
    BY <2>26 DEF MarkDone
  <2>27. ASSUME NEW p \in Workers, MarkFailed(p) PROVE TypeInv'
    BY <2>27 DEF MarkFailed
  <2>28. ASSUME NEW p \in Workers, MarkResume(p) PROVE TypeInv'
    BY <2>28 DEF MarkResume
  <2>29. ASSUME NEW p \in Workers, MarkRefused(p) PROVE TypeInv'
    BY <2>29 DEF MarkRefused
  <2>30. ASSUME NEW p \in Workers, ReleaseClaim(p) PROVE TypeInv'
    BY <2>30 DEF ReleaseClaim
  <2>31. ASSUME NEW p \in Workers, Die(p) PROVE TypeInv'
    BY <2>31 DEF Die
  <2>32. ASSUME NEW p \in Workers, Signal(p) PROVE TypeInv'
    BY <2>32 DEF Signal
  <2>33. ASSUME NEW w \in Sweepers, SweepStart(w) PROVE TypeInv'
    BY <2>33 DEF SweepStart, Resumable
  <2>34. ASSUME NEW w \in Sweepers, SweepMissing(w) PROVE TypeInv'
    BY <2>34 DEF SweepMissing, Visit, IsLeast
  <2>35. ASSUME NEW w \in Sweepers, SweepStatus(w) PROVE TypeInv'
    BY <2>35 DEF SweepStatus, Visit, IsLeast
  <2>36. ASSUME NEW w \in Sweepers, SweepStat(w) PROVE TypeInv'
    <3>1. CASE SGoto(w, "stat", "unlink")
      BY <2>36, <3>1 DEF SweepStat
    <3>2. CASE SGoto(w, "stat", "walk")
      BY <2>36, <3>2 DEF SweepStat
    <3> QED
      BY <2>36, <3>1, <3>2 DEF SweepStat
  <2>37. ASSUME NEW w \in Sweepers, SweepRead(w) PROVE TypeInv'
    <3>1. CASE SGoto(w, "read", "probe")
      <4>1. PICK q \in Workers : sowner' = [sowner EXCEPT ![w] = q]
        BY <2>37, <3>1 DEF SweepRead, ReadStale
      <4> QED
        BY <2>37, <3>1, <4>1 DEF SweepRead
    <3>2. CASE SGoto(w, "read", "walk")
      BY <2>37, <3>2 DEF SweepRead
    <3> QED
      BY <2>37, <3>1, <3>2 DEF SweepRead
  <2>38. ASSUME NEW w \in Sweepers, SweepProbe(w) PROVE TypeInv'
    BY <2>38 DEF SweepProbe
  <2>39. ASSUME NEW w \in Sweepers, SweepUnlink(w) PROVE TypeInv'
    BY <2>39 DEF SweepUnlink
  <2>40. ASSUME NEW w \in Sweepers, SweepRestore(w) PROVE TypeInv'
    BY <2>40 DEF SweepRestore
  <2>41. ASSUME NEW w \in Sweepers, SweepEnd(w) PROVE TypeInv'
    BY <2>41 DEF SweepEnd
  <2>42. ASSUME NEW w \in Sweepers, SweeperDies(w) PROVE TypeInv'
    BY <2>42 DEF SweeperDies
  <2>43. ASSUME NEW s \in Shards, Age(s) PROVE TypeInv'
    BY <2>43 DEF Age
  <2>44. CASE TogglePause
    BY <2>44 DEF TogglePause
  <2>45. CASE UNCHANGED vars
    BY <2>45 DEF vars
  <2> QED
    BY <2>1, <2>2, <2>3, <2>4, <2>5, <2>6, <2>7, <2>8, <2>9, <2>10, <2>11,
       <2>12, <2>13, <2>14, <2>15, <2>16, <2>17, <2>18, <2>19, <2>20, <2>21,
       <2>22, <2>23, <2>24, <2>25, <2>26, <2>27, <2>28, <2>29, <2>30, <2>31,
       <2>32, <2>33, <2>34, <2>35, <2>36, <2>37, <2>38, <2>39, <2>40, <2>41,
       <2>42, <2>43, <2>44, <2>45
    DEF Next, Loop, Process, Sweep, Rest
<1> QED
  BY <1>1, <1>2, PTL DEF Spec

\* TypeOK: no transition, of a worker, a sweep or the environment, writes an
\* entry, a claim file or a cache the others could not read.
THEOREM RunTypeCorrect == Spec => []TypeOK
BY TypeInvariant, PTL DEF TypeInv

-----------------------------------------------------------------------------
\* ClaimedHasWorker is inductive relative to the type invariant: a worker
\* gets the entry in the same step that makes it Busy, and every step that
\* ends Busy either rewrites the entry or is a death.
THEOREM ClaimedWorker == Spec => []ClaimedHasWorker
<1>1. Init => ClaimedHasWorker
  BY DEF Init, ClaimedHasWorker
<1>2. TypeInv /\ ClaimedHasWorker /\ [Next]_vars => ClaimedHasWorker'
  <2> SUFFICES ASSUME TypeInv, ClaimedHasWorker, [Next]_vars
               PROVE ClaimedHasWorker'
    OBVIOUS
  <2> USE ConstantsAssumption
      DEF TypeInv, TypeOK, TargetOK, AtShard, ClaimedHasWorker, Busy, BusyAt,
          Goto, SGoto, SetState, files, workerVars, sweeperVars
  <2>1. ASSUME NEW p \in Workers, Start(p) PROVE ClaimedHasWorker'
    BY <2>1 DEF Start
  <2>2. ASSUME NEW p \in Workers, GateExit(p) PROVE ClaimedHasWorker'
    BY <2>2 DEF GateExit
  <2>3. ASSUME NEW p \in Workers, GatePass(p) PROVE ClaimedHasWorker'
    BY <2>3 DEF GatePass
  <2>4. ASSUME NEW p \in Workers, SelectResumable(p) PROVE ClaimedHasWorker'
    BY <2>4 DEF SelectResumable
  <2>5. ASSUME NEW p \in Workers, SelectPending(p) PROVE ClaimedHasWorker'
    BY <2>5 DEF SelectPending
  <2>6. ASSUME NEW p \in Workers, ScanSkip(p) PROVE ClaimedHasWorker'
    BY <2>6 DEF ScanSkip
  <2>7. ASSUME NEW p \in Workers, ScanPick(p) PROVE ClaimedHasWorker'
    BY <2>7 DEF ScanPick
  <2>8. ASSUME NEW p \in Workers, ScanEmpty(p) PROVE ClaimedHasWorker'
    BY <2>8 DEF ScanEmpty
  <2>9. ASSUME NEW p \in Workers, TryClaim(p) PROVE ClaimedHasWorker'
    BY <2>9 DEF TryClaim
  <2>10. ASSUME NEW p \in Workers, TryClaimLost(p) PROVE ClaimedHasWorker'
    BY <2>10 DEF TryClaimLost
  <2>11. ASSUME NEW p \in Workers, FillClaim(p) PROVE ClaimedHasWorker'
    BY <2>11 DEF FillClaim
  <2>12. ASSUME NEW p \in Workers, RefreshClaim(p) PROVE ClaimedHasWorker'
    BY <2>12 DEF RefreshClaim
  <2>13. ASSUME NEW p \in Workers, ClaimShard(p) PROVE ClaimedHasWorker'
    BY <2>13 DEF ClaimShard
  <2>14. ASSUME NEW p \in Workers, ClaimRefused(p) PROVE ClaimedHasWorker'
    BY <2>14 DEF ClaimRefused
  <2>15. ASSUME NEW p \in Workers, LoseRace(p) PROVE ClaimedHasWorker'
    BY <2>15 DEF LoseRace
  <2>16. ASSUME NEW p \in Workers, CacheHit(p) PROVE ClaimedHasWorker'
    BY <2>16 DEF CacheHit
  <2>17. ASSUME NEW p \in Workers, BeginScoring(p) PROVE ClaimedHasWorker'
    BY <2>17 DEF BeginScoring
  <2>18. ASSUME NEW p \in Workers, Flush(p) PROVE ClaimedHasWorker'
    BY <2>18 DEF Flush
  <2>19. ASSUME NEW p \in Workers, FinishScoring(p) PROVE ClaimedHasWorker'
    BY <2>19 DEF FinishScoring
  <2>20. ASSUME NEW p \in Workers, ScorerRaises(p) PROVE ClaimedHasWorker'
    BY <2>20 DEF ScorerRaises
  <2>21. ASSUME NEW p \in Workers, Checkpoint(p) PROVE ClaimedHasWorker'
    BY <2>21 DEF Checkpoint
  <2>22. ASSUME NEW p \in Workers, PersistSkip(p) PROVE ClaimedHasWorker'
    BY <2>22 DEF PersistSkip
  <2>23. ASSUME NEW p \in Workers, PersistOpen(p) PROVE ClaimedHasWorker'
    BY <2>23 DEF PersistOpen
  <2>24. ASSUME NEW p \in Workers, PersistDump(p) PROVE ClaimedHasWorker'
    BY <2>24 DEF PersistDump
  <2>25. ASSUME NEW p \in Workers, HashCache(p) PROVE ClaimedHasWorker'
    BY <2>25 DEF HashCache
  <2>26. ASSUME NEW p \in Workers, MarkDone(p) PROVE ClaimedHasWorker'
    BY <2>26 DEF MarkDone
  <2>27. ASSUME NEW p \in Workers, MarkFailed(p) PROVE ClaimedHasWorker'
    BY <2>27 DEF MarkFailed
  <2>28. ASSUME NEW p \in Workers, MarkResume(p) PROVE ClaimedHasWorker'
    BY <2>28 DEF MarkResume
  <2>29. ASSUME NEW p \in Workers, MarkRefused(p) PROVE ClaimedHasWorker'
    BY <2>29 DEF MarkRefused
  <2>30. ASSUME NEW p \in Workers, ReleaseClaim(p) PROVE ClaimedHasWorker'
    BY <2>30 DEF ReleaseClaim
  <2>31. ASSUME NEW p \in Workers, Die(p) PROVE ClaimedHasWorker'
    BY <2>31 DEF Die
  <2>32. ASSUME NEW p \in Workers, Signal(p) PROVE ClaimedHasWorker'
    BY <2>32 DEF Signal
  <2>33. ASSUME NEW w \in Sweepers, SweepStart(w) PROVE ClaimedHasWorker'
    BY <2>33 DEF SweepStart
  <2>34. ASSUME NEW w \in Sweepers, SweepMissing(w) PROVE ClaimedHasWorker'
    BY <2>34 DEF SweepMissing
  <2>35. ASSUME NEW w \in Sweepers, SweepStatus(w) PROVE ClaimedHasWorker'
    BY <2>35 DEF SweepStatus
  <2>36. ASSUME NEW w \in Sweepers, SweepStat(w) PROVE ClaimedHasWorker'
    BY <2>36 DEF SweepStat
  <2>37. ASSUME NEW w \in Sweepers, SweepRead(w) PROVE ClaimedHasWorker'
    BY <2>37 DEF SweepRead
  <2>38. ASSUME NEW w \in Sweepers, SweepProbe(w) PROVE ClaimedHasWorker'
    BY <2>38 DEF SweepProbe
  <2>39. ASSUME NEW w \in Sweepers, SweepUnlink(w) PROVE ClaimedHasWorker'
    BY <2>39 DEF SweepUnlink
  <2>40. ASSUME NEW w \in Sweepers, SweepRestore(w) PROVE ClaimedHasWorker'
    BY <2>40 DEF SweepRestore
  <2>41. ASSUME NEW w \in Sweepers, SweepEnd(w) PROVE ClaimedHasWorker'
    BY <2>41 DEF SweepEnd
  <2>42. ASSUME NEW w \in Sweepers, SweeperDies(w) PROVE ClaimedHasWorker'
    BY <2>42 DEF SweeperDies
  <2>43. ASSUME NEW s \in Shards, Age(s) PROVE ClaimedHasWorker'
    BY <2>43 DEF Age
  <2>44. CASE TogglePause
    BY <2>44 DEF TogglePause
  <2>45. CASE UNCHANGED vars
    BY <2>45 DEF vars
  <2> QED
    BY <2>1, <2>2, <2>3, <2>4, <2>5, <2>6, <2>7, <2>8, <2>9, <2>10, <2>11,
       <2>12, <2>13, <2>14, <2>15, <2>16, <2>17, <2>18, <2>19, <2>20, <2>21,
       <2>22, <2>23, <2>24, <2>25, <2>26, <2>27, <2>28, <2>29, <2>30, <2>31,
       <2>32, <2>33, <2>34, <2>35, <2>36, <2>37, <2>38, <2>39, <2>40, <2>41,
       <2>42, <2>43, <2>44, <2>45
    DEF Next, Loop, Process, Sweep, Rest
<1> QED
  BY <1>1, <1>2, TypeInvariant, PTL DEF Spec
=============================================================================
