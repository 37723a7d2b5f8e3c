--------------------------- MODULE ShardPoolProofs ---------------------------
(***************************************************************************)
(* Theorems about a pool of workers, for every number of shards and of     *)
(* workers.  Without sweep-stale the workers exclude each other in         *)
(* state.json, however they race, die, checkpoint and resume; in a run     *)
(* with a single sweep-stale, through the claim files or through           *)
(* state.json, if the scorer does not checkpoint.                          *)
(***************************************************************************)
EXTENDS ShardRunLease, ShardRunProofs

\* Nobody runs sweep-stale.  A sweep takes entries of state.json away from
\* workers that live, so what is said of entries needs this.
NoSweepers == Sweepers = {}

----------------------------------------------------------------------------
(* What a step does to the entries of state.json and to who is busy.       *)

\* A worker does something else than claim a shard or record an outcome.
Outside(p) ==
    /\ UNCHANGED <<state, owner>>
    /\ \A q \in Workers \ {p} : pc'[q] = pc[q] /\ target'[q] = target[q]
    /\ Busy(p)' => Busy(p) /\ target'[p] = target[p]

\* A busy worker records an outcome of its shard and is no longer busy.
Outcome(p, to) ==
    /\ to \in {"done", "failed", "claimed_pending_resume"}
    /\ Busy(p) /\ ~ Busy(p)'
    /\ \A q \in Workers \ {p} : pc'[q] = pc[q]
    /\ SetState(target[p], to)
    /\ UNCHANGED <<owner, target>>

PoolStep ==
    \/ UNCHANGED <<state, owner, pc, target>>
    \/ \E p \in Workers : Outside(p) \/ ClaimShard(p) \/ \E to \in ShardStates : Outcome(p, to)

LEMMA StepKinds == NoSweepers /\ TypeInv /\ [Next]_vars => PoolStep
<1> SUFFICES ASSUME NoSweepers, TypeInv, [Next]_vars PROVE PoolStep
  OBVIOUS
<1> USE DEF TypeInv, TypeOK, PoolStep, Outside, Busy, BusyAt, Goto, files, sweeperVars,
        workerVars
<1>1. ASSUME NEW p \in Workers, Start(p) PROVE PoolStep
  BY <1>1 DEF Start
<1>2. ASSUME NEW p \in Workers, GateExit(p) PROVE PoolStep
  BY <1>2 DEF GateExit
<1>3. ASSUME NEW p \in Workers, GatePass(p) PROVE PoolStep
  BY <1>3 DEF GatePass
<1>4. ASSUME NEW p \in Workers, SelectResumable(p) PROVE PoolStep
  BY <1>4 DEF SelectResumable
<1>5. ASSUME NEW p \in Workers, SelectPending(p) PROVE PoolStep
  BY <1>5 DEF SelectPending
<1>6. ASSUME NEW p \in Workers, ScanSkip(p) PROVE PoolStep
  BY <1>6 DEF ScanSkip
<1>7. ASSUME NEW p \in Workers, ScanPick(p) PROVE PoolStep
  BY <1>7 DEF ScanPick
<1>8. ASSUME NEW p \in Workers, ScanEmpty(p) PROVE PoolStep
  BY <1>8 DEF ScanEmpty
<1>9. ASSUME NEW p \in Workers, TryClaim(p) PROVE PoolStep
  BY <1>9 DEF TryClaim
<1>10. ASSUME NEW p \in Workers, TryClaimLost(p) PROVE PoolStep
  BY <1>10 DEF TryClaimLost
<1>11. ASSUME NEW p \in Workers, FillClaim(p) PROVE PoolStep
  BY <1>11 DEF FillClaim
<1>12. ASSUME NEW p \in Workers, RefreshClaim(p) PROVE PoolStep
  BY <1>12 DEF RefreshClaim
<1>13. ASSUME NEW p \in Workers, ClaimShard(p) PROVE PoolStep
  BY <1>13
<1>14. ASSUME NEW p \in Workers, ClaimRefused(p) PROVE PoolStep
  BY <1>14 DEF ClaimRefused
<1>15. ASSUME NEW p \in Workers, LoseRace(p) PROVE PoolStep
  BY <1>15 DEF LoseRace
<1>16. ASSUME NEW p \in Workers, CacheHit(p) PROVE PoolStep
  BY <1>16 DEF CacheHit
<1>17. ASSUME NEW p \in Workers, BeginScoring(p) PROVE PoolStep
  BY <1>17 DEF BeginScoring
<1>18. ASSUME NEW p \in Workers, Flush(p) PROVE PoolStep
  BY <1>18 DEF Flush
<1>19. ASSUME NEW p \in Workers, FinishScoring(p) PROVE PoolStep
  BY <1>19 DEF FinishScoring
<1>20. ASSUME NEW p \in Workers, ScorerRaises(p) PROVE PoolStep
  BY <1>20 DEF ScorerRaises
<1>21. ASSUME NEW p \in Workers, Checkpoint(p) PROVE PoolStep
  BY <1>21 DEF Checkpoint
<1>22. ASSUME NEW p \in Workers, PersistSkip(p) PROVE PoolStep
  BY <1>22 DEF PersistSkip
<1>23. ASSUME NEW p \in Workers, PersistOpen(p) PROVE PoolStep
  BY <1>23 DEF PersistOpen
<1>24. ASSUME NEW p \in Workers, PersistDump(p) PROVE PoolStep
  BY <1>24 DEF PersistDump
<1>25. ASSUME NEW p \in Workers, HashCache(p) PROVE PoolStep
  BY <1>25 DEF HashCache
<1>26. ASSUME NEW p \in Workers, MarkDone(p) PROVE PoolStep
  <2>1. Outcome(p, "done")
    BY <1>26 DEF MarkDone, Outcome, TargetOK, AtShard
  <2> QED
    BY <2>1 DEF ShardStates
<1>27. ASSUME NEW p \in Workers, MarkFailed(p) PROVE PoolStep
  <2>1. Outcome(p, "failed")
    BY <1>27 DEF MarkFailed, Outcome, TargetOK, AtShard
  <2> QED
    BY <2>1 DEF ShardStates
<1>28. ASSUME NEW p \in Workers, MarkResume(p) PROVE PoolStep
  <2>1. Outcome(p, "claimed_pending_resume")
    BY <1>28 DEF MarkResume, Outcome, TargetOK, AtShard
  <2> QED
    BY <2>1 DEF ShardStates
<1>29. ASSUME NEW p \in Workers, MarkRefused(p) PROVE PoolStep
  BY <1>29 DEF MarkRefused
<1>30. ASSUME NEW p \in Workers, ReleaseClaim(p) PROVE PoolStep
  BY <1>30 DEF ReleaseClaim
<1>31. ASSUME NEW p \in Workers, Die(p) PROVE PoolStep
  BY <1>31 DEF Die
<1>32. ASSUME NEW p \in Workers, Signal(p) PROVE PoolStep
  BY <1>32 DEF Signal
<1>33. ASSUME NEW s \in Shards, Age(s) PROVE PoolStep
  BY <1>33 DEF Age
<1>34. CASE TogglePause
  BY <1>34 DEF TogglePause
<1>35. CASE UNCHANGED vars
  BY <1>35 DEF vars
<1> QED
  BY <1>1, <1>2, <1>3, <1>4, <1>5, <1>6, <1>7, <1>8, <1>9, <1>10, <1>11,
     <1>12, <1>13, <1>14, <1>15, <1>16, <1>17, <1>18, <1>19, <1>20,
     <1>21, <1>22, <1>23, <1>24, <1>25, <1>26, <1>27, <1>28, <1>29,
     <1>30, <1>31, <1>32, <1>33, <1>34, <1>35
  DEF NoSweepers, Next, Loop, Process, Rest

----------------------------------------------------------------------------
\* LiveWorkerKeepsShard: from claim_shard to the outcome the entry of the shard
\* says claimed, by this worker.  The other workers are refused by claim_shard,
\* and those that record outcomes hold other shards.
LEMMA KeepsStep ==
    NoSweepers /\ TypeInv /\ LiveWorkerKeepsShard /\ [Next]_vars => LiveWorkerKeepsShard'
<1> SUFFICES ASSUME NoSweepers, TypeInv, LiveWorkerKeepsShard, [Next]_vars
    PROVE  LiveWorkerKeepsShard'
  OBVIOUS
<1>1. PoolStep
  BY StepKinds
<1>2. CASE UNCHANGED <<state, owner, pc, target>>
  BY <1>2 DEF LiveWorkerKeepsShard, Busy
<1>3. ASSUME NEW p \in Workers, Outside(p) PROVE LiveWorkerKeepsShard'
  BY <1>3 DEF Outside, LiveWorkerKeepsShard, Busy
<1>4. ASSUME NEW p \in Workers, ClaimShard(p) PROVE LiveWorkerKeepsShard'
  <2>1. /\ pc[p] = "claim" /\ target[p] \in Shards
        /\ state[target[p]] # "claimed" /\ UNCHANGED target
        /\ state' = [state EXCEPT ![target[p]] = "claimed"]
        /\ owner' = [owner EXCEPT ![target[p]] = p]
    BY <1>4 DEF ClaimShard, SetState, Goto, TypeInv, TypeOK, TargetOK, AtShard
  <2>2. \A q \in Workers : q # p => pc'[q] = pc[q]
    BY <1>4 DEF ClaimShard, Goto, TypeInv, TypeOK
  <2>3. \A q \in Workers : Busy(q) => target[q] # target[p]
    BY <2>1 DEF LiveWorkerKeepsShard
  <2>4. \A q \in Workers : Busy(q) => target[q] \in Shards
    BY DEF TypeInv, TargetOK, AtShard, Busy
  <2> QED
    BY <2>1, <2>2, <2>3, <2>4 DEF LiveWorkerKeepsShard, Busy, TypeInv, TypeOK
<1>5. ASSUME NEW p \in Workers, NEW to \in ShardStates, Outcome(p, to)
      PROVE  LiveWorkerKeepsShard'
  <2>1. \A q \in Workers : Busy(q) /\ q # p => target[q] # target[p]
    BY <1>5 DEF LiveWorkerKeepsShard, Outcome
  <2>2. \A q \in Workers : Busy(q)' => Busy(q) /\ q # p
    BY <1>5 DEF Outcome, Busy
  <2>3. \A q \in Workers : Busy(q) => target[q] \in Shards
    BY DEF TypeInv, TargetOK, AtShard, Busy
  <2> QED
    BY <1>5, <2>1, <2>2, <2>3 DEF LiveWorkerKeepsShard, Outcome, SetState, TypeInv, TypeOK
<1> QED
  BY <1>1, <1>2, <1>3, <1>4, <1>5 DEF PoolStep

THEOREM PoolKeepsShard == ASSUME NoSweepers PROVE Spec => []LiveWorkerKeepsShard
<1>1. Init => LiveWorkerKeepsShard
  BY DEF Init, LiveWorkerKeepsShard, Busy, BusyAt
<1>2. NoSweepers => (TypeInv /\ LiveWorkerKeepsShard /\ [Next]_vars => LiveWorkerKeepsShard')
  BY KeepsStep
<1> QED
  BY <1>1, <1>2, TypeInvariant, PTL DEF Spec

\* Two workers never score the same shard.
THEOREM PoolScoresAlone == ASSUME NoSweepers PROVE Spec => []ExclusiveScoring
<1>1. LiveWorkerKeepsShard => ExclusiveScoring
  BY DEF LiveWorkerKeepsShard, ExclusiveScoring
<1> QED
  BY <1>1, PoolKeepsShard, PTL

----------------------------------------------------------------------------
\* ImplementsLease: a shard is leased to one worker at a time, only its holder
\* ends the lease, and no worker holds two.
LEMMA LeaseAt ==
    ASSUME NEW s \in Shards
    PROVE  /\ LeaseOf[s] = [kind |-> LeaseKind(state[s]),
                            by |-> IF state[s] = "claimed" THEN owner[s] ELSE None]
           /\ LeaseOf'[s] = [kind |-> LeaseKind(state'[s]),
                             by |-> IF state'[s] = "claimed" THEN owner'[s] ELSE None]
BY DEF LeaseOf

LEMMA LeaseStep ==
    NoSweepers /\ TypeInv /\ ClaimedHasWorker /\ LiveWorkerKeepsShard /\ [Next]_vars
        => [Lease!LeaseNext]_LeaseOf
<1> SUFFICES ASSUME NoSweepers, TypeInv, ClaimedHasWorker, LiveWorkerKeepsShard, [Next]_vars
    PROVE  [Lease!LeaseNext]_LeaseOf
  OBVIOUS
<1>1. PoolStep
  BY StepKinds
<1>2. CASE UNCHANGED <<state, owner>>
  BY <1>2 DEF LeaseOf
<1>3. ASSUME NEW p \in Workers, ClaimShard(p) PROVE Lease!LeaseNext
  <2> DEFINE s == target[p]
  <2>1. /\ pc[p] = "claim" /\ s \in Shards
        /\ state[s] \in {"pending", "claimed_pending_resume"}
        /\ state' = [state EXCEPT ![s] = "claimed"]
        /\ owner' = [owner EXCEPT ![s] = p]
    BY <1>3 DEF ClaimShard, SetState, Goto, TypeInv, TypeOK, TargetOK, AtShard
  <2>2. LeaseOf[s] \in {Lease!Ended("free"), Lease!Ended("yielded")}
    BY <2>1, LeaseAt DEF LeaseKind, Lease!Ended
  <2>3. ASSUME NEW t \in Shards PROVE LeaseOf[t] # Lease!HeldBy(p)
    <3>1. ~ (state[t] = "claimed" /\ owner[t] = p)
      BY <2>1 DEF ClaimedHasWorker, Busy, BusyAt
    <3>2. p # None
      BY ConstantsAssumption
    <3>3. LeaseOf[t] = [kind |-> LeaseKind(state[t]),
                        by |-> IF state[t] = "claimed" THEN owner[t] ELSE None]
      BY LeaseAt
    <3>4. LeaseOf[t].by # p
      BY <3>1, <3>2, <3>3
    <3> QED
      BY <3>4 DEF Lease!HeldBy
  <2>4. LeaseOf' = [LeaseOf EXCEPT ![s] = Lease!HeldBy(p)]
    BY <2>1 DEF LeaseOf, LeaseKind, Lease!HeldBy, TypeInv, TypeOK
  <2>5. LeaseOf'[s] # LeaseOf[s]
    BY <2>1, <2>3, <2>4 DEF LeaseOf
  <2> QED
    BY <2>1, <2>2, <2>3, <2>4, <2>5 DEF Lease!LeaseNext, Lease!Take
<1>4. ASSUME NEW p \in Workers, NEW to \in ShardStates, Outcome(p, to) PROVE Lease!LeaseNext
  <2> DEFINE s == target[p]
  <2>1. /\ s \in Shards /\ state[s] = "claimed" /\ owner[s] = p
        /\ to \in {"done", "failed", "claimed_pending_resume"}
        /\ state' = [state EXCEPT ![s] = to] /\ UNCHANGED owner
    BY <1>4 DEF Outcome, SetState, LiveWorkerKeepsShard, TypeInv, TargetOK, AtShard, Busy
  <2>2. LeaseOf[s] = Lease!HeldBy(p)
    BY <2>1, LeaseAt DEF LeaseKind, Lease!HeldBy
  <2>3. LeaseOf' = [LeaseOf EXCEPT ![s] = Lease!Ended(LeaseKind(to))]
    BY <2>1 DEF LeaseOf, LeaseKind, Lease!Ended, TypeInv, TypeOK
  <2>4. LeaseOf'[s] = Lease!Ended(LeaseKind(to))
    BY <2>1, <2>3 DEF LeaseOf
  <2>5. LeaseKind(to) \in {"done", "failed", "yielded"}
    BY <2>1 DEF LeaseKind
  <2>6. LeaseOf'[s] # LeaseOf[s]
    BY <2>2, <2>4, <2>5 DEF Lease!Ended, Lease!HeldBy
  <2>7. Lease!Finish(p, s) \/ Lease!Fail(p, s) \/ Lease!Yield(p, s)
    BY <2>2, <2>3, <2>5 DEF Lease!Finish, Lease!Fail, Lease!Yield
  <2> QED
    BY <2>1, <2>6, <2>7 DEF Lease!LeaseNext
<1> QED
  BY <1>1, <1>2, <1>3, <1>4 DEF PoolStep, Outside

THEOREM PoolImplementsLease == ASSUME NoSweepers PROVE Spec => ImplementsLease
<1>1. Init => Lease!LeaseInit
  BY DEF Init, Lease!LeaseInit, Lease!Ended, LeaseOf, LeaseKind
<1>2. NoSweepers => (TypeInv /\ ClaimedHasWorker /\ LiveWorkerKeepsShard /\ [Next]_vars
                        => [Lease!LeaseNext]_LeaseOf)
  BY LeaseStep
<1> QED
  BY <1>1, <1>2, TypeInvariant, ClaimedWorker, PoolKeepsShard, PTL
  DEF Spec, ImplementsLease, Lease!LeaseSpec

----------------------------------------------------------------------------
\* A claim file is one of a worker, and two that are equal are one worker's.
LEMMA ClaimFiles ==
    /\ \A q \in Workers, v \in BOOLEAN : [by |-> q, whole |-> v] # None
    /\ \A q, r \in Workers, v, x \in BOOLEAN :
          [by |-> q, whole |-> v] = [by |-> r, whole |-> x] => q = r /\ v = x
BY ConstantsAssumption DEF File

----------------------------------------------------------------------------
(* The claim files, in a run with a single sweep-stale process, started    *)
(* once, and a scorer that does not checkpoint.                            *)

\* One sweep in the whole run.  After one sweep a worker may hold an entry of
\* state.json but no claim file; a second sweep, at the same time or later,
\* could put that entry back and let two workers score.
SingleSweep == \A v, w \in Sweepers : v = w

\* Where a worker expects its complete claim file.
HoldAt == BusyAt \cup {"claim", "race", "release", "bail"}

\* The worker finds its claim file as it left it.
Holds(p) ==
    /\ pc[p] = "fill" => claim[target[p]] = [by |-> p, whole |-> FALSE]
    /\ pc[p] \in HoldAt => claim[target[p]] = [by |-> p, whole |-> TRUE]

Held(s) == \A p \in Workers : target[p] = s => Holds(p)

\* Whoever scores the shard is its owner in state.json.
Entry(s) ==
    \A p \in Workers : Busy(p) /\ target[p] = s =>
        state[s] = "claimed" /\ owner[s] = p

Settled(s) == state[s] \in {"done", "failed"}

\* Before the sweep has dealt with a shard, both hold; moreover the owner in
\* state.json has its claim file, a worker about to release its claim file has
\* seen the outcome, and the claim file names a worker that was started, an
\* empty one that is old one that died while it filled the file.
Fresh(s) ==
    /\ Held(s)
    /\ Entry(s)
    /\ state[s] = "claimed" => claim[s] = [by |-> owner[s], whole |-> TRUE]
    /\ \A p \in Workers :
          pc[p] \in {"race", "release", "bail"} /\ target[p] = s => Settled(s)
    /\ claim[s] # None =>
          /\ pc[claim[s].by] # "new"
          /\ ~ claim[s].whole =>
               \/ pc[claim[s].by] = "dead"
               \/ pc[claim[s].by] = "fill" /\ target[claim[s].by] = s /\ s \notin aged

\* The sweep has skipped the shard or unlinked its claim file.
Swept(s) == \E w \in Sweepers :
    /\ spc[w] # "new"
    /\ s \notin stodo[w]
    /\ ~ (starget[w] = s /\ spc[w] \in {"stat", "read", "probe", "unlink"})

\* Afterwards one of the two is left, and either keeps a second worker away.
ShardInv(s) ==
    /\ ~ Swept(s) => Fresh(s)
    /\ Held(s) \/ Entry(s)

WorkerInv(p) ==
    /\ pc[p] \notin {"refresh", "mark_resume"}
    /\ expect[p] = "pending"
    /\ Busy(p) => state[target[p]] \in {"pending", "claimed"}

\* What the sweep still knows of what it has read: the claim file is that of a
\* worker that ended, or the shard got its outcome meanwhile.
SweepInv(w) ==
    /\ spc[w] \in Visiting => starget[w] \notin stodo[w]
    /\ spc[w] = "stat" /\ starget[w] \in aged =>
          claim[starget[w]] # None /\ pc[claim[starget[w]].by] = "dead"
    /\ spc[w] = "probe" =>
          /\ sowner[w] \in Workers /\ pc[sowner[w]] # "new"
          /\ \/ claim[starget[w]] = [by |-> sowner[w], whole |-> TRUE]
             \/ Settled(starget[w])
    /\ spc[w] = "unlink" =>
          \/ /\ claim[starget[w]] # None
             /\ pc[claim[starget[w]].by] \in Stopped \ {"new"}
          \/ Settled(starget[w])
    /\ spc[w] = "restore" =>
          Entry(starget[w]) /\ (Held(starget[w]) \/ Settled(starget[w]))

SweptInv ==
    /\ \A s \in Shards : state[s] # "claimed_pending_resume" /\ ShardInv(s)
    /\ \A p \in Workers : WorkerInv(p)
    /\ \A w \in Sweepers : SweepInv(w)

----------------------------------------------------------------------------
(* The steps of the workers and of the environment, as far as the claim    *)
(* files and the entries are concerned.                                    *)

Others(p) ==
    /\ \A q \in Workers \ {p} : pc'[q] = pc[q] /\ target'[q] = target[q]
    /\ UNCHANGED <<spc, stodo, starget, sowner>>
    /\ expect'[p] = "pending" /\ \A q \in Workers \ {p} : expect'[q] = expect[q]

OnShard(p) ==
    /\ Others(p)
    /\ target[p] \in Shards
    /\ UNCHANGED target

\* The worker moves on, dies, or loses the race for its target.
Moves(p) ==
    /\ Others(p)
    /\ UNCHANGED <<state, owner, claim, aged>>
    /\ pc[p] \notin Stopped \ {"new"}
    /\ \/ /\ pc'[p] \in {"gate", "read", "scan", "create", "drained", "exited"}
          /\ pc[p] \notin HoldAt \cup {"fill"}
       \/ pc'[p] = "dead" /\ pc[p] # "new" /\ target'[p] = target[p]
       \/ pc[p] \in BusyAt /\ pc'[p] \in BusyAt \ {"mark_resume"} /\ target'[p] = target[p]
       \/ /\ pc[p] = "claim" /\ pc'[p] = "race" /\ target'[p] = target[p]
          /\ target[p] \in Shards /\ state[target[p]] # "pending"

Creates(p) ==
    /\ OnShard(p)
    /\ pc[p] = "create" /\ pc'[p] = "fill"
    /\ claim[target[p]] = None
    /\ claim' = [claim EXCEPT ![target[p]] = [by |-> p, whole |-> FALSE]]
    /\ aged' = aged \ {target[p]}
    /\ UNCHANGED <<state, owner>>

Fills(p) ==
    /\ OnShard(p)
    /\ pc[p] = "fill" /\ pc'[p] = "claim"
    /\ \/ /\ claim[target[p]] = [by |-> p, whole |-> FALSE]
          /\ claim' = [claim EXCEPT ![target[p]] = [by |-> p, whole |-> TRUE]]
       \/ /\ claim[target[p]] # [by |-> p, whole |-> FALSE]
          /\ claim' = claim
    /\ UNCHANGED <<state, owner, aged>>

Claims(p) ==
    /\ OnShard(p)
    /\ pc[p] = "claim" /\ pc'[p] = "begin"
    /\ state[target[p]] = "pending"
    /\ state' = [state EXCEPT ![target[p]] = "claimed"]
    /\ owner' = [owner EXCEPT ![target[p]] = p]
    /\ UNCHANGED <<claim, aged>>

Records(p) ==
    /\ OnShard(p)
    /\ Busy(p) /\ pc'[p] \in {"release", "bail"}
    /\ \E to \in {"done", "failed"} : state' = [state EXCEPT ![target[p]] = to]
    /\ UNCHANGED <<owner, claim, aged>>

Releases(p) ==
    /\ OnShard(p)
    /\ pc[p] \in {"race", "release", "bail"} /\ pc'[p] \in {"gate", "exited"}
    /\ claim' = [claim EXCEPT ![target[p]] = None]
    /\ aged' = aged \ {target[p]}
    /\ UNCHANGED <<state, owner>>

WorkerStep(p) ==
    Moves(p) \/ Creates(p) \/ Fills(p) \/ Claims(p) \/ Records(p) \/ Releases(p)

\* A claim file grows old, the pause marker appears, a flag is set.
Passes ==
    /\ UNCHANGED <<state, owner, claim, pc, target, expect, spc, stodo, starget, sowner>>
    /\ \/ UNCHANGED aged
       \/ /\ aged \subseteq aged'
          /\ \A w \in Sweepers : spc[w] \notin Sweeping
          /\ \A p \in Workers : pc[p] # "fill"

LEMMA WorkerKinds ==
    ASSUME "checkpoint" \notin Faults, TypeInv, SweptInv, [Next]_vars
    PROVE  \/ \E p \in Workers : WorkerStep(p)
           \/ Passes
           \/ \E w \in Sweepers : SweepStart(w) \/ Sweep(w) \/ SweeperDies(w)
<1> DEFINE Kind == (\E p \in Workers : WorkerStep(p)) \/ Passes
<1> USE DEF TypeInv, TypeOK, TargetOK, AtShard, BusyAt, HoldAt, Busy, SweptInv, WorkerInv,
        Others, OnShard, Stopped, WorkerPC, ShardStates, Goto, SetState,
        SetClaim, files, workerVars, sweeperVars
<1>1. ASSUME NEW p \in Workers, Start(p) PROVE Moves(p)
  BY <1>1 DEF Start, Moves
<1>2. ASSUME NEW p \in Workers, GateExit(p) PROVE Moves(p)
  BY <1>2 DEF GateExit, Moves
<1>3. ASSUME NEW p \in Workers, GatePass(p) PROVE Moves(p)
  BY <1>3 DEF GatePass, Moves
<1>4. ASSUME NEW p \in Workers, SelectResumable(p) PROVE Moves(p)
  BY <1>4 DEF SelectResumable, Moves, Resumable
<1>5. ASSUME NEW p \in Workers, SelectPending(p) PROVE Moves(p)
  BY <1>5 DEF SelectPending, Moves
<1>6. ASSUME NEW p \in Workers, ScanSkip(p) PROVE Kind
  BY <1>6 DEF ScanSkip, Passes
<1>7. ASSUME NEW p \in Workers, ScanPick(p) PROVE Moves(p)
  BY <1>7 DEF ScanPick, Moves
<1>8. ASSUME NEW p \in Workers, ScanEmpty(p) PROVE Moves(p)
  BY <1>8 DEF ScanEmpty, Moves
<1>9. ASSUME NEW p \in Workers, TryClaim(p) PROVE Creates(p)
  BY <1>9 DEF TryClaim, Creates
<1>10. ASSUME NEW p \in Workers, TryClaimLost(p) PROVE Moves(p)
  BY <1>10 DEF TryClaimLost, Moves
<1>11. ASSUME NEW p \in Workers, FillClaim(p) PROVE Fills(p)
  BY <1>11 DEF FillClaim, Fills
<1>12. ASSUME NEW p \in Workers, RefreshClaim(p) PROVE FALSE
  BY <1>12 DEF RefreshClaim
<1>13. ASSUME NEW p \in Workers, ClaimShard(p) PROVE Claims(p)
  BY <1>13 DEF ClaimShard, Claims
<1>14. ASSUME NEW p \in Workers, ClaimRefused(p) PROVE Moves(p)
  BY <1>14 DEF ClaimRefused, Moves
<1>15. ASSUME NEW p \in Workers, LoseRace(p) PROVE Releases(p)
  BY <1>15 DEF LoseRace, Releases
<1>16. ASSUME NEW p \in Workers, CacheHit(p) PROVE Moves(p)
  BY <1>16 DEF CacheHit, Moves
<1>17. ASSUME NEW p \in Workers, BeginScoring(p) PROVE Moves(p)
  BY <1>17 DEF BeginScoring, Moves
<1>18. ASSUME NEW p \in Workers, Flush(p) PROVE Kind
  BY <1>18 DEF Flush, Passes
<1>19. ASSUME NEW p \in Workers, FinishScoring(p) PROVE Moves(p)
  BY <1>19 DEF FinishScoring, Moves
<1>20. ASSUME NEW p \in Workers, ScorerRaises(p) PROVE Moves(p)
  BY <1>20 DEF ScorerRaises, Moves
<1>21. ASSUME NEW p \in Workers, Checkpoint(p) PROVE FALSE
  BY <1>21 DEF Checkpoint
<1>22. ASSUME NEW p \in Workers, PersistSkip(p) PROVE Moves(p)
  BY <1>22 DEF PersistSkip, Moves
<1>23. ASSUME NEW p \in Workers, PersistOpen(p) PROVE Moves(p)
  BY <1>23 DEF PersistOpen, Moves
<1>24. ASSUME NEW p \in Workers, PersistDump(p) PROVE Moves(p)
  BY <1>24 DEF PersistDump, Moves
<1>25. ASSUME NEW p \in Workers, HashCache(p) PROVE Moves(p)
  BY <1>25 DEF HashCache, Moves
<1>26. ASSUME NEW p \in Workers, MarkDone(p) PROVE Records(p)
  BY <1>26 DEF MarkDone, Records
<1>27. ASSUME NEW p \in Workers, MarkFailed(p) PROVE Records(p)
  BY <1>27 DEF MarkFailed, Records
<1>28. ASSUME NEW p \in Workers, MarkResume(p) PROVE FALSE
  BY <1>28 DEF MarkResume
<1>29. ASSUME NEW p \in Workers, MarkRefused(p) PROVE Moves(p)
  BY <1>29 DEF MarkRefused, Moves
<1>30. ASSUME NEW p \in Workers, ReleaseClaim(p) PROVE Releases(p)
  BY <1>30 DEF ReleaseClaim, Releases
<1>31. ASSUME NEW p \in Workers, Die(p) PROVE Moves(p)
  BY <1>31 DEF Die, Moves, Alive
<1>32. ASSUME NEW p \in Workers, Signal(p) PROVE Kind
  BY <1>32 DEF Signal, Passes
<1>33. ASSUME NEW s \in Shards, Age(s) PROVE Kind
  BY <1>33 DEF Age, Passes
<1>34. CASE TogglePause
  BY <1>34 DEF TogglePause, Passes
<1>35. CASE UNCHANGED vars
  BY <1>35 DEF vars, Passes
<1> QED
  BY <1>1, <1>2, <1>3, <1>4, <1>5, <1>6, <1>7, <1>8, <1>9, <1>10, <1>11, <1>12, <1>13,
     <1>14, <1>15, <1>16, <1>17, <1>18, <1>19, <1>20, <1>21, <1>22, <1>23, <1>24,
     <1>25, <1>26, <1>27, <1>28, <1>29, <1>30, <1>31, <1>32, <1>33, <1>34, <1>35
  DEF Next, Loop, Process, Rest, WorkerStep

\* What a step of a worker leaves as it was, for a shard s: by Held nobody but
\* its creator removes a claim file, by Entry nobody but the owner records.
LEMMA WorkerHeld ==
    ASSUME TypeInv, NEW p \in Workers, WorkerStep(p), NEW s \in Shards, Held(s)
    PROVE  Held(s)'
<1> USE DEF TypeInv, TypeOK, Others, OnShard, BusyAt, HoldAt, Busy, Stopped
<1> SUFFICES ASSUME NEW q \in Workers, target'[q] = s PROVE Holds(q)'
  BY DEF Held
<1>1. CASE Moves(p)
  <2>1. claim' = claim
    BY <1>1 DEF Moves
  <2>2. CASE q # p
    <3>1. target[q] = s /\ target'[q] = target[q] /\ pc'[q] = pc[q]
      BY <1>1, <2>2 DEF Moves
    <3>2. Holds(q)
      BY <3>1 DEF Held
    <3> QED
      BY <2>1, <3>1, <3>2 DEF Holds
  <2>3. CASE q = p
    <3>1. CASE pc'[p] \in {"gate", "read", "scan", "create", "drained", "exited", "dead"}
      BY <2>3, <3>1 DEF Holds
    <3>2. CASE pc[p] \in HoldAt /\ pc'[p] \in HoldAt /\ target'[p] = target[p]
      <4>1. Holds(q)
        BY <2>3, <3>2 DEF Held
      <4> QED
        BY <2>1, <2>3, <3>2, <4>1 DEF Holds
    <3> QED
      BY <1>1, <3>1, <3>2 DEF Moves
  <2> QED
    BY <2>2, <2>3
<1>2. ASSUME claim' = [claim EXCEPT ![target[p]] = [by |-> p, whole |-> FALSE]],
             Creates(p)
      PROVE  Holds(q)'
  <2>1. CASE q = p
    BY <1>2, <2>1 DEF Creates, Holds
  <2>2. CASE q # p /\ target[p] = s
    <3>1. claim[s] = None /\ target[q] = s /\ pc'[q] = pc[q]
      BY <1>2, <2>2 DEF Creates
    <3>2. pc[q] \notin HoldAt \cup {"fill"}
      BY <3>1, ClaimFiles DEF Held, Holds
    <3> QED
      BY <3>1, <3>2 DEF Holds
  <2>3. CASE q # p /\ target[p] # s
    BY <1>2, <2>3 DEF Creates, Held, Holds
  <2> QED
    BY <2>1, <2>2, <2>3
<1>3. CASE Fills(p)
  <2>1. CASE q = p
    BY <1>3, <2>1 DEF Fills, Held, Holds
  <2>2. CASE q # p
    BY <1>3, <2>2, ClaimFiles DEF Fills, Held, Holds
  <2> QED
    BY <2>1, <2>2
<1>4. CASE Claims(p) \/ Records(p)
  BY <1>4 DEF Claims, Records, Held, Holds
<1>5. CASE Releases(p)
  <2>1. CASE q = p
    BY <1>5, <2>1 DEF Releases, Held, Holds
  <2>2. CASE q # p /\ target[p] = s
    <3>1. claim[s] = [by |-> p, whole |-> TRUE] /\ target[q] = s /\ pc'[q] = pc[q]
      BY <1>5, <2>2 DEF Releases, Held, Holds
    <3>2. \A v \in BOOLEAN : claim[s] # [by |-> q, whole |-> v]
      BY <2>2, <3>1, ClaimFiles
    <3>3. pc[q] \notin HoldAt \cup {"fill"}
      BY <3>1, <3>2 DEF Held, Holds
    <3> QED
      BY <3>1, <3>3 DEF Holds
  <2>3. CASE q # p /\ target[p] # s
    BY <1>5, <2>3 DEF Releases, Held, Holds
  <2> QED
    BY <2>1, <2>2, <2>3
<1> QED
  BY <1>1, <1>2, <1>3, <1>4, <1>5 DEF WorkerStep, Creates

LEMMA WorkerEntry ==
    ASSUME TypeInv, NEW p \in Workers, WorkerStep(p), NEW s \in Shards
    PROVE  /\ Entry(s) => Entry(s)'
           /\ Settled(s) => Settled(s)'
<1> USE DEF TypeInv, TypeOK, Others, OnShard, BusyAt, HoldAt, Busy, Stopped, Entry, Settled
<1>1. CASE Moves(p)
  BY <1>1 DEF Moves
<1>2. CASE Creates(p) \/ Fills(p) \/ Releases(p)
  BY <1>2 DEF Creates, Fills, Releases
<1>3. CASE Claims(p)
  BY <1>3 DEF Claims
<1>4. CASE Records(p)
  BY <1>4 DEF Records
<1> QED
  BY <1>1, <1>2, <1>3, <1>4 DEF WorkerStep

LEMMA WorkerFresh ==
    ASSUME TypeInv, ClaimedHasWorker, NEW p \in Workers, WorkerStep(p), NEW s \in Shards,
           Fresh(s), state[s] # "claimed_pending_resume"
    PROVE  Fresh(s)'
<1> USE DEF TypeInv, TypeOK, Others, OnShard, BusyAt, HoldAt, Busy, Stopped, Settled
<1>1. Held(s)' /\ Entry(s)'
  BY WorkerHeld, WorkerEntry DEF Fresh
<1>2. /\ Held(s) /\ Entry(s)
      /\ state[s] = "claimed" => claim[s] = [by |-> owner[s], whole |-> TRUE]
      /\ \A q \in Workers :
            pc[q] \in {"race", "release", "bail"} /\ target[q] = s => Settled(s)
      /\ claim[s] # None =>
            /\ claim[s].by \in Workers
            /\ pc[claim[s].by] # "new"
            /\ ~ claim[s].whole =>
                 \/ pc[claim[s].by] = "dead"
                 \/ pc[claim[s].by] = "fill" /\ target[claim[s].by] = s /\ s \notin aged
  BY DEF Fresh, File
<1>3. CASE target[p] # s \/ Moves(p)
  <2>1. UNCHANGED <<claim[s], state[s], owner[s]>> /\ (s \in aged' => s \in aged)
    BY <1>3 DEF WorkerStep, Moves, Creates, Fills, Claims, Records, Releases
  <2>2. ASSUME NEW q \in Workers, pc'[q] \in {"race", "release", "bail"}, target'[q] = s
        PROVE  Settled(s)'
    <3>1. CASE pc[q] \in {"race", "release", "bail"} /\ target[q] = s
      BY <1>2, <2>1, <3>1
    <3>2. CASE ~ (pc[q] \in {"race", "release", "bail"} /\ target[q] = s)
      <4>1. /\ Moves(p) /\ q = p /\ pc[p] = "claim" /\ target[p] = s
            /\ state[s] # "pending"
        BY <1>3, <2>2, <3>2 DEF WorkerStep, Moves, Creates, Fills, Claims, Records, Releases
      <4>2. claim[s] = [by |-> p, whole |-> TRUE]
        BY <1>2, <4>1 DEF Held, Holds
      <4>3. state[s] # "claimed"
        BY <1>2, <4>1, <4>2, ClaimFiles DEF ClaimedHasWorker
      <4> QED
        BY <2>1, <4>1, <4>3 DEF ShardStates
    <3> QED
      BY <3>1, <3>2
  <2>3. claim[s] # None =>
          /\ pc'[claim[s].by] # "new"
          /\ ~ claim[s].whole =>
               \/ pc'[claim[s].by] = "dead"
               \/ pc'[claim[s].by] = "fill" /\ target'[claim[s].by] = s /\ s \notin aged'
    <3> SUFFICES ASSUME claim[s] # None
                 PROVE  /\ pc'[claim[s].by] # "new"
                        /\ ~ claim[s].whole =>
                             \/ pc'[claim[s].by] = "dead"
                             \/ /\ pc'[claim[s].by] = "fill" /\ target'[claim[s].by] = s
                                /\ s \notin aged'
      OBVIOUS
    <3>1. CASE claim[s].by # p
      <4>1. \A q \in Workers \ {p} : pc'[q] = pc[q] /\ target'[q] = target[q]
        BY DEF WorkerStep, Moves, Creates, Fills, Claims, Records, Releases
      <4> QED
        BY <1>2, <2>1, <3>1, <4>1
    <3>2. CASE claim[s].by = p
      <4>1. pc[p] \notin Stopped \ {"new"} /\ pc'[p] # "new"
        BY DEF WorkerStep, Moves, Creates, Fills, Claims, Records, Releases
      <4>2. ASSUME ~ claim[s].whole PROVE pc'[p] = "dead"
        <5>1. pc[p] = "fill" /\ target[p] = s
          BY <1>2, <3>2, <4>1, <4>2
        <5> QED
          BY <1>3, <5>1 DEF Moves
      <4> QED
        BY <3>2, <4>1, <4>2
    <3> QED
      BY <3>1, <3>2
  <2> QED
    BY <1>1, <1>2, <2>1, <2>2, <2>3 DEF Fresh
<1>4. CASE target[p] = s /\ Creates(p)
  <2>1. /\ claim[s] = None /\ claim'[s] = [by |-> p, whole |-> FALSE] /\ s \notin aged'
        /\ pc'[p] = "fill" /\ target' = target /\ UNCHANGED <<state, owner>>
    BY <1>4 DEF Creates
  <2>2. state[s] # "claimed"
    BY <1>2, <2>1, ClaimFiles DEF ClaimedHasWorker
  <2>3. \A q \in Workers : pc'[q] \in {"race", "release", "bail"} => pc'[q] = pc[q]
    BY <1>4, <2>1 DEF Creates
  <2> QED
    BY <1>1, <1>2, <1>4, <2>1, <2>2, <2>3 DEF Fresh
<1>5. CASE target[p] = s /\ Fills(p)
  <2>1. /\ claim[s] = [by |-> p, whole |-> FALSE] /\ claim'[s] = [by |-> p, whole |-> TRUE]
        /\ pc'[p] = "claim" /\ target' = target /\ UNCHANGED <<state, owner>>
    BY <1>2, <1>5 DEF Fills, Held, Holds
  <2>2. state[s] # "claimed"
    BY <1>2, <2>1, ClaimFiles DEF ClaimedHasWorker
  <2>3. \A q \in Workers : pc'[q] \in {"race", "release", "bail"} => pc'[q] = pc[q]
    BY <1>5, <2>1 DEF Fills
  <2> QED
    BY <1>1, <1>2, <1>5, <2>1, <2>2, <2>3 DEF Fresh
<1>6. CASE target[p] = s /\ Claims(p)
  <2>1. /\ claim[s] = [by |-> p, whole |-> TRUE] /\ claim' = claim
        /\ state[s] = "pending" /\ state'[s] = "claimed" /\ owner'[s] = p
        /\ pc'[p] = "begin" /\ target' = target
    BY <1>2, <1>6 DEF Claims, Held, Holds
  <2>2. \A q \in Workers : pc'[q] \in {"race", "release", "bail"} => pc'[q] = pc[q]
    BY <1>6, <2>1 DEF Claims
  <2> QED
    BY <1>1, <1>2, <2>1, <2>2 DEF Fresh
<1>7. CASE target[p] = s /\ Records(p)
  <2>1. /\ state'[s] \in {"done", "failed"} /\ claim' = claim /\ aged' = aged
        /\ pc'[p] \in {"release", "bail"} /\ pc[p] \in BusyAt /\ target' = target
        /\ \A q \in Workers \ {p} : pc'[q] = pc[q]
    BY <1>7 DEF Records
  <2>2. claim[s] = [by |-> p, whole |-> TRUE]
    BY <1>2, <1>7, <2>1 DEF Held, Holds
  <2> QED
    BY <1>1, <1>2, <2>1, <2>2 DEF Fresh
<1>8. CASE target[p] = s /\ Releases(p)
  <2>1. /\ claim'[s] = None /\ UNCHANGED <<state, owner>> /\ target' = target
        /\ pc[p] \in {"race", "release", "bail"} /\ pc'[p] \in {"gate", "exited"}
        /\ \A q \in Workers \ {p} : pc'[q] = pc[q]
    BY <1>8 DEF Releases
  <2>2. state[s] # "claimed"
    BY <1>2, <1>8, <2>1
  <2> QED
    BY <1>1, <1>2, <2>1, <2>2 DEF Fresh
<1> QED
  BY <1>3, <1>4, <1>5, <1>6, <1>7, <1>8 DEF WorkerStep

\* While the sweep goes from one file operation to the next, what it knows of
\* the shard that it visits stays true.
LEMMA WorkerSweep ==
    ASSUME SingleSweep, TypeInv, SweptInv, NEW p \in Workers, WorkerStep(p),
           NEW w \in Sweepers
    PROVE  SweepInv(w)'
<1> SUFFICES ASSUME NEW s, s = starget[w] PROVE SweepInv(w)'
  OBVIOUS
<1>1. /\ UNCHANGED <<spc, stodo, starget, sowner>>
      /\ \A q \in Workers \ {p} : pc'[q] = pc[q]
      /\ pc[p] \notin Stopped \ {"new"} /\ pc'[p] # "new"
  BY DEF WorkerStep, Moves, Creates, Fills, Claims, Records, Releases, Others, OnShard,
     Busy, BusyAt, Stopped
<1>2. CASE spc[w] \notin {"stat", "probe", "unlink", "restore"}
  BY <1>1, <1>2 DEF SweptInv, SweepInv
<1>3. CASE spc[w] \in {"stat", "probe", "unlink", "restore"}
  <2>1. s \in Shards /\ s \notin stodo[w]
    BY <1>3 DEF TypeInv, TargetOK, Visiting, Sweeping, SweptInv, SweepInv
  <2>2. Settled(s) => Settled(s)'
    BY <2>1, WorkerEntry
  <2>3. CASE spc[w] = "restore"
    <3>1. Entry(s) /\ (Held(s) \/ Settled(s))
      BY <2>3 DEF SweptInv, SweepInv
    <3>2. Entry(s)' /\ (Held(s)' \/ Settled(s)')
      BY <2>1, <3>1, WorkerHeld, WorkerEntry
    <3> QED
      BY <1>1, <2>1, <2>3, <3>2 DEF SweepInv, Entry, Held, Settled, Holds, Busy
  <2>4. CASE spc[w] = "stat"
    <3>1. claim[s] # None => claim[s].by \in Workers
      BY <2>1 DEF TypeInv, TypeOK, File
    <3>2. s \in aged => claim[s] # None /\ pc[claim[s].by] = "dead"
      BY <2>4 DEF SweptInv, SweepInv
    <3>3. ASSUME s \in aged' PROVE claim'[s] = claim[s] /\ s \in aged
      BY <3>3, <2>1, <3>2 DEF WorkerStep, Moves, Creates, Fills, Claims, Records, Releases,
         OnShard, TypeInv, TypeOK
    <3> QED
      BY <1>1, <2>1, <2>4, <3>1, <3>2, <3>3 DEF SweepInv, Stopped
  <2>5. CASE spc[w] \in {"probe", "unlink"}
    <3>1. Fresh(s)
      BY <2>1, <2>5 DEF SweptInv, ShardInv, Swept, SingleSweep
    <3>2. claim[s] # None => claim[s].by \in Workers
      BY <2>1 DEF TypeInv, TypeOK, File
    <3>3. claim'[s] = claim[s] \/ claim[s] = None
             \/ claim[s] = [by |-> p, whole |-> FALSE] \/ Settled(s)
      BY <2>1, <3>1 DEF WorkerStep, Moves, Creates, Fills, Claims, Records, Releases,
         OnShard, TypeInv, TypeOK, Fresh
    <3>4. CASE spc[w] = "probe"
      <4>1. /\ sowner[w] \in Workers /\ pc[sowner[w]] # "new"
            /\ claim[s] = [by |-> sowner[w], whole |-> TRUE] \/ Settled(s)
        BY <3>4 DEF SweptInv, SweepInv
      <4>2. [by |-> sowner[w], whole |-> TRUE] \notin {None, [by |-> p, whole |-> FALSE]}
        BY <4>1, ClaimFiles
      <4>3. claim'[s] = [by |-> sowner[w], whole |-> TRUE] \/ Settled(s)
        BY <3>3, <4>1, <4>2
      <4> QED
        BY <1>1, <2>1, <2>2, <3>4, <4>1, <4>3 DEF SweepInv, Settled
    <3>5. CASE spc[w] = "unlink"
      <4>1. (claim[s] # None /\ pc[claim[s].by] \in Stopped \ {"new"}) \/ Settled(s)
        BY <3>5 DEF SweptInv, SweepInv
      <4>2. claim'[s] = claim[s] \/ Settled(s)
        BY <1>1, <3>3, <4>1
      <4>3. \/ claim'[s] # None /\ pc'[claim'[s].by] \in Stopped \ {"new"}
            \/ Settled(s)
        BY <1>1, <3>2, <4>1, <4>2
      <4> QED
        BY <1>1, <2>1, <2>2, <3>5, <4>3 DEF SweepInv, Settled
    <3> QED
      BY <2>5, <3>4, <3>5
  <2> QED
    BY <1>3, <2>3, <2>4, <2>5
<1> QED
  BY <1>2, <1>3

\* ShardInv forbids two workers to score a shard: they would both have created
\* its claim file, or both be its owner.
LEMMA AloneByShard ==
    ASSUME NEW p \in Workers, NEW q \in Workers, Busy(p), Busy(q), target[p] = target[q],
           ShardInv(target[p])
    PROVE  p = q
<1>1. CASE Held(target[p])
  <2>1. /\ claim[target[p]] = [by |-> p, whole |-> TRUE]
        /\ claim[target[p]] = [by |-> q, whole |-> TRUE]
    BY <1>1 DEF Held, Holds, HoldAt, Busy
  <2> QED
    BY <2>1, ClaimFiles
<1>2. CASE Entry(target[p])
  BY <1>2 DEF Entry
<1> QED
  BY <1>1, <1>2 DEF ShardInv

LEMMA WorkerStepInv ==
    ASSUME SingleSweep, TypeInv, ClaimedHasWorker, SweptInv, NEW p \in Workers,
           WorkerStep(p)
    PROVE  SweptInv'
<1>1. UNCHANGED <<spc, stodo, starget, sowner>>
  BY DEF WorkerStep, Moves, Creates, Fills, Claims, Records, Releases, Others, OnShard
<1>2. ASSUME NEW s \in Shards PROVE state'[s] # "claimed_pending_resume" /\ ShardInv(s)'
  <2>1. ShardInv(s) /\ state[s] # "claimed_pending_resume"
    BY DEF SweptInv
  <2>2. Swept(s)' <=> Swept(s)
    BY <1>1 DEF Swept
  <2>3. state'[s] # "claimed_pending_resume"
    BY <2>1 DEF WorkerStep, Moves, Creates, Fills, Claims, Records, Releases, OnShard,
       TypeInv, TypeOK
  <2>4. Fresh(s) => Fresh(s)'
    BY <2>1, WorkerFresh
  <2>5. Held(s) => Held(s)'
    BY WorkerHeld
  <2>6. Entry(s) => Entry(s)'
    BY WorkerEntry
  <2> QED
    BY <2>1, <2>2, <2>3, <2>4, <2>5, <2>6 DEF ShardInv
<1>3. ASSUME NEW q \in Workers PROVE WorkerInv(q)'
  <2>1. pc'[q] \notin {"refresh", "mark_resume"} /\ expect'[q] = "pending"
    BY DEF SweptInv, WorkerInv, WorkerStep, Moves, Creates, Fills, Claims, Records, Releases,
       Others, OnShard, BusyAt
  <2>2. ASSUME Busy(q)' PROVE state'[target'[q]] \in {"pending", "claimed"}
    <3>1. CASE Claims(p) /\ q = p
      BY <3>1 DEF Claims, OnShard, TypeInv, TypeOK
    <3>2. CASE ~ (Claims(p) /\ q = p)
      <4>1. Busy(q) /\ target'[q] = target[q] /\ ~ (Records(p) /\ q = p)
        BY <2>2, <3>2 DEF WorkerStep, Moves, Creates, Fills, Claims, Records, Releases,
           Others, OnShard, Busy, BusyAt, TypeInv, TypeOK
      <4>2. state[target[q]] \in {"pending", "claimed"} /\ target[q] \in Shards
        BY <4>1 DEF SweptInv, WorkerInv, Busy, BusyAt, TypeInv, TargetOK, AtShard
      <4>3. ~ (Records(p) /\ target[p] = target[q])
        BY <4>1, <4>2, AloneByShard DEF Records, SweptInv
      <4> QED
        BY <4>1, <4>2, <4>3 DEF WorkerStep, Moves, Creates, Fills, Claims, Records,
           Releases, OnShard, TypeInv, TypeOK
    <3> QED
      BY <3>1, <3>2
  <2> QED
    BY <2>1, <2>2 DEF WorkerInv
<1>4. \A w \in Sweepers : SweepInv(w)'
  BY WorkerSweep
<1> QED
  BY <1>2, <1>3, <1>4 DEF SweptInv

LEMMA PassesInv ==
    ASSUME TypeInv, SweptInv, Passes PROVE SweptInv'
<1>1. UNCHANGED <<state, owner, claim, pc, target, expect, spc, stodo, starget, sowner>>
  BY DEF Passes
<1>2. \/ UNCHANGED aged
      \/ /\ \A w \in Sweepers : spc[w] \notin Sweeping
         /\ \A p \in Workers : pc[p] # "fill"
  BY DEF Passes
<1>3. ASSUME NEW s \in Shards PROVE state'[s] # "claimed_pending_resume" /\ ShardInv(s)'
  <2>1. (Held(s)' <=> Held(s)) /\ (Entry(s)' <=> Entry(s)) /\ (Swept(s)' <=> Swept(s))
    BY <1>1 DEF Held, Holds, Entry, Swept, Busy
  <2>2. claim[s] # None => claim[s].by \in Workers
    BY DEF TypeInv, TypeOK, File
  <2>3. Fresh(s) => Fresh(s)'
    BY <1>1, <1>2, <2>1, <2>2 DEF Fresh, Settled
  <2> QED
    BY <1>1, <2>1, <2>3 DEF SweptInv, ShardInv
<1>4. \A p \in Workers : WorkerInv(p)'
  BY <1>1 DEF SweptInv, WorkerInv, Busy
<1>5. ASSUME NEW w \in Sweepers PROVE SweepInv(w)'
  BY <1>1, <1>2 DEF SweptInv, SweepInv, Sweeping, Visiting, Settled, Entry, Held, Holds, Busy
<1> QED
  BY <1>3, <1>4, <1>5 DEF SweptInv

\* The steps of the sweep: those that only read, the unlink and the restore.
LEMMA SweepReadsInv ==
    ASSUME SingleSweep, TypeInv, SweptInv, NEW w \in Sweepers, UNCHANGED <<files, workerVars>>,
           \A s \in Shards : Swept(s) => Swept(s)', SweepInv(w)'
    PROVE  SweptInv'
<1>1. ASSUME NEW s \in Shards PROVE state'[s] # "claimed_pending_resume" /\ ShardInv(s)'
  <2>1. (Held(s)' <=> Held(s)) /\ (Entry(s)' <=> Entry(s)) /\ (Fresh(s)' <=> Fresh(s))
    BY DEF Held, Holds, Entry, Fresh, Settled, Busy, files, workerVars
  <2> QED
    BY <2>1 DEF SweptInv, ShardInv, files
<1>2. \A p \in Workers : WorkerInv(p)'
  BY DEF SweptInv, WorkerInv, Busy, files, workerVars
<1> QED
  BY <1>1, <1>2 DEF SweptInv, SingleSweep

LEMMA SweepStepInv ==
    ASSUME SingleSweep, TypeInv, SweptInv, NEW w \in Sweepers,
           SweepStart(w) \/ Sweep(w) \/ SweeperDies(w)
    PROVE  SweptInv'
<1> USE DEF SGoto, Visiting, Sweeping
<1>1. \A v \in Sweepers : v = w
  BY DEF SingleSweep
<1>2. CASE SweepStart(w)
  <2>1. /\ spc[w] = "new" /\ spc'[w] = "walk" /\ UNCHANGED <<files, workerVars>>
    BY <1>2 DEF SweepStart, TypeInv, TypeOK
  <2>2. \A s \in Shards : ~ Swept(s)
    BY <1>1, <2>1 DEF Swept
  <2> QED
    BY <2>1, <2>2, SweepReadsInv DEF SweepInv
<1>3. CASE SweepMissing(w)
  <2>1. /\ spc[w] = "walk" /\ spc' = spc /\ UNCHANGED <<files, workerVars>>
        /\ stodo'[w] \subseteq stodo[w] /\ starget' = starget
    BY <1>3 DEF SweepMissing, Visit, TypeInv, TypeOK
  <2>2. \A s \in Shards : Swept(s) => Swept(s)'
    BY <1>1, <2>1 DEF Swept
  <2> QED
    BY <2>1, <2>2, SweepReadsInv DEF SweepInv
<1>4. CASE SweepStatus(w)
  <2>1. PICK s \in stodo[w] : /\ Visit(w, s) /\ claim[s] # None
                              /\ spc'[w] = IF claim[s].whole THEN "read" ELSE "stat"
                              /\ starget' = [starget EXCEPT ![w] = s]
    BY <1>4 DEF SweepStatus, TypeInv, TypeOK
  <2>2. /\ spc[w] = "walk" /\ UNCHANGED <<files, workerVars, sowner>> /\ s \in Shards
        /\ stodo'[w] = stodo[w] \ {s} /\ starget'[w] = s
    BY <1>4, <2>1 DEF SweepStatus, Visit, TypeInv, TypeOK
  <2>3. \A r \in Shards : Swept(r) => Swept(r)'
    BY <1>1, <2>1, <2>2 DEF Swept
  <2>4. Fresh(s)
    BY <1>1, <2>2 DEF Swept, SweptInv, ShardInv
  <2>5. spc'[w] = "stat" /\ s \in aged' => claim'[s] # None /\ pc'[claim'[s].by] = "dead"
    <3> SUFFICES ASSUME ~ claim[s].whole, s \in aged PROVE pc[claim[s].by] = "dead"
      BY <2>1, <2>2 DEF files, workerVars
    <3> QED
      BY <2>1, <2>4 DEF Fresh
  <2> QED
    BY <2>1, <2>2, <2>3, <2>5, SweepReadsInv DEF SweepInv
<1>5. CASE SweepStat(w)
  <2>1. /\ spc[w] = "stat" /\ UNCHANGED <<files, workerVars, stodo, starget>>
        /\ spc'[w] = "walk" \/ (spc'[w] = "unlink" /\ starget[w] \in aged)
    BY <1>5 DEF SweepStat, TypeInv, TypeOK
  <2>2. \A s \in Shards : Swept(s) => Swept(s)'
    BY <1>1, <2>1 DEF Swept
  <2>3. SweepInv(w)'
    BY <2>1 DEF SweptInv, SweepInv, Stopped, files, workerVars
  <2> QED
    BY <2>1, <2>2, <2>3, SweepReadsInv
<1>6. CASE SweepRead(w)
  <2>1. /\ spc[w] = "read" /\ UNCHANGED <<files, workerVars, stodo, starget>>
        /\ \/ spc'[w] = "walk"
           \/ /\ spc'[w] = "probe" /\ ReadStale(starget[w])
              /\ sowner' = [sowner EXCEPT ![w] = claim[starget[w]].by]
    BY <1>6 DEF SweepRead, TypeInv, TypeOK
  <2>2. \A s \in Shards : Swept(s) => Swept(s)'
    BY <1>1, <2>1 DEF Swept
  <2>3. SweepInv(w)'
    <3>1. CASE spc'[w] = "walk"
      BY <2>1, <3>1 DEF SweepInv
    <3>2. CASE spc'[w] # "walk"
      <4>1. starget[w] \in Shards /\ starget[w] \notin stodo[w]
        BY <2>1 DEF TypeInv, TargetOK, SweptInv, SweepInv
      <4>2. /\ claim[starget[w]] \in File /\ claim[starget[w]] # None
            /\ claim[starget[w]].whole
        BY <2>1, <3>2, <4>1 DEF ReadStale, TypeInv, TypeOK
      <4>3. sowner'[w] = claim[starget[w]].by
        BY <2>1, <3>2 DEF TypeInv, TypeOK
      <4>4. /\ sowner'[w] \in Workers
            /\ claim[starget[w]] = [by |-> sowner'[w], whole |-> TRUE]
        BY <4>2, <4>3 DEF File
      <4>5. Fresh(starget[w])
        BY <1>1, <2>1, <4>1 DEF SweptInv, ShardInv, Swept
      <4>6. pc[sowner'[w]] # "new"
        BY <4>2, <4>3, <4>5 DEF Fresh
      <4> QED
        BY <2>1, <3>2, <4>1, <4>4, <4>6 DEF SweepInv, files, workerVars
    <3> QED
      BY <3>1, <3>2
  <2> QED
    BY <2>1, <2>2, <2>3, SweepReadsInv
<1>7. CASE SweepProbe(w)
  <2>1. /\ spc[w] = "probe" /\ UNCHANGED <<files, workerVars, stodo, starget>>
        /\ spc'[w] = "walk" \/ (spc'[w] = "unlink" /\ pc[sowner[w]] \in Stopped)
    BY <1>7 DEF SweepProbe, Alive, TypeInv, TypeOK
  <2>2. \A s \in Shards : Swept(s) => Swept(s)'
    BY <1>1, <2>1 DEF Swept
  <2>3. /\ sowner[w] \in Workers /\ pc[sowner[w]] # "new"
        /\ \/ claim[starget[w]] = [by |-> sowner[w], whole |-> TRUE]
           \/ Settled(starget[w])
        /\ starget[w] \notin stodo[w]
    BY <2>1 DEF SweptInv, SweepInv
  <2>4. \/ Settled(starget[w])
        \/ claim[starget[w]] # None /\ claim[starget[w]].by = sowner[w]
    <3>1. [by |-> sowner[w], whole |-> TRUE] # None
      BY <2>3, ClaimFiles
    <3>2. [by |-> sowner[w], whole |-> TRUE].by = sowner[w]
      OBVIOUS
    <3> QED
      BY <2>3, <3>1, <3>2
  <2>5. SweepInv(w)'
    BY <2>1, <2>3, <2>4 DEF SweepInv, Settled, files, workerVars
  <2> QED
    BY <2>1, <2>2, <2>5, SweepReadsInv
<1>8. CASE SweepEnd(w) \/ SweeperDies(w)
  <2>1. /\ UNCHANGED <<files, workerVars, stodo, starget>>
        /\ spc[w] # "new" /\ spc'[w] \in {"exited", "dead"}
    BY <1>8 DEF SweepEnd, SweeperDies, TypeInv, TypeOK
  <2>2. \A s \in Shards : Swept(s) => Swept(s)'
    BY <1>1, <2>1 DEF Swept
  <2> QED
    BY <2>1, <2>2, SweepReadsInv DEF SweepInv
<1>9. ASSUME SweepUnlink(w), NEW t, t = starget[w] PROVE SweptInv'
  <2>1. /\ spc[w] = "unlink" /\ spc'[w] = "restore" /\ UNCHANGED <<stodo, starget>>
        /\ claim' = [claim EXCEPT ![t] = None] /\ aged' = aged \ {t}
        /\ UNCHANGED <<state, owner, pc, target, expect>>
    BY <1>9 DEF SweepUnlink, SetClaim, TypeInv, TypeOK, workerVars
  <2>2. t \in Shards /\ t \notin stodo[w]
    BY <1>9, <2>1 DEF TypeInv, TargetOK, SweptInv, SweepInv
  <2>3. Fresh(t)
    BY <1>1, <1>9, <2>1, <2>2 DEF SweptInv, ShardInv, Swept
  <2>4. Held(t)' \/ Settled(t)
    <3> SUFFICES ASSUME ~ Settled(t), NEW p \in Workers, target[p] = t
                 PROVE  pc[p] \notin HoldAt \cup {"fill"}
      BY <2>1 DEF Held, Holds
    <3>1. claim[t] # None /\ pc[claim[t].by] \in Stopped
      BY <1>9, <2>1 DEF SweptInv, SweepInv
    <3>2. pc[p] \in HoldAt \cup {"fill"} => claim[t].by = p
      <4>1. Holds(p)
        BY <2>3 DEF Fresh, Held
      <4>2. pc[p] = "fill" => claim[t].by = p
        BY <4>1 DEF Holds
      <4>3. pc[p] \in HoldAt => claim[t].by = p
        BY <4>1 DEF Holds
      <4> QED
        BY <4>2, <4>3
    <3> QED
      BY <3>1, <3>2 DEF HoldAt, BusyAt, Stopped
  <2>5. ASSUME NEW s \in Shards PROVE state'[s] # "claimed_pending_resume" /\ ShardInv(s)'
    <3>1. Entry(s)' <=> Entry(s)
      BY <2>1 DEF Entry, Busy
    <3>2. CASE s = t
      <4>1. Swept(s)'
        BY <1>9, <2>1, <2>2, <3>2 DEF Swept
      <4> QED
        BY <2>1, <2>3, <3>1, <3>2, <4>1 DEF ShardInv, Fresh, SweptInv
    <3>3. CASE s # t
      <4>1. Swept(s) => Swept(s)'
        BY <1>1, <1>9, <2>1, <3>3 DEF Swept
      <4>2. claim'[s] = claim[s] /\ (s \in aged' <=> s \in aged)
        BY <2>1, <3>3
      <4>3. Held(s)' <=> Held(s)
        BY <2>1, <4>2 DEF Held, Holds
      <4>4. Fresh(s) => Fresh(s)'
        BY <2>1, <3>1, <4>2, <4>3 DEF Fresh, Settled
      <4> QED
        BY <2>1, <3>1, <4>1, <4>3, <4>4 DEF ShardInv, SweptInv
    <3> QED
      BY <3>2, <3>3
  <2>6. \A p \in Workers : WorkerInv(p)'
    BY <2>1 DEF SweptInv, WorkerInv, Busy
  <2>7. SweepInv(w)'
    <3>1. Entry(t)' /\ (Held(t)' \/ Settled(t)')
      BY <2>1, <2>3, <2>4 DEF Fresh, Entry, Settled, Busy
    <3>2. starget'[w] = t
      BY <1>9, <2>1
    <3> QED
      BY <2>1, <2>2, <3>1, <3>2 DEF SweepInv, Entry, Held, Holds, Settled
  <2> QED
    BY <1>1, <2>5, <2>6, <2>7 DEF SweptInv
<1>10. ASSUME SweepRestore(w), NEW t, t = starget[w] PROVE SweptInv'
  <2>1. /\ spc[w] = "restore" /\ spc'[w] = "walk" /\ UNCHANGED <<stodo, starget>>
        /\ state' = [state EXCEPT ![t] = "pending"]
        /\ owner' = [owner EXCEPT ![t] = None]
        /\ UNCHANGED <<claim, aged, pc, target, expect>>
    BY <1>10 DEF SweepRestore, SetState, TypeInv, TypeOK, workerVars
  <2>2. t \in Shards /\ t \notin stodo[w]
    BY <1>10, <2>1 DEF TypeInv, TargetOK, SweptInv, SweepInv
  <2>3. Entry(t) /\ (Held(t) \/ Settled(t))
    BY <1>10, <2>1 DEF SweptInv, SweepInv
  <2>4. ASSUME NEW s \in Shards PROVE state'[s] # "claimed_pending_resume" /\ ShardInv(s)'
    <3>1. Held(s)' <=> Held(s)
      BY <2>1 DEF Held, Holds
    <3>2. Swept(s) => Swept(s)'
      BY <1>1, <2>1 DEF Swept
    <3>3. CASE s = t
      <4>1. Swept(s)'
        BY <1>10, <2>1, <2>2, <3>3 DEF Swept
      <4>2. Settled(s) => Entry(s)'
        BY <2>1, <2>3, <3>3 DEF Settled, Entry, Busy
      <4> QED
        BY <2>1, <2>2, <2>3, <3>1, <3>3, <4>1, <4>2 DEF ShardInv, TypeInv, TypeOK
    <3>4. CASE s # t
      <4>1. state'[s] = state[s] /\ owner'[s] = owner[s]
        BY <2>1, <3>4
      <4>2. Entry(s)' <=> Entry(s)
        BY <2>1, <4>1 DEF Entry, Busy
      <4>3. Fresh(s) => Fresh(s)'
        BY <2>1, <3>1, <4>1, <4>2 DEF Fresh, Settled
      <4> QED
        BY <3>1, <3>2, <4>1, <4>2, <4>3 DEF ShardInv, SweptInv
    <3> QED
      BY <3>3, <3>4
  <2>5. \A p \in Workers : WorkerInv(p)'
    BY <2>1 DEF SweptInv, WorkerInv, Busy, TypeInv, TypeOK
  <2>6. SweepInv(w)'
    BY <2>1 DEF SweepInv
  <2> QED
    BY <1>1, <2>4, <2>5, <2>6 DEF SweptInv
<1> QED
  BY <1>2, <1>3, <1>4, <1>5, <1>6, <1>7, <1>8, <1>9, <1>10 DEF Sweep

LEMMA SweptInvariant ==
    ASSUME SingleSweep, "checkpoint" \notin Faults PROVE Spec => []SweptInv
<1>1. Init => SweptInv
  <2> SUFFICES ASSUME Init PROVE SweptInv
    OBVIOUS
  <2> USE DEF Init, Busy, BusyAt, HoldAt
  <2>1. ASSUME NEW s \in Shards PROVE state[s] # "claimed_pending_resume" /\ ShardInv(s)
    BY DEF ShardInv, Fresh, Held, Holds, Entry
  <2>2. \A p \in Workers : WorkerInv(p)
    BY DEF WorkerInv
  <2>3. \A w \in Sweepers : SweepInv(w)
    BY DEF SweepInv, Visiting, Sweeping
  <2> QED
    BY <2>1, <2>2, <2>3 DEF SweptInv
<1>2. SingleSweep /\ "checkpoint" \notin Faults =>
        (TypeInv /\ ClaimedHasWorker /\ SweptInv /\ [Next]_vars => SweptInv')
  BY WorkerKinds, WorkerStepInv, PassesInv, SweepStepInv
<1> QED
  BY <1>1, <1>2, TypeInvariant, ClaimedWorker, PTL DEF Spec

\* ExclusiveScoring beside a single sweep in the whole run: it may put a shard
\* back that a worker scores or has finished, yet no two workers score it.  A
\* worker whose file it unlinked after a stale read is alone by its entry.
THEOREM SweptScoresAlone ==
    ASSUME SingleSweep, "checkpoint" \notin Faults PROVE Spec => []ExclusiveScoring
<1>1. TypeInv /\ SweptInv => ExclusiveScoring
  <2> SUFFICES ASSUME TypeInv, SweptInv, NEW p \in Workers, NEW q \in Workers,
                      Busy(p), Busy(q), target[p] = target[q]
               PROVE  p = q
    BY DEF ExclusiveScoring
  <2>1. ShardInv(target[p])
    BY DEF SweptInv, TypeInv, TargetOK, AtShard, Busy
  <2> QED
    BY <2>1, AloneByShard
<1> QED
  BY <1>1, TypeInvariant, SweptInvariant, PTL

\* ClaimNamesScorer without a sweep: while a worker scores a shard the claim
\* file names it, so that terminate-all signals the right process.
THEOREM PoolClaimNamesScorer ==
    ASSUME NoSweepers, "checkpoint" \notin Faults PROVE Spec => []ClaimNamesScorer
<1>1. SingleSweep
  BY DEF NoSweepers, SingleSweep
<1>2. NoSweepers => (TypeInv /\ SweptInv => ClaimNamesScorer)
  <2> SUFFICES ASSUME NoSweepers, TypeInv, SweptInv, NEW p \in Workers, Busy(p)
               PROVE  claim[target[p]] = [by |-> p, whole |-> TRUE]
    BY DEF ClaimNamesScorer
  <2>1. Fresh(target[p])
    BY DEF NoSweepers, SweptInv, ShardInv, Swept, TypeInv, TargetOK, AtShard, Busy
  <2> QED
    BY <2>1 DEF Fresh, Held, Holds, HoldAt, Busy
<1> QED
  BY <1>1, <1>2, TypeInvariant, SweptInvariant, PTL

\* ClaimedIsSweepable without a sweep: a shard that state.json shows as
\* claimed has the claim file of its owner, dead or alive.
THEOREM PoolClaimedIsSweepable ==
    ASSUME NoSweepers, "checkpoint" \notin Faults PROVE Spec => []ClaimedIsSweepable
<1>1. SingleSweep
  BY DEF NoSweepers, SingleSweep
<1>2. NoSweepers => (SweptInv => ClaimedIsSweepable)
  BY DEF NoSweepers, SweptInv, ShardInv, Swept, Fresh, ClaimedIsSweepable
<1> QED
  BY <1>1, <1>2, SweptInvariant, PTL

----------------------------------------------------------------------------
(* The caches.                                                             *)

Whole(s) == cache[s] # None /\ cache[s].whole

\* From the scorer's return to mark_done the cache is the one that was hashed.
CacheInv ==
    /\ \A p \in Workers :
          /\ pc[p] # "dump"
          /\ pc[p] \in {"persist", "hash", "mark_done"} => Whole(target[p])
          /\ pc[p] = "mark_done" => hash[p] = cache[target[p]]
    /\ DoneMatchesCache

\* Only a worker that scores a shard writes its cache, and no other one is
\* scoring it; while it does, the entry is not done.
BusyAlone ==
    /\ ExclusiveScoring
    /\ \A p \in Workers : Busy(p) => state[target[p]] \in {"pending", "claimed"}

LEMMA CacheStep ==
    ASSUME Scorer # "recordsOnly", TypeInv, BusyAlone, CacheInv, [Next]_vars
    PROVE  CacheInv'
<1> USE ConstantsAssumption
    DEF TypeInv, TypeOK, TargetOK, AtShard, BusyAt, Busy, BusyAlone, ExclusiveScoring,
        CacheInv, DoneMatchesCache, Whole, Goto, SGoto, SetState, WriteCache, File, files,
        workerVars, sweeperVars
<1>1. ASSUME NEW p \in Workers, Start(p) PROVE CacheInv'
  BY <1>1 DEF Start
<1>2. ASSUME NEW p \in Workers, GateExit(p) PROVE CacheInv'
  BY <1>2 DEF GateExit
<1>3. ASSUME NEW p \in Workers, GatePass(p) PROVE CacheInv'
  BY <1>3 DEF GatePass
<1>4. ASSUME NEW p \in Workers, SelectResumable(p) PROVE CacheInv'
  BY <1>4 DEF SelectResumable
<1>5. ASSUME NEW p \in Workers, SelectPending(p) PROVE CacheInv'
  BY <1>5 DEF SelectPending
<1>6. ASSUME NEW p \in Workers, ScanSkip(p) PROVE CacheInv'
  BY <1>6 DEF ScanSkip
<1>7. ASSUME NEW p \in Workers, ScanPick(p) PROVE CacheInv'
  BY <1>7 DEF ScanPick
<1>8. ASSUME NEW p \in Workers, ScanEmpty(p) PROVE CacheInv'
  BY <1>8 DEF ScanEmpty
<1>9. ASSUME NEW p \in Workers, TryClaim(p) PROVE CacheInv'
  BY <1>9 DEF TryClaim
<1>10. ASSUME NEW p \in Workers, TryClaimLost(p) PROVE CacheInv'
  BY <1>10 DEF TryClaimLost
<1>11. ASSUME NEW p \in Workers, FillClaim(p) PROVE CacheInv'
  BY <1>11 DEF FillClaim
<1>12. ASSUME NEW p \in Workers, RefreshClaim(p) PROVE CacheInv'
  BY <1>12 DEF RefreshClaim
<1>13. ASSUME NEW p \in Workers, ClaimShard(p) PROVE CacheInv'
  BY <1>13 DEF ClaimShard
<1>14. ASSUME NEW p \in Workers, ClaimRefused(p) PROVE CacheInv'
  BY <1>14 DEF ClaimRefused
<1>15. ASSUME NEW p \in Workers, LoseRace(p) PROVE CacheInv'
  BY <1>15 DEF LoseRace
<1>16. ASSUME NEW p \in Workers, CacheHit(p) PROVE CacheInv'
  BY <1>16 DEF CacheHit
<1>17. ASSUME NEW p \in Workers, BeginScoring(p) PROVE CacheInv'
  BY <1>17 DEF BeginScoring
<1>18. ASSUME NEW p \in Workers, Flush(p) PROVE CacheInv'
  BY <1>18 DEF Flush
<1>19. ASSUME NEW p \in Workers, FinishScoring(p) PROVE CacheInv'
  <2>1. /\ pc[p] = "scoring" /\ target[p] \in Shards
        /\ pc' = [pc EXCEPT ![p] = "persist"]
        /\ cache' = [cache EXCEPT ![target[p]] = [by |-> p, whole |-> TRUE]]
        /\ UNCHANGED <<state, sha, target, hash>>
    BY <1>19 DEF FinishScoring
  <2>2. [by |-> p, whole |-> TRUE] # None
    BY ClaimFiles
  <2> QED
    BY <2>1, <2>2
<1>20. ASSUME NEW p \in Workers, ScorerRaises(p) PROVE CacheInv'
  BY <1>20 DEF ScorerRaises
<1>21. ASSUME NEW p \in Workers, Checkpoint(p) PROVE CacheInv'
  <2>1. /\ pc[p] = "scoring" /\ target[p] \in Shards
        /\ pc' = [pc EXCEPT ![p] = "mark_resume"]
        /\ UNCHANGED <<state, sha, target, hash>>
    BY <1>21 DEF Checkpoint
  <2>2. \/ cache' = cache
        \/ cache' = [cache EXCEPT ![target[p]] = [by |-> p, whole |-> FALSE]]
    BY <1>21 DEF Checkpoint
  <2>3. [by |-> p, whole |-> FALSE] # None
    BY ClaimFiles
  <2>4. CASE cache' = cache
    BY <2>1, <2>4
  <2>5. CASE cache' = [cache EXCEPT ![target[p]] = [by |-> p, whole |-> FALSE]]
    BY <2>1, <2>3, <2>5
  <2> QED
    BY <2>2, <2>4, <2>5
<1>22. ASSUME NEW p \in Workers, PersistSkip(p) PROVE CacheInv'
  BY <1>22 DEF PersistSkip
<1>23. ASSUME NEW p \in Workers, PersistOpen(p) PROVE CacheInv'
  <2>1. pc[p] = "persist" /\ cache[target[p]] = None
    BY <1>23 DEF PersistOpen
  <2> QED
    BY <2>1
<1>24. ASSUME NEW p \in Workers, PersistDump(p) PROVE CacheInv'
  <2>1. pc[p] = "dump"
    BY <1>24 DEF PersistDump
  <2> QED
    BY <2>1
<1>25. ASSUME NEW p \in Workers, HashCache(p) PROVE CacheInv'
  BY <1>25 DEF HashCache
<1>26. ASSUME NEW p \in Workers, MarkDone(p) PROVE CacheInv'
  BY <1>26 DEF MarkDone
<1>27. ASSUME NEW p \in Workers, MarkFailed(p) PROVE CacheInv'
  BY <1>27 DEF MarkFailed
<1>28. ASSUME NEW p \in Workers, MarkResume(p) PROVE CacheInv'
  BY <1>28 DEF MarkResume
<1>29. ASSUME NEW p \in Workers, MarkRefused(p) PROVE CacheInv'
  BY <1>29 DEF MarkRefused
<1>30. ASSUME NEW p \in Workers, ReleaseClaim(p) PROVE CacheInv'
  BY <1>30 DEF ReleaseClaim
<1>31. ASSUME NEW p \in Workers, Die(p) PROVE CacheInv'
  BY <1>31 DEF Die
<1>32. ASSUME NEW p \in Workers, Signal(p) PROVE CacheInv'
  BY <1>32 DEF Signal
<1>33. ASSUME NEW w \in Sweepers, SweepStart(w) PROVE CacheInv'
  BY <1>33 DEF SweepStart
<1>34. ASSUME NEW w \in Sweepers, SweepMissing(w) PROVE CacheInv'
  BY <1>34 DEF SweepMissing
<1>35. ASSUME NEW w \in Sweepers, SweepStatus(w) PROVE CacheInv'
  BY <1>35 DEF SweepStatus
<1>36. ASSUME NEW w \in Sweepers, SweepStat(w) PROVE CacheInv'
  BY <1>36 DEF SweepStat
<1>37. ASSUME NEW w \in Sweepers, SweepRead(w) PROVE CacheInv'
  BY <1>37 DEF SweepRead
<1>38. ASSUME NEW w \in Sweepers, SweepProbe(w) PROVE CacheInv'
  BY <1>38 DEF SweepProbe
<1>39. ASSUME NEW w \in Sweepers, SweepUnlink(w) PROVE CacheInv'
  BY <1>39 DEF SweepUnlink
<1>40. ASSUME NEW w \in Sweepers, SweepRestore(w) PROVE CacheInv'
  BY <1>40 DEF SweepRestore
<1>41. ASSUME NEW w \in Sweepers, SweepEnd(w) PROVE CacheInv'
  BY <1>41 DEF SweepEnd
<1>42. ASSUME NEW w \in Sweepers, SweeperDies(w) PROVE CacheInv'
  BY <1>42 DEF SweeperDies
<1>43. ASSUME NEW s \in Shards, Age(s) PROVE CacheInv'
  BY <1>43 DEF Age
<1>44. CASE TogglePause
  BY <1>44 DEF TogglePause
<1>45. CASE UNCHANGED vars
  BY <1>45 DEF vars
<1> QED
  BY <1>1, <1>2, <1>3, <1>4, <1>5, <1>6, <1>7, <1>8, <1>9, <1>10, <1>11, <1>12, <1>13,
     <1>14, <1>15, <1>16, <1>17, <1>18, <1>19, <1>20, <1>21, <1>22, <1>23, <1>24,
     <1>25, <1>26, <1>27, <1>28, <1>29, <1>30, <1>31, <1>32, <1>33, <1>34, <1>35,
     <1>36, <1>37, <1>38, <1>39, <1>40, <1>41, <1>42, <1>43, <1>44, <1>45
  DEF Next, Loop, Process, Sweep, Rest

\* DoneMatchesCache, for a scorer that writes its cache itself: what aggregate
\* and verify find beside a done shard is whole and is what was hashed.
THEOREM PoolDoneMatchesCache ==
    ASSUME NoSweepers, Scorer # "recordsOnly" PROVE Spec => []DoneMatchesCache
<1>1. Init => CacheInv
  BY DEF Init, CacheInv, DoneMatchesCache
<1>2. Scorer # "recordsOnly" => (TypeInv /\ BusyAlone /\ CacheInv /\ [Next]_vars => CacheInv')
  BY CacheStep
<1>3. LiveWorkerKeepsShard => BusyAlone
  BY DEF LiveWorkerKeepsShard, BusyAlone, ExclusiveScoring
<1>4. CacheInv => DoneMatchesCache
  BY DEF CacheInv
<1> QED
  BY <1>1, <1>2, <1>3, <1>4, TypeInvariant, PoolKeepsShard, PTL DEF Spec

\* The same beside a single sweep in the whole run: a shard that it put back
\* after it was done is done again only with the cache that was hashed again.
THEOREM SweptDoneMatchesCache ==
    ASSUME SingleSweep, "checkpoint" \notin Faults, Scorer # "recordsOnly"
    PROVE  Spec => []DoneMatchesCache
<1>1. Init => CacheInv
  BY DEF Init, CacheInv, DoneMatchesCache
<1>2. Scorer # "recordsOnly" => (TypeInv /\ BusyAlone /\ CacheInv /\ [Next]_vars => CacheInv')
  BY CacheStep
<1>3. SweptInv /\ ExclusiveScoring => BusyAlone
  BY DEF SweptInv, WorkerInv, BusyAlone
<1>4. CacheInv => DoneMatchesCache
  BY DEF CacheInv
<1> QED
  BY <1>1, <1>2, <1>3, <1>4, TypeInvariant, SweptInvariant, SweptScoresAlone, PTL DEF Spec

----------------------------------------------------------------------------
(* No shard is forgotten: why a worker that finds nothing to claim may end *)
(* although shards are pending.                                            *)

NoneDied == \A p \in Workers : pc[p] # "dead"

\* A worker passed by the pending shards that it did not select because they
\* had claim files; one that owns a shard, or lost it, knows it is not pending.
Selected(p) ==
    /\ pc[p] \in {"scan", "create", "fill"} => expect[p] = "pending"
    /\ pc[p] \in BusyAt \cup {"race", "release", "bail", "refresh"} =>
          state[target[p]] # "pending"
    /\ pc[p] = "claim" /\ expect[p] # "pending" => state[target[p]] # "pending"
    /\ pc[p] = "drained" => todo[p] = {}
    /\ pc[p] \in {"scan", "drained"} =>
          \A s \in Shards : state[s] = "pending" /\ s \notin todo[p] => claim[s] # None

\* The claim file of a pending shard belongs to a worker about to claim it.
Wanted(s) ==
    NoneDied /\ state[s] = "pending" /\ claim[s] # None =>
        pc[claim[s].by] \in {"fill", "claim"} /\ target[claim[s].by] = s

StrandInv == (\A p \in Workers : Selected(p)) /\ (\A s \in Shards : Wanted(s))

LEMMA StrandStep ==
    ASSUME NoSweepers, TypeInv, StrandInv, [Next]_vars
    PROVE  StrandInv'
<1> USE ConstantsAssumption
    DEF TypeInv, TypeOK, TargetOK, AtShard, BusyAt, StrandInv, Selected, Wanted, NoneDied,
        File, Stopped, WorkerPC, Goto, SetState, SetClaim, files, workerVars, sweeperVars
<1>1. ASSUME NEW p \in Workers, Start(p) PROVE StrandInv'
  BY <1>1 DEF Start
<1>2. ASSUME NEW p \in Workers, GateExit(p) PROVE StrandInv'
  BY <1>2 DEF GateExit
<1>3. ASSUME NEW p \in Workers, GatePass(p) PROVE StrandInv'
  BY <1>3 DEF GatePass
<1>4. ASSUME NEW p \in Workers, SelectResumable(p) PROVE StrandInv'
  BY <1>4 DEF SelectResumable, Resumable, IsLeast
<1>5. ASSUME NEW p \in Workers, SelectPending(p) PROVE StrandInv'
  BY <1>5 DEF SelectPending, Pending
<1>6. ASSUME NEW p \in Workers, ScanSkip(p) PROVE StrandInv'
  BY <1>6 DEF ScanSkip, IsLeast
<1>7. ASSUME NEW p \in Workers, ScanPick(p) PROVE StrandInv'
  BY <1>7 DEF ScanPick, IsLeast
<1>8. ASSUME NEW p \in Workers, ScanEmpty(p) PROVE StrandInv'
  BY <1>8 DEF ScanEmpty
<1>9. ASSUME NEW p \in Workers, TryClaim(p) PROVE StrandInv'
  BY <1>9 DEF TryClaim
<1>10. ASSUME NEW p \in Workers, TryClaimLost(p) PROVE StrandInv'
  BY <1>10 DEF TryClaimLost
<1>11. ASSUME NEW p \in Workers, FillClaim(p) PROVE StrandInv'
  <2>1. CASE claim' = claim
    BY <1>11, <2>1 DEF FillClaim
  <2>2. CASE claim' = [claim EXCEPT ![target[p]] = [by |-> p, whole |-> TRUE]]
    <3>1. /\ pc[p] = "fill" /\ target[p] \in Shards /\ expect[p] = "pending"
          /\ pc' = [pc EXCEPT ![p] = "claim"]
          /\ UNCHANGED <<state, target, expect, todo>>
      BY <1>11 DEF FillClaim
    <3>2. ASSUME NEW q \in Workers PROVE Selected(q)'
      <4>1. \A s \in Shards : claim[s] # None => claim'[s] # None
        <5>1. [by |-> p, whole |-> TRUE] # None
          BY ClaimFiles
        <5> QED
          BY <2>2, <5>1
      <4>2. pc'[q] = IF q = p THEN "claim" ELSE pc[q]
        BY <3>1
      <4> QED
        BY <3>1, <4>1, <4>2
    <3>3. \A s \in Shards : Wanted(s)'
      BY <2>2, <3>1
    <3> QED
      BY <3>2, <3>3
  <2> QED
    BY <1>11, <2>1, <2>2 DEF FillClaim
<1>12. ASSUME NEW p \in Workers, RefreshClaim(p) PROVE StrandInv'
  BY <1>12 DEF RefreshClaim
<1>13. ASSUME NEW p \in Workers, ClaimShard(p) PROVE StrandInv'
  BY <1>13 DEF ClaimShard
<1>14. ASSUME NEW p \in Workers, ClaimRefused(p) PROVE StrandInv'
  BY <1>14 DEF ClaimRefused
<1>15. ASSUME NEW p \in Workers, LoseRace(p) PROVE StrandInv'
  BY <1>15 DEF LoseRace
<1>16. ASSUME NEW p \in Workers, CacheHit(p) PROVE StrandInv'
  BY <1>16 DEF CacheHit
<1>17. ASSUME NEW p \in Workers, BeginScoring(p) PROVE StrandInv'
  BY <1>17 DEF BeginScoring
<1>18. ASSUME NEW p \in Workers, Flush(p) PROVE StrandInv'
  BY <1>18 DEF Flush
<1>19. ASSUME NEW p \in Workers, FinishScoring(p) PROVE StrandInv'
  BY <1>19 DEF FinishScoring
<1>20. ASSUME NEW p \in Workers, ScorerRaises(p) PROVE StrandInv'
  BY <1>20 DEF ScorerRaises
<1>21. ASSUME NEW p \in Workers, Checkpoint(p) PROVE StrandInv'
  BY <1>21 DEF Checkpoint
<1>22. ASSUME NEW p \in Workers, PersistSkip(p) PROVE StrandInv'
  BY <1>22 DEF PersistSkip
<1>23. ASSUME NEW p \in Workers, PersistOpen(p) PROVE StrandInv'
  BY <1>23 DEF PersistOpen
<1>24. ASSUME NEW p \in Workers, PersistDump(p) PROVE StrandInv'
  BY <1>24 DEF PersistDump
<1>25. ASSUME NEW p \in Workers, HashCache(p) PROVE StrandInv'
  BY <1>25 DEF HashCache
<1>26. ASSUME NEW p \in Workers, MarkDone(p) PROVE StrandInv'
  BY <1>26 DEF MarkDone
<1>27. ASSUME NEW p \in Workers, MarkFailed(p) PROVE StrandInv'
  BY <1>27 DEF MarkFailed
<1>28. ASSUME NEW p \in Workers, MarkResume(p) PROVE StrandInv'
  BY <1>28 DEF MarkResume
<1>29. ASSUME NEW p \in Workers, MarkRefused(p) PROVE StrandInv'
  BY <1>29 DEF MarkRefused
<1>30. ASSUME NEW p \in Workers, ReleaseClaim(p) PROVE StrandInv'
  <2>1. PICK l \in {"gate", "exited"} : pc' = [pc EXCEPT ![p] = l]
    BY <1>30 DEF ReleaseClaim
  <2>2. /\ pc[p] \in {"release", "bail"} /\ target[p] \in Shards
        /\ claim' = [claim EXCEPT ![target[p]] = None]
        /\ UNCHANGED <<state, target, expect, todo>>
    BY <1>30 DEF ReleaseClaim
  <2>3. \A q \in Workers : Selected(q)'
    BY <2>1, <2>2
  <2>4. \A s \in Shards : Wanted(s)'
    BY <2>1, <2>2
  <2> QED
    BY <2>3, <2>4
<1>31. ASSUME NEW p \in Workers, Die(p) PROVE StrandInv'
  BY <1>31 DEF Die
<1>32. ASSUME NEW p \in Workers, Signal(p) PROVE StrandInv'
  BY <1>32 DEF Signal
<1>33. ASSUME NEW s \in Shards, Age(s) PROVE StrandInv'
  BY <1>33 DEF Age
<1>34. CASE TogglePause
  BY <1>34 DEF TogglePause
<1>35. CASE UNCHANGED vars
  BY <1>35 DEF vars
<1> QED
  BY <1>1, <1>2, <1>3, <1>4, <1>5, <1>6, <1>7, <1>8, <1>9, <1>10, <1>11,
     <1>12, <1>13, <1>14, <1>15, <1>16, <1>17, <1>18, <1>19, <1>20, <1>21, <1>22,
     <1>23, <1>24, <1>25, <1>26, <1>27, <1>28, <1>29, <1>30, <1>31, <1>32, <1>33,
     <1>34, <1>35
  DEF NoSweepers, Next, Loop, Process, Rest

\* NothingStranded: when every worker that ran has stopped, one of them because
\* nothing was claimable, and none died, no shard was left pending.  A worker
\* that drained saw the claim file of each shard that was still pending, and
\* whoever created that file went on to claim the shard.
THEOREM PoolStrandsNothing == ASSUME NoSweepers PROVE Spec => []NothingStranded
<1>1. Init => StrandInv
  BY DEF Init, StrandInv, Selected, Wanted, BusyAt
<1>2. NoSweepers => (TypeInv /\ StrandInv /\ [Next]_vars => StrandInv')
  BY StrandStep
<1>3. TypeInv /\ StrandInv => NothingStranded
  <2> SUFFICES ASSUME TypeInv, StrandInv, Quiet, NoneDied,
                      NEW p \in Workers, pc[p] = "drained",
                      NEW s \in Shards, state[s] = "pending"
               PROVE  FALSE
    BY DEF NothingStranded, Pending, NoneDied
  <2>1. claim[s] # None
    BY DEF StrandInv, Selected
  <2>2. claim[s].by \in Workers /\ pc[claim[s].by] \in {"fill", "claim"}
    BY <2>1 DEF StrandInv, Wanted, TypeInv, TypeOK, File
  <2> QED
    BY <2>2 DEF Quiet, Alive, Stopped
<1> QED
  BY <1>1, <1>2, <1>3, TypeInvariant, PTL DEF Spec
=============================================================================
