------------------------------ MODULE ShardRun ------------------------------
(***************************************************************************)
(* One sharded calibration run on one host: the workers of `shard_runner   *)
(* work`, the `sweep-stale` processes that clean up after dead workers,    *)
(* and the files they coordinate through:                                  *)
(*                                                                         *)
(*   state.json      one entry per shard, read-modify-written under        *)
(*                   state_update_lock and replaced atomically; readers    *)
(*                   outside the lock see one whole version of it;         *)
(*   <shard>/.claim  the claim file: created O_EXCL and then filled,       *)
(*                   replaced whole on a resume, unlinked without looking; *)
(*   <shard>/cache.json  the records a scorer writes; state.json keeps the *)
(*                   hash of the finished one;                             *)
(*   .pause          the operator's pause marker.                          *)
(*                                                                         *)
(* The run is not git-synced here (pull_state and push_state do nothing    *)
(* outside a git tree).  A worker process never comes back: a restart is   *)
(* another element of Workers.  A step of a process is one file operation, *)
(* one probe of a pid or one locked update, so that other processes may    *)
(* act between what a process reads and what it does with it.              *)
(***************************************************************************)
EXTENDS Naturals

CONSTANTS
    ShardCount,     \* shards of the run; ids are 0 .. ShardCount - 1
    Workers,        \* `work` processes, each started at most once
    Sweepers,       \* `sweep-stale` processes, each started at most once
    IncludeResume,  \* the sweepers started with --include-resume
    Scorer,         \* how the task surface treats cache.json
    Faults,         \* what the environment may do in this instance
    None            \* no file, no owner, no target

AllFaults ==
    { "kill",        \* a worker dies: SIGKILL, SystemExit, power loss
      "sweepkill",   \* a sweeper dies
      "raise",       \* a scorer raises an Exception
      "sigterm",     \* SIGTERM or SIGINT reaches a worker
      "checkpoint",  \* the scorer honours the SigtermInterrupt contract
      "pause",       \* the operator runs pause-all and pause-all --clear
      "window" }     \* --time-window was given and may close

Scorers ==
    { "resuming",      \* calibration_survey: reuses a whole cache
      "rewriting",     \* corpus_hygiene: rescores and overwrites
      "recordsOnly" }  \* returns its records and leaves the cache to us

Shards == 0 .. ShardCount - 1

\* A claim file or a cache file: who wrote it last and whether the write
\* was finished.  sha256_file is injective on the contents told apart here.
File == [by : Workers, whole : BOOLEAN]

ASSUME ConstantsAssumption ==
    /\ ShardCount \in Nat \ {0}
    /\ IncludeResume \subseteq Sweepers
    /\ Scorer \in Scorers
    /\ Faults \subseteq AllFaults
    /\ None \notin Workers
    /\ None \notin File
    /\ None \notin Shards

VARIABLES
    state,   \* state[s]: the shard's "state" in state.json
    owner,   \* owner[s]: claimed_by_pid in state.json
    sha,     \* sha[s]: cache_sha256 in state.json
    claim,   \* claim[s]: the claim file
    aged,    \* shards whose claim file is older than --stale-hours
    cache,   \* cache[s]: the cache file
    paused,  \* the pause marker exists
    pc,      \* pc[p]: where the worker is
    target,  \* target[p]: the shard the worker selected
    expect,  \* expect[p]: the state it expects to find the shard in
    todo,    \* todo[p]: pending shards whose claim file it has yet to test
    flag,    \* flag[p]: _SigtermFlag.tripped
    hash,    \* hash[p]: the cache hash it computed
    spc,     \* spc[w]: where the sweeper is
    stodo,   \* stodo[w]: shard directories still to visit
    sresume, \* sresume[w]: resumable shards in the snapshot it read
    starget, \* starget[w]: the shard it is visiting
    sowner   \* sowner[w]: the worker named by the claim file it has read

files == <<state, owner, sha, claim, aged, cache, paused>>
workerVars == <<pc, target, expect, todo, flag, hash>>
sweeperVars == <<spc, stodo, sresume, starget, sowner>>
vars == <<files, workerVars, sweeperVars>>

ShardStates == {"pending", "claimed", "claimed_pending_resume", "done", "failed"}

Stopped == {"new", "drained", "exited", "dead"}

\* The worker owns the shard according to its own control flow: it passed
\* claim_shard and has not yet recorded an outcome.
BusyAt == {"begin", "scoring", "persist", "dump", "hash",
           "mark_done", "mark_failed", "mark_resume"}

WorkerPC == Stopped \cup BusyAt \cup
    {"gate", "read", "scan", "create", "fill", "refresh", "claim", "race",
     "release", "bail"}

Sweeping == {"walk", "read", "stat", "probe", "unlink", "restore"}

SweeperPC == Sweeping \cup {"new", "exited", "dead"}

Alive(p) == pc[p] \notin Stopped
Busy(p)  == pc[p] \in BusyAt

TypeOK ==
    /\ state \in [Shards -> ShardStates]
    /\ owner \in [Shards -> Workers \cup {None}]
    /\ sha \in [Shards -> File \cup {None}]
    /\ claim \in [Shards -> File \cup {None}]
    /\ aged \subseteq Shards
    /\ cache \in [Shards -> File \cup {None}]
    /\ paused \in BOOLEAN
    /\ pc \in [Workers -> WorkerPC]
    /\ target \in [Workers -> Shards \cup {None}]
    /\ expect \in [Workers -> {"pending", "claimed_pending_resume"}]
    /\ todo \in [Workers -> SUBSET Shards]
    /\ flag \in [Workers -> BOOLEAN]
    /\ hash \in [Workers -> File \cup {None}]
    /\ spc \in [Sweepers -> SweeperPC]
    /\ stodo \in [Sweepers -> SUBSET Shards]
    /\ sresume \in [Sweepers -> SUBSET Shards]
    /\ starget \in [Sweepers -> Shards \cup {None}]
    /\ sowner \in [Sweepers -> Workers \cup {None}]

Init ==
    /\ state = [s \in Shards |-> "pending"]
    /\ owner = [s \in Shards |-> None]
    /\ sha = [s \in Shards |-> None]
    /\ claim = [s \in Shards |-> None]
    /\ aged = {}
    /\ cache = [s \in Shards |-> None]
    /\ paused = FALSE
    /\ pc = [p \in Workers |-> "new"]
    /\ target = [p \in Workers |-> None]
    /\ expect = [p \in Workers |-> "pending"]
    /\ todo = [p \in Workers |-> {}]
    /\ flag = [p \in Workers |-> FALSE]
    /\ hash = [p \in Workers |-> None]
    /\ spc = [w \in Sweepers |-> "new"]
    /\ stodo = [w \in Sweepers |-> {}]
    /\ sresume = [w \in Sweepers |-> {}]
    /\ starget = [w \in Sweepers |-> None]
    /\ sowner = [w \in Sweepers |-> None]

-----------------------------------------------------------------------------
(* Small steps shared by several actions.                                  *)

Goto(p, from, to) == pc[p] = from /\ pc' = [pc EXCEPT ![p] = to]
SGoto(w, from, to) == spc[w] = from /\ spc' = [spc EXCEPT ![w] = to]

IsLeast(s, S) == s \in S /\ \A t \in S : s <= t

\* The claim file of s becomes f (None: unlinked); a new file is young.
SetClaim(s, f) ==
    /\ claim' = [claim EXCEPT ![s] = f]
    /\ aged' = aged \ {s}

\* A read-modify-write of shard s's entry under state_update_lock.
SetState(s, to) == state' = [state EXCEPT ![s] = to]

-----------------------------------------------------------------------------
(* The worker loop, _run_single_worker.                                    *)

Start(p) ==
    /\ Goto(p, "new", "gate")
    /\ UNCHANGED <<files, target, expect, todo, flag, hash, sweeperVars>>

\* `while not flag.tripped`, then the pause gate, then the time window.
GateExit(p) ==
    /\ Goto(p, "gate", "exited")
    /\ flag[p] \/ paused \/ "window" \in Faults
    /\ UNCHANGED <<files, target, expect, todo, flag, hash, sweeperVars>>

GatePass(p) ==
    /\ Goto(p, "gate", "read")
    /\ ~flag[p] /\ ~paused
    /\ UNCHANGED <<files, target, expect, todo, flag, hash, sweeperVars>>

\* MUTATION of Pending: the last shard is cut off.
PendingButLast == {s \in Shards : state[s] = "pending" /\ s + 1 < ShardCount}

Resumable == {s \in Shards : state[s] = "claimed_pending_resume"}
Pending == {s \in Shards : state[s] = "pending"}

\* read_state and the first half of _select_next_shard: a resumable shard
\* of this host wins, whoever checkpointed it.
SelectResumable(p) ==
    /\ Goto(p, "read", "refresh")
    /\ \E s \in Resumable :
         /\ IsLeast(s, Resumable)
         /\ target' = [target EXCEPT ![p] = s]
    /\ expect' = [expect EXCEPT ![p] = "claimed_pending_resume"]
    /\ UNCHANGED <<files, todo, flag, hash, sweeperVars>>

SelectPending(p) ==
    /\ Goto(p, "read", "scan")
    /\ Resumable = {}
    /\ todo' = [todo EXCEPT ![p] = Pending]
    /\ expect' = [expect EXCEPT ![p] = "pending"]
    /\ UNCHANGED <<files, target, flag, hash, sweeperVars>>

\* MUTATION of ScanPick: no filter on the claim file.
ScanPickUnfiltered(p) ==
    /\ Goto(p, "scan", "create")
    /\ \E s \in todo[p] :
         /\ IsLeast(s, todo[p])
         /\ target' = [target EXCEPT ![p] = s]
    /\ todo' = [todo EXCEPT ![p] = {}]
    /\ UNCHANGED <<files, expect, flag, hash, sweeperVars>>

\* The second half: the snapshot's pending shards in order, each tested for
\* a claim file; the first without one is the target.
ScanSkip(p) ==
    /\ pc[p] = "scan"
    /\ \E s \in todo[p] :
         /\ IsLeast(s, todo[p])
         /\ claim[s] # None
         /\ todo' = [todo EXCEPT ![p] = @ \ {s}]
    /\ UNCHANGED <<files, pc, target, expect, flag, hash, sweeperVars>>

ScanPick(p) ==
    /\ Goto(p, "scan", "create")
    /\ \E s \in todo[p] :
         /\ IsLeast(s, todo[p])
         /\ claim[s] = None
         /\ target' = [target EXCEPT ![p] = s]
    /\ todo' = [todo EXCEPT ![p] = {}]
    /\ UNCHANGED <<files, expect, flag, hash, sweeperVars>>

\* "no claimable shards remain": the worker ends.
ScanEmpty(p) ==
    /\ Goto(p, "scan", "drained")
    /\ todo[p] = {}
    /\ UNCHANGED <<files, target, expect, todo, flag, hash, sweeperVars>>

\* MUTATION of TryClaim: O_EXCL forgotten.
TryClaimNotExclusive(p) ==
    /\ Goto(p, "create", "fill")
    /\ SetClaim(target[p], [by |-> p, whole |-> FALSE])
    /\ UNCHANGED <<state, owner, sha, cache, paused, target, expect, todo,
                   flag, hash, sweeperVars>>

\* try_claim_shard_atomically: O_CREAT | O_EXCL leaves an empty file ...
TryClaim(p) ==
    /\ Goto(p, "create", "fill")
    /\ claim[target[p]] = None
    /\ SetClaim(target[p], [by |-> p, whole |-> FALSE])
    /\ UNCHANGED <<state, owner, sha, cache, paused, target, expect, todo,
                   flag, hash, sweeperVars>>

\* MUTATION of TryClaimLost: the loser of the race cleans up.
TryClaimLostReleases(p) ==
    /\ Goto(p, "create", "gate")
    /\ claim[target[p]] # None
    /\ SetClaim(target[p], None)
    /\ UNCHANGED <<state, owner, sha, cache, paused, target, expect, todo,
                   flag, hash, sweeperVars>>

\* MUTATION of TryClaimLost: `break` for `continue`.
TryClaimLostStops(p) ==
    /\ Goto(p, "create", "drained")
    /\ claim[target[p]] # None
    /\ UNCHANGED <<files, target, expect, todo, flag, hash, sweeperVars>>

\* ... or fails on the file of another worker: `continue`.
TryClaimLost(p) ==
    /\ Goto(p, "create", "gate")
    /\ claim[target[p]] # None
    /\ UNCHANGED <<files, target, expect, todo, flag, hash, sweeperVars>>

\* ... and os.write fills it.  If the file was unlinked meanwhile the bytes
\* go to an inode that has no name.
FillClaim(p) ==
    /\ Goto(p, "fill", "claim")
    /\ claim' = IF claim[target[p]] = [by |-> p, whole |-> FALSE]
                THEN [claim EXCEPT ![target[p]] = [by |-> p, whole |-> TRUE]]
                ELSE claim
    /\ UNCHANGED <<state, owner, sha, aged, cache, paused, target, expect,
                   todo, flag, hash, sweeperVars>>

\* refresh_claim_file: whatever is there is replaced.
RefreshClaim(p) ==
    /\ Goto(p, "refresh", "claim")
    /\ SetClaim(target[p], [by |-> p, whole |-> TRUE])
    /\ UNCHANGED <<state, owner, sha, cache, paused, target, expect, todo,
                   flag, hash, sweeperVars>>

\* MUTATION of ClaimShard: expected_state is not compared.
ClaimShardUnchecked(p) ==
    /\ Goto(p, "claim", "begin")
    /\ SetState(target[p], "claimed")
    /\ owner' = [owner EXCEPT ![target[p]] = p]
    /\ UNCHANGED <<sha, claim, aged, cache, paused, target, expect, todo,
                   flag, hash, sweeperVars>>

\* claim_shard under the lock.
ClaimShard(p) ==
    /\ Goto(p, "claim", "begin")
    /\ state[target[p]] = expect[p]
    /\ SetState(target[p], "claimed")
    /\ owner' = [owner EXCEPT ![target[p]] = p]
    /\ UNCHANGED <<sha, claim, aged, cache, paused, target, expect, todo,
                   flag, hash, sweeperVars>>

ClaimRefused(p) ==
    /\ Goto(p, "claim", "race")
    /\ state[target[p]] # expect[p]
    /\ UNCHANGED <<files, target, expect, todo, flag, hash, sweeperVars>>

\* The soft-race branch: release_claim, then `continue`.
LoseRace(p) ==
    /\ Goto(p, "race", "gate")
    /\ SetClaim(target[p], None)
    /\ UNCHANGED <<state, owner, sha, cache, paused, target, expect, todo,
                   flag, hash, sweeperVars>>

-----------------------------------------------------------------------------
(* One shard, _process_shard and the scorer it calls.                      *)

WriteCache(p, whole) ==
    cache' = [cache EXCEPT ![target[p]] = [by |-> p, whole |-> whole]]

\* load_or_score_corpus returns the records of a whole cache unscored.
CacheHit(p) ==
    /\ Goto(p, "begin", "persist")
    /\ Scorer = "resuming"
    /\ cache[target[p]] # None /\ cache[target[p]].whole
    /\ UNCHANGED <<files, target, expect, todo, flag, hash, sweeperVars>>

BeginScoring(p) ==
    /\ Goto(p, "begin", "scoring")
    /\ Scorer = "resuming" =>
         ~(cache[target[p]] # None /\ cache[target[p]].whole)
    /\ UNCHANGED <<files, target, expect, todo, flag, hash, sweeperVars>>

\* A partial cache: an in_progress flush, or the truncated file that
\* corpus_hygiene's open("w") leaves until its dump ends.
Flush(p) ==
    /\ pc[p] = "scoring"
    /\ Scorer # "recordsOnly"
    /\ cache[target[p]] # [by |-> p, whole |-> FALSE]
    /\ WriteCache(p, FALSE)
    /\ UNCHANGED <<state, owner, sha, claim, aged, paused, workerVars,
                   sweeperVars>>

\* MUTATION of FinishScoring: the last flush is taken for the final write.
FinishScoringUnwritten(p) ==
    /\ Goto(p, "scoring", "persist")
    /\ UNCHANGED <<files, target, expect, todo, flag, hash, sweeperVars>>

FinishScoring(p) ==
    /\ Goto(p, "scoring", "persist")
    /\ IF Scorer = "recordsOnly" THEN UNCHANGED cache ELSE WriteCache(p, TRUE)
    /\ UNCHANGED <<state, owner, sha, claim, aged, paused, target, expect,
                   todo, flag, hash, sweeperVars>>

ScorerRaises(p) ==
    /\ Goto(p, "scoring", "mark_failed")
    /\ "raise" \in Faults
    /\ UNCHANGED <<files, target, expect, todo, flag, hash, sweeperVars>>

\* MUTATION of Checkpoint: the worker exits and leaves the entry as it is.
CheckpointUnmarked(p) ==
    /\ Goto(p, "scoring", "exited")
    /\ "checkpoint" \in Faults
    /\ flag[p]
    /\ UNCHANGED <<files, target, expect, todo, flag, hash, sweeperVars>>

\* The scorer sees the tripped flag, flushes what it has (it may have
\* nothing) and raises SigtermInterrupt.
Checkpoint(p) ==
    /\ Goto(p, "scoring", "mark_resume")
    /\ "checkpoint" \in Faults
    /\ flag[p]
    /\ UNCHANGED cache \/ WriteCache(p, FALSE)
    /\ UNCHANGED <<state, owner, sha, claim, aged, paused, target, expect,
                   todo, flag, hash, sweeperVars>>

\* `if not cp.exists()`: the runner opens the cache for a scorer that wrote
\* none and dumps the records into it.
PersistSkip(p) ==
    /\ Goto(p, "persist", "hash")
    /\ cache[target[p]] # None
    /\ UNCHANGED <<files, target, expect, todo, flag, hash, sweeperVars>>

PersistOpen(p) ==
    /\ Goto(p, "persist", "dump")
    /\ cache[target[p]] = None
    /\ WriteCache(p, FALSE)
    /\ UNCHANGED <<state, owner, sha, claim, aged, paused, target, expect,
                   todo, flag, hash, sweeperVars>>

PersistDump(p) ==
    /\ Goto(p, "dump", "hash")
    /\ WriteCache(p, TRUE)
    /\ UNCHANGED <<state, owner, sha, claim, aged, paused, target, expect,
                   todo, flag, hash, sweeperVars>>

HashCache(p) ==
    /\ Goto(p, "hash", "mark_done")
    /\ hash' = [hash EXCEPT ![p] = cache[target[p]]]
    /\ UNCHANGED <<files, target, expect, todo, flag, sweeperVars>>

\* mark_done accepts a claimed or a resumable shard, whoever holds it.
MarkDone(p) ==
    /\ Goto(p, "mark_done", "release")
    /\ state[target[p]] \in {"claimed", "claimed_pending_resume"}
    /\ SetState(target[p], "done")
    /\ sha' = [sha EXCEPT ![target[p]] = hash[p]]
    /\ UNCHANGED <<owner, claim, aged, cache, paused, target, expect, todo,
                   flag, hash, sweeperVars>>

\* MUTATION of MarkFailed: a state that VALID_SHARD_STATES does not list.
MarkFailedMisspelt(p) ==
    /\ Goto(p, "mark_failed", "bail")
    /\ SetState(target[p], "error")
    /\ UNCHANGED <<owner, sha, claim, aged, cache, paused, target, expect, todo,
                   flag, hash, sweeperVars>>

\* mark_failed has no precondition.
MarkFailed(p) ==
    /\ Goto(p, "mark_failed", "bail")
    /\ SetState(target[p], "failed")
    /\ UNCHANGED <<owner, sha, claim, aged, cache, paused, target, expect,
                   todo, flag, hash, sweeperVars>>

\* MUTATION of MarkResume: the shard goes back to the queue.
MarkResumePending(p) ==
    /\ Goto(p, "mark_resume", "exited")
    /\ SetState(target[p], "pending")
    /\ UNCHANGED <<owner, sha, claim, aged, cache, paused, target, expect, todo,
                   flag, hash, sweeperVars>>

\* The checkpoint keeps the claim file and ends the worker.
MarkResume(p) ==
    /\ Goto(p, "mark_resume", "exited")
    /\ state[target[p]] = "claimed"
    /\ SetState(target[p], "claimed_pending_resume")
    /\ UNCHANGED <<owner, sha, claim, aged, cache, paused, target, expect,
                   todo, flag, hash, sweeperVars>>

\* The ShardStateError of mark_done or mark_pending_resume is caught by
\* nobody: the worker dies with a traceback and keeps its claim file.
MarkRefused(p) ==
    /\ \/ /\ Goto(p, "mark_done", "dead")
          /\ state[target[p]] \notin {"claimed", "claimed_pending_resume"}
       \/ /\ Goto(p, "mark_resume", "dead")
          /\ state[target[p]] # "claimed"
    /\ UNCHANGED <<files, target, expect, todo, flag, hash, sweeperVars>>

\* release_claim after rc 0 (next shard) and after rc 4 (the worker ends).
ReleaseClaim(p) ==
    /\ Goto(p, "release", "gate") \/ Goto(p, "bail", "exited")
    /\ SetClaim(target[p], None)
    /\ UNCHANGED <<state, owner, sha, cache, paused, target, expect, todo,
                   flag, hash, sweeperVars>>

-----------------------------------------------------------------------------
(* cmd_sweep_stale.                                                        *)

\* state.json is read once, before the walk over the shard directories.
SweepStart(w) ==
    /\ SGoto(w, "new", "walk")
    /\ stodo' = [stodo EXCEPT ![w] = Shards]
    /\ sresume' = [sresume EXCEPT ![w] = Resumable]
    /\ UNCHANGED <<files, workerVars, starget, sowner>>

\* The next shard directory: claim_file_status finds a file ...
Visit(w, s) ==
    /\ IsLeast(s, stodo[w])
    /\ stodo' = [stodo EXCEPT ![w] = @ \ {s}]

SweepMissing(w) ==
    /\ spc[w] = "walk"
    /\ \E s \in stodo[w] : Visit(w, s) /\ claim[s] = None
    /\ UNCHANGED <<files, workerVars, spc, sresume, starget, sowner>>

\* MUTATION of SweepStatus: an unreadable claim file passes for a missing one.
SweepStatusReadableOnly(w) ==
    \E s \in stodo[w] :
        /\ Visit(w, s)
        /\ claim[s] # None
        /\ SGoto(w, "walk", IF claim[s].whole THEN "read" ELSE "walk")
        /\ starget' = [starget EXCEPT ![w] = s]
        /\ UNCHANGED <<files, workerVars, sresume, sowner>>

\* ... and tells a readable one from a malformed one.
SweepStatus(w) ==
    \E s \in stodo[w] :
        /\ Visit(w, s)
        /\ claim[s] # None
        /\ SGoto(w, "walk", IF claim[s].whole THEN "read" ELSE "stat")
        /\ starget' = [starget EXCEPT ![w] = s]
        /\ UNCHANGED <<files, workerVars, sresume, sowner>>

\* A malformed file is judged by its mtime: gone or young, it is skipped.
SweepStat(w) ==
    /\ \/ /\ SGoto(w, "stat", "unlink")
          /\ claim[starget[w]] # None /\ starget[w] \in aged
       \/ /\ SGoto(w, "stat", "walk")
          /\ claim[starget[w]] = None \/ starget[w] \notin aged
    /\ UNCHANGED <<files, workerVars, stodo, sresume, starget, sowner>>

\* A readable one is read again, for its pid and its claimed_at; the age of
\* what was read is settled here, since `now` was taken before the walk.
ReadStale(s) == claim[s] # None /\ claim[s].whole /\ s \in aged

SweepRead(w) ==
    /\ \/ /\ SGoto(w, "read", "probe")
          /\ ReadStale(starget[w])
          /\ sowner' = [sowner EXCEPT ![w] = claim[starget[w]].by]
       \/ /\ SGoto(w, "read", "walk")
          /\ ~ReadStale(starget[w])
          /\ UNCHANGED sowner
    /\ UNCHANGED <<files, workerVars, stodo, sresume, starget>>

\* A shard that the snapshot shows as resumable is left alone.
Protected(w) == starget[w] \in sresume[w] /\ w \notin IncludeResume

\* MUTATION of SweepProbe: the pid is not probed.
SweepProbeUnprobed(w) ==
    /\ SGoto(w, "probe", IF Protected(w) THEN "walk" ELSE "unlink")
    /\ sowner' = [sowner EXCEPT ![w] = None]
    /\ UNCHANGED <<files, workerVars, stodo, sresume, starget>>

\* pid_alive of the pid that was read, whatever the claim file holds by now.
SweepProbe(w) ==
    /\ SGoto(w, "probe",
             IF Alive(sowner[w]) \/ Protected(w) THEN "walk" ELSE "unlink")
    /\ sowner' = [sowner EXCEPT ![w] = None]
    /\ UNCHANGED <<files, workerVars, stodo, sresume, starget>>

\* claim_file.unlink(), whatever the file holds by now, if it is there.
SweepUnlink(w) ==
    /\ SGoto(w, "unlink", "restore")
    /\ SetClaim(starget[w], None)
    /\ UNCHANGED <<state, owner, sha, cache, paused, workerVars, stodo,
                   sresume, starget, sowner>>

\* MUTATION of SweepRestore: the entry is not written back.
SweepRestoreUnwritten(w) ==
    /\ SGoto(w, "restore", "walk")
    /\ UNCHANGED <<files, workerVars, stodo, sresume, starget, sowner>>

\* _sweep_stale_restore_pending: under the lock, with no look at the state
\* it overwrites; cache_sha256 is not among the fields it clears.
SweepRestore(w) ==
    /\ SGoto(w, "restore", "walk")
    /\ SetState(starget[w], "pending")
    /\ owner' = [owner EXCEPT ![starget[w]] = None]
    /\ UNCHANGED <<sha, claim, aged, cache, paused, workerVars, stodo,
                   sresume, starget, sowner>>

SweepEnd(w) ==
    /\ SGoto(w, "walk", "exited")
    /\ stodo[w] = {}
    /\ UNCHANGED <<files, workerVars, stodo, sresume, starget, sowner>>

-----------------------------------------------------------------------------
(* The environment.                                                        *)

\* Nothing is cleaned up: claim file, cache and state stay as they are.
Die(p) ==
    /\ "kill" \in Faults
    /\ Alive(p)
    /\ pc' = [pc EXCEPT ![p] = "dead"]
    /\ UNCHANGED <<files, target, expect, todo, flag, hash, sweeperVars>>

SweeperDies(w) ==
    /\ "sweepkill" \in Faults
    /\ spc[w] \in Sweeping
    /\ spc' = [spc EXCEPT ![w] = "dead"]
    /\ UNCHANGED <<files, workerVars, stodo, sresume, starget, sowner>>

\* terminate-all, launchd, Ctrl-C: the handler only trips the flag.
Signal(p) ==
    /\ "sigterm" \in Faults
    /\ Alive(p) /\ ~flag[p]
    /\ flag' = [flag EXCEPT ![p] = TRUE]
    /\ UNCHANGED <<files, pc, target, expect, todo, hash, sweeperVars>>

\* pause-all and pause-all --clear.
TogglePause ==
    /\ "pause" \in Faults
    /\ paused' = ~paused
    /\ UNCHANGED <<state, owner, sha, claim, aged, cache, workerVars,
                   sweeperVars>>

\* --stale-hours (6 by default) pass over a claim file.  Hours do not pass
\* inside a sweep, which computes `now` once, nor between the two system
\* calls of a live worker that creates its claim file.
Age(s) ==
    /\ claim[s] # None /\ s \notin aged
    /\ \A w \in Sweepers : spc[w] \notin Sweeping
    /\ \A p \in Workers : pc[p] # "fill"
    /\ aged' = aged \cup {s}
    /\ UNCHANGED <<state, owner, sha, claim, cache, paused, workerVars,
                   sweeperVars>>

-----------------------------------------------------------------------------
Loop(p) ==
    \/ GateExit(p) \/ GatePass(p)
    \/ SelectResumable(p) \/ SelectPending(p)
    \/ ScanSkip(p) \/ ScanPick(p) \/ ScanEmpty(p)
    \/ TryClaim(p) \/ TryClaimLost(p) \/ FillClaim(p) \/ RefreshClaim(p)
    \/ ClaimShard(p) \/ ClaimRefused(p) \/ LoseRace(p)

Process(p) ==
    \/ CacheHit(p) \/ BeginScoring(p) \/ Flush(p) \/ FinishScoring(p)
    \/ ScorerRaises(p) \/ Checkpoint(p)
    \/ PersistSkip(p) \/ PersistOpen(p) \/ PersistDump(p) \/ HashCache(p)
    \/ MarkDone(p) \/ MarkFailed(p) \/ MarkResume(p) \/ MarkRefused(p)
    \/ ReleaseClaim(p)

Sweep(w) ==
    \/ SweepMissing(w) \/ SweepStatus(w) \/ SweepStat(w) \/ SweepRead(w)
    \/ SweepProbe(w) \/ SweepUnlink(w) \/ SweepRestore(w) \/ SweepEnd(w)

\* Every process that was started has ended.
Quiet ==
    /\ \A p \in Workers : ~Alive(p)
    /\ \A w \in Sweepers : spc[w] \notin Sweeping

\* The run may rest once every process was used up.
Rest ==
    /\ \A p \in Workers : pc[p] \in Stopped \ {"new"}
    /\ \A w \in Sweepers : spc[w] \in {"exited", "dead"}
    /\ UNCHANGED vars

Next ==
    \/ \E p \in Workers : Start(p) \/ Loop(p) \/ Process(p) \/ Die(p) \/ Signal(p)
    \/ \E w \in Sweepers : SweepStart(w) \/ Sweep(w) \/ SweeperDies(w)
    \/ \E s \in Shards : Age(s)
    \/ TogglePause
    \/ Rest

Spec == Init /\ [][Next]_vars

\* A live process keeps running; nobody owes a start, a signal or a death.
FairSpec ==
    /\ Spec
    /\ \A p \in Workers : WF_vars(Loop(p) \/ Process(p))
    /\ \A w \in Sweepers : WF_vars(Sweep(w))

\* ... and the operator does start every worker, and runs every sweep.
OperatedSpec ==
    /\ FairSpec
    /\ \A p \in Workers : WF_vars(Start(p))
    /\ \A w \in Sweepers : WF_vars(SweepStart(w))

-----------------------------------------------------------------------------
(* Safety.                                                                 *)

\* Whoever is between claim_shard and its outcome holds the shard in
\* state.json: nobody took it away while the worker scored it.
LiveWorkerKeepsShard ==
    \A p \in Workers : Busy(p) =>
        /\ state[target[p]] = "claimed"
        /\ owner[target[p]] = p

\* No two workers score the same shard: they would write one cache file.
ExclusiveScoring ==
    \A p, q \in Workers :
        Busy(p) /\ Busy(q) /\ target[p] = target[q] => p = q

\* The claim file of a shard being scored names the worker that scores it,
\* so that terminate-all and kill-all signal that worker and sweep-stale
\* asks whether that worker is alive.
ClaimNamesScorer ==
    \A p \in Workers : Busy(p) =>
        claim[target[p]] = [by |-> p, whole |-> TRUE]

\* A shard that state.json shows as claimed has the owner's claim file:
\* when the owner dies, sweep-stale has something to find.
ClaimedIsSweepable ==
    \A s \in Shards : state[s] = "claimed" =>
        claim[s] = [by |-> owner[s], whole |-> TRUE]

\* A done shard's cache is whole and is the one that was hashed, so that
\* aggregate and verify accept it.
DoneMatchesCache ==
    \A s \in Shards : state[s] = "done" =>
        cache[s] # None /\ cache[s].whole /\ sha[s] = cache[s]

\* When the workers that ran have all stopped, one of them because nothing
\* was claimable, and no process died, no shard was left pending.
NothingStranded ==
    (/\ Quiet
     /\ \E p \in Workers : pc[p] = "drained"
     /\ \A p \in Workers : pc[p] # "dead")
    => Pending = {}

\* Under every fault, with any number of sweepers: a shard that state.json
\* shows as claimed has an owner that is working on that very shard, or died.
\* No worker ever ends or moves on and leaves its entry claimed.
ClaimedHasWorker ==
    \A s \in Shards : state[s] = "claimed" =>
        /\ owner[s] \in Workers
        /\ pc[owner[s]] = "dead" \/ (Busy(owner[s]) /\ target[owner[s]] = s)

-----------------------------------------------------------------------------
(* Action properties.                                                      *)

\* What the docstring of cmd_sweep_stale says that the age threshold ensures:
\* a worker that is scoring a shard, after a restart for instance, does not
\* lose its claim file to a sweep.  The code does not keep this.
ScorerKeepsClaim ==
    [][\A p \in Workers :
         (Busy(p) /\ claim[target[p]] = [by |-> p, whole |-> TRUE] /\ pc'[p] = pc[p])
         => claim'[target[p]] = claim[target[p]]]_vars

-----------------------------------------------------------------------------
(* Liveness.                                                               *)

\* No worker loops forever: losing a race is never lost again and again, and
\* every worker, each of which the operator starts once, ends.
WorkersTerminate == <>[](\A p \in Workers : ~Alive(p))

\* If no worker dies and one is started after the sweeps have ended, every
\* shard is finished, whoever wins which claim and whatever the sweeps did.
\* The later worker is needed: a sweep that read the claim of a worker which
\* then finished and ended puts the shard back.
RunDrains ==
    (/\ [](\A p \in Workers : pc[p] # "dead")
     /\ <>(/\ \A w \in Sweepers : spc[w] \in {"exited", "dead"}
           /\ \E p \in Workers : pc[p] = "new"))
    => <>[](\A s \in Shards : state[s] = "done")

\* A sweep that starts after a dead worker's claim file grew old removes it,
\* readable or not, and the shard is the dead worker's no longer; unless the
\* sweep dies first.
StaleClaimReleased ==
    \A s \in Shards, p \in Workers :
        (/\ claim[s] # None /\ claim[s].by = p /\ pc[p] = "dead" /\ s \in aged
         /\ s \notin Resumable
         /\ \E w \in Sweepers : spc[w] = "new")
        ~> (\/ /\ claim[s] = None \/ claim[s].by # p
               /\ ~(state[s] = "claimed" /\ owner[s] = p)
            \/ \E w \in Sweepers : spc[w] = "dead")
=============================================================================
