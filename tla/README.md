# SETEC VoicePrint in TLA+

This directory holds a TLA+ development of the parts of the repository where
several processes, hosts or successive runs share mutable state:

- the *sharded calibration run* (`scripts/setec/calibration/shard_runner.py`,
  `scripts/calibration/shard_state.py`, the caches of
  `scripts/calibration/calibrate_thresholds.py` and `task_surfaces.py`);
- the *atomic iMessage acquisition*
  (`scripts/setec/surfaces/acquire_imessage_sent_atomic.py`,
  `scripts/windows_portable_tree.py`);
- the *authority package transaction*
  (`scripts/passage_authority_package_transaction.py` over the pinned root of
  `scripts/setec/surfaces/passage_remediation.py`);
- the *StoryScope atlas run* (`scripts/setec/calibration/storyscope_atlas.py`),

all under `src/plugins/setec-voiceprint/`. The rest of the repository is some
hundred stylometric measurements and one-shot tools; the inventory below says
what state they have.

Run everything from this directory: `tlc -config X.cfg M`, `tlapm M.tla`.

## 1. Inventory

| component | state | operations | interacts with | hard because | status |
|---|---|---|---|---|---|
| worker pool (`shard_runner work`) | `state.json`, one `.claim` per shard, `.pause`, per-process loop | select, claim, score, mark done / failed / resumable, checkpoint, release | other workers, sweep, scorers, operator signals | stale reads of `state.json`, claim file and entry are two files, processes die anywhere | partly |
| sweep (`sweep-stale`) | a snapshot of `state.json` and the walk | read, probe, unlink, restore | the workers' claim files and entries | check-then-act on files that others replace | modelled |
| scorers and caches | `cache.json`, its hash in `state.json` | flush, final write, resume, hash | workers, `aggregate`, `verify` | partial files, two writers, reuse of a previous worker's file | partly |
| git sync | clone, local commits, remote branch | `pull_state`, `push_state` with retry, `resolve-conflict` | all hosts of a run | lost and late pushes, rebase replays, conflicts, faults that are only logged | partly |
| merge policy | none (pure) | `merge_state_files` | `resolve-conflict` | special cases beside a rank ladder; ours and theirs are swapped in a rebase | modelled |
| acquisition bootstrap | external journal, staging and run directory | snapshot, scan, close artifacts, promote, resume | source database, flock, row publisher | a death between any two file-system operations, a source that changes, restarts with other options | partly |
| acquisition rows | row journal, stage, `rows/`, ledger, checkpoint, manifest, receipt | preflight, stage, rename, close, seal | previous dead or concurrent publishers | eight windows per row, non-atomic Windows replacement, no lock offline | partly |
| authority package transaction | three files | publish create-new, adopt, revalidate | concurrent publishers | crash between the files, names before bytes, rollback of what others adopted | modelled |
| StoryScope atlas | requests, meta, `state.json`, results | build, submit, collect, headless | paid batch API, thread pool, the operator's other commands | crash between payment and record, read-modify-write over hours | partly |
| `aggregate`, `verify`, `status` | output payload, per-signal checkpoint | verify hashes, stream, resume | caches, `state.json` | inputs change under a long computation | no |
| `terminate-all`, `kill-all` | none | choose pids, signal | claim files, processes | pid reuse | partly |
| `sharding.py` | none | seeded stratified split | creates the run | statistical claims | no |
| launchd jobs | property lists | start `work` at night | worker pool | none of its own | no |
| messages and rows of the acquisition | none (pure) | decode, hold, locate, plan | row publisher | formats | no |
| acquisition from Gmail, blogs, documents | text, sidecar, manifest row | publish, reconcile on start | previous crashed run | order of durable writes | no |
| passage remediation, shingle checkpoints, atomic publication, preflight | create-new outputs | publish | file system | platform calls | no |
| run sets, measurement surfaces, contracts, mirrors, oracle, replication | none kept | sequential | files | numerical, no protocol | no |

`PROJECT.json` lists the same components with what each model holds, and under
`hazards` each place in the code where one of these difficulties bites, with
the property that covers it or the reason why none does.

What makes each of them correct:

- **pool**: one worker scores a shard at a time, nobody takes a shard from a
  live worker, the claim file names the worker that scores, a done shard's
  hash is the hash of its cache, nothing is left claimed by nobody, the run
  drains.
- **sweep**: frees what dead workers left. It may also take a claim file or an
  entry from a worker that acts between its read and its unlink; even then no two
  workers score one shard, and a done shard has its cache.
- **caches**: whole when `done`, written by the one that was recorded.
- **sync**: no outcome is lost, no shard with an outcome is scored again.
- **merge**: follows one precedence, does not depend on the order or the side.
- **bootstrap**: the run directory appears whole or not at all; everything in
  it comes from one snapshot and one set of options, however often it was
  started and killed; a start is refused only for a cause the operator can see.
- **rows**: the ledger never names a row that is not there, at most the one row
  under the journal is ahead of it, the receipt seals exactly the tree on disk,
  and starting again after any death gets to the receipt.
- **package**: to a reader that goes by the receipt, one whole package of one
  publisher, at once and for good.
- **atlas**: a batch is sent only where what is known of the others leaves room
  for its allowance, answers belong to the requests on disk, nothing on record is
  forgotten, and a request is not asked for ever.

## 2. Modules

| module | models | role |
|---|---|---|
| `ShardRun` | pool, sweep, caches, operator and faults on one host | state machine |
| `ShardLease` | what the pool promises: exclusive leases | abstract specification |
| `ShardRunLease` | `ShardRun` implements `ShardLease` | refinement |
| `ShardMerge` | `merge_state_files` on one entry | operators |
| `ShardMergeCheck` | properties of the merge over all inputs | reference check |
| `ShardSync` | several hosts, git, `resolve-conflict` (extends `ShardMerge`) | state machine |
| `AcquireBootstrap` | the bootstrap of a run directory, live and offline | state machine |
| `AcquireRows` | `publish_planned_rows` over its durable writes | state machine |
| `AcquireRun` | both, one process after another | composition, liveness |
| `PackageTransaction` | three files and their publishers on two platforms | state machine |
| `PackageCommit` | one package, at once | abstract specification |
| `AtlasRun` | build, submit, collect, headless over one run directory | state machine |
| `ShardRunProofs`, `ShardPoolProofs`, `ShardMergeProofs`, `ShardSyncProofs`, `AcquireRowsProofs`, `AcquireRunProofs`, `PackageTransactionProofs`, `AtlasRunProofs` | theorems | TLAPS |
| `*MC` | symmetry sets, definitions for constants | TLC |

Definitions whose comment begins with MUTATION are deliberate bugs. They are
not part of any specification; substituting one for the definition it names
must break the property listed with it in `PROJECT.json`.

### ShardRun

Workers and sweeps are interleavings of their file operations, pid probes and
locked updates, so that others may act between what a process reads and what it
does with it.

| variable | code |
|---|---|
| `state`, `owner`, `sha` | the shard's `state`, `claimed_by_pid`, `cache_sha256` in `state.json` |
| `claim` | `shards/<id>/.claim`: who wrote it, and whether `os.write` followed the `O_EXCL` creation |
| `aged` | claim files older than `--stale-hours` |
| `cache` | `cache.json`: last writer, whole or partial |
| `paused` | `.pause` |
| `pc`, `target`, `expect`, `todo`, `flag`, `hash` | `_run_single_worker` and `_process_shard` of one process |
| `spc`, `stodo`, `sresume`, `starget`, `sowner` | `cmd_sweep_stale` of one process, with the snapshot it read and the worker named by the claim file it read |

The loop goes `gate -> read -> (scan -> create -> fill | refresh) -> claim ->
begin -> scoring -> persist -> hash -> mark_done -> release -> gate`; the
exits are `exited` (gates, failed shard, checkpoint), `drained` ("no claimable
shards remain") and `dead` (killed, or the traceback of a refused
`mark_done`). `read_state` outside the lock is the step `read`;
`state_update_lock` makes each read-modify-write of `state.json` one step,
because every writer takes it and `write_state` replaces the file atomically.
The test of each pending shard's claim file is a step of its own (`ScanSkip`,
`ScanPick`), because `_select_next_shard` looks at the files one by one long
after it read `state.json`. The unlinks look at nothing, as in the code.

A sweep takes one shard directory after another: `SweepStatus` tells a readable
claim file from a malformed one, `SweepRead` reads it again for its pid and age
(`SweepStat`: the mtime of a malformed one), `SweepProbe` asks whether *that* pid
lives, `SweepUnlink` removes whatever file is there by then and `SweepRestore`
writes the entry back. Each is a step, and a worker may claim, finish, checkpoint
or die between any two.

`Scorer` selects how a task surface treats the cache: `resuming`
(`calibration_survey`: a whole cache is reused), `rewriting`
(`corpus_hygiene`), `recordsOnly` (`_process_shard` writes it). `Faults`
selects what the environment may do; each run says which.

A restarted process is another element of `Workers`, so a pid is never reused
in the model. A claim file does not age inside a sweep (which computes `now`
once, so that the age of what it read is settled when it is read), nor between the two system calls that create and fill it: six hours
(`--stale-hours`) do not pass there.

### ShardLease, ShardRunLease

A shard is free, held, yielded, done or failed. The refinement mapping reads
the lease off `state.json` alone; that claim files, stale reads and checkpoints
are invisible in it is the point: a pool without sweeps is safe by the locked
`claim_shard`, whatever the claim files do. (A sweep takes leases away, so the
refinement is stated without sweepers.)

### ShardMerge, ShardMergeCheck

The entry of one shard is its state, its host, its stamp and one more field
(`detail`) for the fields the policy only compares. `merge_state_files` works
on each shard alone, and the shard ids are fixed at creation, so this is the
whole function. `ShardMergeCheck` has an ancestor and three revisions as
variables and every well-formed combination as an initial state.

### ShardSync

One worker per host. A revision of `state.json` is a function from shards to
entries; a clone is `base` (the upstream commit it last fetched), `commits`
(local commits on top), `work` (the file) and the git command under way.
`Pull`/`PushRejected` start a rebase (`BeginRebase`), `ReplayCommit` replays
one commit, `ReplayConflict` stops it, `ResolveConflict` is the operator's
`resolve-conflict --continue-rebase` with `Merge` per shard and, for shards
reported unresolved, the operator's choice of side. Git itself is external: a
push is fast-forward only, and a replay conflicts when both sides changed a
shard differently and may conflict when they changed different shards (their
text can be adjacent in the file). The clean and the conflicting outcome are both explored
where the text decides. `Bail` and `AfterPush` are the two ways the worker
leaves a transition: the conflict of a *pull* ends it (claim released with
rc 6, outcome lost with a traceback), the error of a *push* is only logged.
`MaxFaults` counts the environment's faults: a failed pull or push, a crash,
a failing or interrupted scorer. Rejections and conflicts that follow from
the hosts' own steps are free.

A push that landed but whose answer was lost is the action `Push`: the worker
goes on in the same way, and the commits it still has are dropped by the next
rebase.

### AcquireRows

One planned row after another is staged file by file, renamed into `rows/`,
closed in `source-ledger.json` and in `checkpoint.json`, under
`.row-transaction.json`, whose state tells the next process what was done.

| variable | code |
|---|---|
| `mode` | the row I/O of the run: `LiveDurableRowIo`, `PortableDurableRowIo`, `WindowsPortableDurableRowIo` |
| `plan` | `planned`: how many rows, and which are retained (a held row has no directory) |
| `file` | ledger, checkpoint, journal, manifest, receipt, by what they bind |
| `stage`, `rows` | `.row-staging/<stem>` and `rows/<stem>` with the files in them |
| `temps` | `.tmp` and `.replaced` names a write left behind |
| `pc`, `mem` | the call chain of one process and its `state` dict |
| `io` | the durable write it is in the middle of |

The canonical bytes of a ledger are a function of how many rows it closes and
whether it is complete (`_ledger_payload` of a fixed plan), a checkpoint is the
ledger it binds by hash, a journal the row and its state. Equality of bytes and
of hashes is equality of these values.

Every write of the code is a sequence of steps here (`IoCreate` ... `IoDrop`):
compare with the expected predecessor, create a temporary, fill and flush it,
publish it. macOS compares once more and swaps the two names; Windows renames
the predecessor aside, which leaves the name free until the temporary takes it.
A process may die before each of them. `recover_row_journal_rewrite` puts an
interrupted Windows rewrite of the *journal* right; every other temporary is
residue that makes `_preflight_row_publication` refuse.

The preflight reads file by file (`ReadNames` ... `ReadTree`). `Resume` and
the actions behind it are `_resume_authorized_row_transaction`. One publisher works
at a time: the live one holds the flock, of the offline ones it is assumed
(section 6).

### AcquireBootstrap

The live bootstrap walks through `BOOTSTRAP_STATES` in a journal next to the
staging directory; the offline one has a single `approved` journal that binds
the snapshot by hash before it copies it. A tree is the snapshot, the scratch
files beside it (`sidecar`: SQLite's, `copying`: a resumable copy, `temp`: of a
durable write) and the artifacts closed so far. An artifact is the pair of the
snapshot and the options it was derived from, which is what its bytes depend on.
One process works at a time: the live one holds the flock
(`_acquire_bootstrap_lock_at`), the offline ones are taken to be started one
after another. The code verifies a tree before and after every transition; a verification that
only reads is part of the step it guards (`Recognized`). `SourceChanges` is
Messages writing to its database while no snapshot is bound.

### AcquireRun

`AcquireBootstrap` and one instance of `AcquireRows` in one state space: the
bootstrap hands the promoted directory to the row publisher, and every restart
begins with the bootstrap again, which looks at a run directory that rows have
already changed (`rowlayer`). This is where properties of the whole run live:
`RowsOfOneUniverse`, `RefusedForCause`, `SealedRunIsClosed`, `ReceiptOrCause`.

### PackageTransaction, PackageCommit

Three files are created in order; each is read before, after its creation, and
again before the receipt and at the end, and each read is a step. On POSIX a
name exists before its bytes do (`Torn`), and a read of a file that is being
written returns the old state, the new one or an unstable one, which the code
reports as absent. On Windows the name appears with its bytes and the creator
holds the file exclusively until it verified it; if that fails it deletes it
through the handle. `PackageCommit` is the abstract specification: nothing, and
then one package for ever; a reader is one that goes by the receipt.

### AtlasRun

Each command is a process with the local copies it keeps (`mem`): `build`
writes requests and then meta, `submit` checks the budget, creates the batch
and only then reads and writes `state.json`, `collect` keeps the `state.json`
it read before polling, `headless` the one it read before its calls. A row is
its transport, whether it is usable, what it answers, the answers it accounts
for and what they were billed. The step `features` behaves as `gold` and is
left out. Money is counted in whole units. `Price` is a model's allowance for one
answer, from which estimates are made; what an answer is billed (`Bills`) is known
only when its batch ends, and may be more.

A headless call and its row are two steps: `Returned` is the executor's thread,
which counts the answer in `given`, and `Answered` the loop that writes the row. A
command that dies with calls under way (`Crash`) loses what had returned, and any of
the calls that were in flight or queued may still return: a kill leaves the former
behind, an exception runs the latter when it leaves the executor. `given` is what
was answered, whatever the rows say.

## 3. Runs

| run | instance | checks | distinct states |
|---|---|---|---|
| `shard_pool` | 2 shards, 3 workers, kills, failing scorer, pause, time window, records-only scorer | `TypeOK`, `ClaimNamesScorer`, `ClaimedIsSweepable`, `NothingStranded` | 316,270 |
| `shard_checkpoint` | 2 shards, 3 workers, kills, SIGTERM checkpoints, overwriting scorer | `ClaimedHasWorker`, `LiveWorkerKeepsShard`, `DoneMatchesCache`, `ImplementsLease` | 1,083,709 |
| `shard_live` | 2 shards, 2 workers, one sweep, deaths of all, reusing scorer, fairness | `ExclusiveScoring`, `WorkersTerminate`, `RunDrains`, `StaleClaimReleased` | 210,230 |
| `merge_policy` | 2 hosts, stamps 0..2, 2 details, all inputs | `FollowsPrecedence`, `StateOrderFree`, `SidesSwap` | 840 thousand |
| `sync_upstream` | 2 hosts, 2 shards, 2 push attempts, 2 faults | `TypeOK`, `UpstreamKeepsOutcomes`, `OutcomeNeverLost` | 1.79 million |
| `acquire_run` | 3 backends, 0 to 2 rows, 3 artifacts, 2 options, 2 source changes, 2 deaths, fairness | `RunTypeOK`, `OneClosure`, `FinalIsWhole`, `RowsBeforeLedger`, `OneRowAhead`, `ReceiptSealsTree`, `RowsOfOneUniverse`, `RefusedForCause`, `RowsRefusedOverResidue`, `ReceiptOrCause`, `ForeignRunIsInert`, `SealedRunIsClosed`, `LedgerNeverGoesBack` | 154,834 |
| `acquire_rows` | 3 backends, 0 to 3 rows, 2 publishers in turn, 3 deaths | `RefusedOverResidue` | 142,344 |
| `package_races` | 3 publishers, 2 packages with one manifest, 4 starts, POSIX and Windows | `TypeOK`, `CommittedIsExact`, `ImplementsCommit` | 1,590,564 |
| `atlas_ledger` | 1 command at a time, 2 chapters, 2 models, allowance 2, answers billed 3 or in error, budget 4, 2 batches, 2 attempts, 1 death | `WithinBudget`, `SentWithinBudget`, `AnswersBounded`, `AnswersBound`, `SpendKept` | 1,843,784 |
| `acquire_resume` | violation: live, 1 row, 1 death | `RowCheckpointResumable` | |
| `atlas_spend` | violation: 2 commands, no death | `CommittedCoversSpend` | |
| `shard_theft` | violation: 1 shard, 2 workers, a checkpoint, one sweep, no death | `ScorerKeepsClaim` | |

**Which instance a property needs.** The safety properties of the pool are
split over runs with different faults because some are false when a fault is
added: `ClaimNamesScorer` fails with checkpoints and, like
`LiveWorkerKeepsShard`, with a sweep (section 4), `ExclusiveScoring` with two
sweeps in one run or a sweep and checkpoints. `acquire_rows` looks at the row layer
without the bootstrap in front of it: there every start after a death reaches the
preflight, also live, where `acquire_resume` shows the bootstrap's verifier in the
way. The atlas properties are about one command at a time; `atlas_spend` shows what
two commands do. `WithinBudget` counts a recorded batch up to its allowance: the
docstring of `step_cost` (426-428) says that the allowance "is not an absolute
provider billing cap", so nothing bounds the bills. `SentWithinBudget` says what
the code does about it: an earlier bill above its allowance is taken from what later
submits may use. `AnswersBounded` bounds what is really answered, which the cap
alone does not (section 4).

**Bounds.** Every race in the shard code is between two parties over one shard;
the third worker is there because a loser may return with an older snapshot
while the first two have moved on. Beside the sweep, in the liveness run, there are
two: one whose claim was read, and one that claims after it (`SweptScoresAlone`
covers any number). Two shards are needed for everything that
depends on order: a worker that skips a claimed shard, a sweep that walks on, a
shard directory visited after another was restored. Each worker process runs
once, so a restart costs a worker. For git, two hosts give every pair of sides a
rebase has, two shards give conflicts over different shards beside conflicts
over one, and two push attempts give one retry rebase; the proof of
`UpstreamKeepsOutcomes` covers the rest. For the merge, three revisions with
three stamps exhaust the orders of three entries.

`acquire_run`: two rows give a row with a predecessor and a successor, the plan
ranges over every subset of retained rows and includes the empty one (whose
ledger is closed on a path of its own); two deaths give a death during the
recovery from a death; of the artifacts the code distinguishes the first, the
ones before the owner, and the owner (offline: the last one): three. Two source
changes put one before and one during a copy. `acquire_rows`: a third row
gives a middle one, a third death one more recovery. `package_races`: two
publishers of the same bytes and one of others, since adoption and refusal are
what a third party changes; four starts let one of them be started again.
`atlas_ledger`: two chapters separate a step that is half answered, two models a
rebuild that differs, two attempts a rerun and the cap. An answer is billed 3, above
its allowance of 2, and an error nothing, so that the cards batch ends below its
ceiling or above it, and a one-request step likewise; the budget of 4 admits the
cards batch and no more, or two of the one-request steps unless the first cost 3.

**Symmetry.** Workers (in the `ShardRun` safety runs), hosts (merge and sync),
publishers (`acquire_rows`), chapters and models (`atlas_ledger`) are
interchangeable: no action orders them. The liveness runs use none, and neither
does `package_races`, whose publishers want given packages. Shards are ordered
(`_select_next_shard` takes the first), so are rows, and neither is permuted.

**Deadlock** is checked in the shard and merge runs. A finished `ShardRun`
instance, all of whose processes were used up, rests in the explicit stuttering
action `Rest`. It is not checked in the acquisition, package and atlas runs:
there the starts, deaths and batches are bounded and every process may have
ended, which is a state the system really stops in. `ReceiptOrCause` takes its
place for the acquisition.

**Fairness.** `shard_live`: a live worker and a sweep in progress keep taking
steps (weak fairness of one whole process: it is an operating-system process
that blocks on nothing but the short file lock). Nothing is assumed of signals,
deaths and the clock. `OperatedSpec` adds that the operator starts every worker
and sweep eventually, without which nothing needs to be done at all. Under it: a
worker cannot loop forever over lost races (`WorkersTerminate`; the claim-file
filter of `_select_next_shard` is what prevents it, see the mutant
`ScanPickUnfiltered`); if no worker dies, and one is started after the sweeps have
ended, every shard is finished (`RunDrains`: without that worker a sweep may leave a
shard pending that it had read as claimed and that was done meanwhile);
and a sweep started after a dead worker's claim file grew old, and not killed
itself, frees it, whether the file is readable or was never filled
(`StaleClaimReleased`).

`acquire_run`: weak fairness of the one process at work (it waits for nobody),
and strong fairness of `BeginAgain`, an operator who does not give up starting
the run with the options it was begun with; strong, because a start with other
options may come in between any number of times. Under it the run reaches its
receipt, or one of the two causes that really stop it stands in the way: a
temporary left inside a durable write, or (live) the defect of section 4, 1.

## 4. What the code does differently from what it says

Three are violation runs:

1. `acquire_resume`: the verifier of a promoted run directory
   (`acquire_imessage_sent_atomic.py:12635`) demands exactly the initialization
   names. `src/specs/imessage-atomic-message-acquisition.md:921-923` says it
   "must not make a legitimate row checkpoint unresumable" and accepts the
   names of the row layer as well. A live run that dies after `rows/` was
   created is refused at every later start; the whole recovery of the row layer
   is then reachable only through the offline import. (The tests of the row
   layer use fixture I/O or a fresh run directory, so none restarts a live run.)
2. `atlas_spend`: `headless` writes back the `state.json` it read at its start,
   and `collect` the one it read before polling (`storyscope_atlas.py:940`,
   `988`, `771`). A batch another command recorded meanwhile disappears from the
   ledger, and `committed_usd` no longer covers "the most this run may already
   have spent" (665-666).
3. `shard_theft`: the sweep applies the liveness and the age to the claim it read
   (`shard_runner.py:2065`, `2084`) and unlinks whatever file is there later
   (2111). A worker with an old claim that checkpoints and ends in between is
   found dead, and the file that goes is the fresh one of the worker that resumed
   the shard and scores it. The docstring (1947-1953) says that requiring an age
   "defeats this race". Without checkpoints the worker with the old claim may
   finish instead, and the restore (1931) puts its done shard back to pending.

Others were met on the way and are described here without a run of their own:

4. `MAX_ATTEMPTS` is said to count "answers received" (`storyscope_atlas.py:783`),
   but `headless` counts rows. An answer that came back (949) before its row was
   written (970) is on none if the command dies, and neither are those of the calls
   still queued when an exception leaves the executor (962): the next run asks again
   beyond the cap. `AnswersBounded` without its `+ crashes` fails.
5. Two workers that resume one checkpointed shard both refresh its claim file;
   the one that loses the locked `claim_shard` unlinks it
   (`shard_runner.py:1050`). The winner scores without a claim file, so
   `terminate-all` cannot signal it (the comment at 996-1000 says the refresh
   makes that possible) and `sweep-stale` cannot find its shard if it dies.
   (`ClaimNamesScorer` with `Faults` including `checkpoint`.)
6. The sweep's restore does not read the entry's state (1931): a worker killed
   after `mark_failed` and before `release_claim` leaves a file that puts the
   failed shard back to pending, against the docstring of `mark_failed`.
7. The sweep unlinks first and restores later (2111, 2122); a worker that claims
   in between loses the shard while scoring it, which the docstring of
   `cmd_sweep_stale` says the age threshold prevents. (`LiveWorkerKeepsShard`
   with a sweep.)
8. A shard that is failed in the ancestor and pending on one side becomes
   pending, because the one-sided case is decided before failed is looked at
   (`shard_state.py:1224`); the runbook (232-238) says failed is terminal.
9. A conflict in `push_state`'s retry rebase is logged (`shard_runner.py:812`)
   and the worker scores on over a `state.json` with conflict markers; the
   docstring of `_synced_state_update` says conflicts surface.
10. The specification of the acquisition (430-433) has the promoted bootstrap
   journal deleted; the code keeps it. It (1077-1079) calls the replacement of a
   state file a true atomic exchange; on Windows the name is absent between
   rename-aside and fill (`windows_portable_tree.py:545-556`).

## 5. Proofs

All for every value of the constants allowed by the named assumptions. Every
invariant and every action property of the passing runs is the subject of a
theorem; where a theorem has a hypothesis (`NoSweepers`, `SingleSweep`, no checkpoints,
`OneCommand`, a scorer that writes its own cache), it names what the code does not
exclude and under which the property is not claimed.

**ShardRunProofs** (from `ConstantsAssumption`)

- `TypeInvariant`: `Spec => []TypeInv`, where `TypeInv` is `TypeOK` and
  `TargetOK`. `TypeOK` alone is not inductive: an action writes at
  `target[p]`, which `TypeOK` allows to be `None`; `TargetOK` says that a
  worker or sweep at a location that uses its target has one.
- `RunTypeCorrect` (`TypeOK`) follows.
- `ClaimedWorker`: `Spec => []ClaimedHasWorker`, inductive on top of
  `TypeInv`. It holds under every fault and any number of sweeps: a
  restore clears `claimed`; a lost shard's owner finds its outcome refused and
  dies; no normal exit leaves the entry.

**ShardPoolProofs** (from `ConstantsAssumption`)

What is said of the entries of `state.json` needs `NoSweepers`, nobody runs
`sweep-stale`: a sweep takes entries away from workers that live (section 4).
Every step of the pool is one of three kinds to `state.json` (`StepKinds`): a
worker claims a shard, a busy worker records an outcome, or nothing changes there
and nobody becomes busy.

- `PoolKeepsShard` (`LiveWorkerKeepsShard`) is inductive on those kinds and
  `TypeInv`: `claim_shard` refuses a shard that is claimed, and a worker that
  records an outcome holds another shard by the hypothesis. `PoolScoresAlone`
  (`ExclusiveScoring`) follows.
- `PoolImplementsLease` (`ImplementsLease`): the refinement of `ShardLease`. That
  a worker never holds two leases comes from `ClaimedHasWorker`: an entry claimed
  by it would mean that it is dead or busy, and a worker that claims is neither.
- `PoolDoneMatchesCache` (`DoneMatchesCache`), for a scorer that writes its own
  cache. The invariant `CacheInv` follows the cache from the scorer's return to
  `mark_done`; only the worker that holds a shard writes its cache.
- `PoolStrandsNothing` (`NothingStranded`): pending shards are left behind only
  over a worker that died. The invariant `StrandInv` says that a worker passed by
  only shards with claim files, and that the claim file of a pending shard belongs
  to a worker about to claim it, if nobody died.

One sweep in the whole run (`SingleSweep`) takes a claim file or an entry from a
live worker, but not both, if the scorer does not checkpoint. The invariant
`SweptInv` says for each shard: until the sweep has dealt with it, a worker finds
its claim file as it left it and its entry naming it, the owner of a claimed entry
has its file, and a file names a worker that was started (`Fresh`); afterwards one
of the two is left, the files of all its workers (`Held`) or the entry of whoever
scores it (`Entry`). The sweep unlinks and restores a shard once. If the worker it
found dead still has its file there, no live worker loses one; if that worker had
released it, the shard has an outcome, which keeps everybody out until the restore,
and after that `claim_shard` lets in one. A second sweep, at the same
time or later, could take the other half.

- `SweptScoresAlone` (`ExclusiveScoring`): either half keeps a second worker away.
- `SweptDoneMatchesCache` (`DoneMatchesCache`): only who scores a shard writes its
  cache, and a shard that was put back is done again only with a hash of its own.
- `PoolClaimNamesScorer` (`ClaimNamesScorer`) and `PoolClaimedIsSweepable`
  (`ClaimedIsSweepable`), without a sweep: `Fresh` then holds for good.

With checkpoints `refresh_claim_file` replaces the file of another resuming worker;
these four are not claimed then.

**ShardMergeProofs** (from `MergeAssumption`)

- `PrecedenceTheorem`: the special cases for failed and the rank ladder
  amount to one precedence order (`FollowsPrecedence`).
- `SwapTheorem`: exchanging the sides changes the result only between two
  entries of one state, and, unless both failed, of one host and time (`SidesSwap`).
- `OrderFreeTheorem`: the state three revisions merge to does not depend on
  the order (`StateOrderFree`). Proved through lemmas on which state a merge
  of two entries takes.

**ShardSyncProofs** (from `SyncAssumption`, `ConflictAssumption`,
`MergeAssumption`)

- `SyncTypeInvariant`: `TypeOK` with the facts that tie `git`, `work` and
  `todo` together (a conflicted `state.json` belongs to a stopped rebase with
  a commit to replay), without which `Head(todo)` has no type. `SyncTypeCorrect`
  (`TypeOK`) follows.
- `UpstreamTheorem`: `Spec => UpstreamKeepsOutcomes`. A push publishes the
  tip of a clone, so the claim must be about clones. The inductive invariant
  `Ordered` says of each host: if nobody pushed since its fetch, its base *is*
  upstream; along base and local commits an outcome never disappears from one
  revision to the next (`Grows`); the same holds for the commits yet to be replayed,
  starting at their old parent; and the working copy keeps the
  outcomes of the tip. A replay, and a merge of a conflict with any choice of
  the operator, preserves it because `Merge` never gives up an outcome that
  the replayed commit's parent and the tip both grew from. The theorem then
  reads the property off `base = upstream` and `Grows`.

- `OutcomeTheorem`: `Spec => OutcomeNeverLost`, an outcome recorded anywhere is
  in some revision for good. On top of `Ordered`, the invariant `Held`: upstream
  keeps what a host fetched, the tip a rebase builds keeps the commit replayed
  last, the working copy is that tip until the rebase stops, and a rebase that
  ended has nothing left to replay. A step then drops a revision only when another
  one that grew from it takes its place.

**AcquireRowsProofs** (from `RowsAssumption` and `ValuesAssumption`: the values
written are not `None` or `Torn`)

- `LedgerNeverAhead` (`RowsBeforeLedger`), for any number of publishers that follow
  each other, as everything here. The invariant `CoverInv` says of every place a ledger may come from
  (the two state files, the temporaries a recovery may take for one, the value
  a write under way is about to install, what a process read) that it closes
  committed rows only, and of every row journal that it names a row of the plan.
- `RowsTypeCorrect` (`TypeOK`), likewise.
- `RowsAndReceipt` (`OneRowAhead`, `ReceiptSealsTree`), `LedgerOnlyGrows`
  (`LedgerNeverGoesBack`), `ReceiptIsFinal` and `OnlyResidueStops`
  (`RefusedOverResidue`). None is inductive: that a restart does not take the
  ledger back rests on the recovery's choice between canonical file, replacement and
  temporaries, and that on which of these a death in each durable step leaves.
  `AloneInv` says it in two halves. At rest, the disk is one that the
  preflight accepts, with its ledger, journal, stage, rows and receipt accounted
  for together; while a process runs, that disk differs from one at rest by the
  write under way, and what the process remembers at its `pc` is still so. There
  is one lemma per step of the publication and per step of a durable write.

**AcquireRunProofs** (from `BootstrapAssumption` and `RunAssumption`)

The invariant has one conjunct per thing a resumed process relies on:
`JournalInv` (which journal states exist on which backend and when a snapshot is
bound), `TreeInv` (what a staging directory holds in each journal state, down to
how many artifacts), `FinalInv` (what a run directory implies), `SnapshotAtWork`,
`ClosureAtWork` and `BuildAtWork` (what the process at work knows about the tree
it is changing). None of the properties is inductive by itself: that a promoted
tree is whole rests on the count of artifacts at `ready_to_promote`, that in turn
on the closure the process derived, and that on the snapshot in the tree being
the one the journal bound, which a process that dies over a partial copy must not
have broken. `RunInv` adds that rows are published only behind a hand-over.

- `BootstrapTypeCorrect`, `AlwaysOneClosure` (`OneClosure`), `RunDirectoryIsWhole`
  (`FinalIsWhole`), `RowsShareOneUniverse` (`RowsOfOneUniverse`), and the action
  property `ForeignOptionsChangeNothing` (`ForeignRunIsInert`), all of the
  composed specification `AcquireRun!Spec`: for any number of artifacts, options,
  source versions, rows and deaths.
- `RunTypeCorrect` (`RunTypeOK`), `ClosedRowsAreCommitted` (`RowsBeforeLedger`),
  `RowsStayWithinReach` (`OneRowAhead`), `ReceiptNamesTree` (`ReceiptSealsTree`) and
  `LedgerGrows` (`LedgerNeverGoesBack`) of the whole acquisition. The module takes
  `AcquireRowsProofs` as an instance for its one runner: every step of the
  acquisition is a step of the publication, or leaves its state alone, or is
  the hand-over that starts it, so that `RowInv`, the three invariants of the rows,
  is one of the composition.
- `OnlyResidueRefuses` (`RowsRefusedOverResidue`): the publication refuses a disk
  only over the debris `Residue` names.
- `ReceiptClosesRun` (`SealedRunIsClosed`): behind a receipt neither layer changes
  anything. `SealInv`: rows are handed over, and a receipt exists, only with a run
  directory whose journal has nothing left to record.
- `OnlyForCause` (`RefusedForCause`): a start is refused only for a cause the
  operator can see. `LeftInv` says what a killed process may have left in
  staging for each journal state; that it is always something the next start takes up
  is what the theorem comes down to.

**PackageTransactionProofs** (from `PackageAssumption`)

- `TypeCorrect`, `CommittedStaysExact` (`CommittedIsExact`), `OnePackageCommits`
  and `TransactionImplementsCommit` (`ImplementsCommit`). The invariant is
  `TypeOK`; `Created` (a publisher holds what it created, torn until filled);
  `Confirmed` (at every step after a publisher has confirmed a file, the file has
  the bytes it wants, and on Windows nobody holds the handle that could take it
  back); `Sealed` (a complete receipt stands beside the two files it names); and
  `Positions`. `Confirmed` is the strengthening: a publisher that adopted a file
  must know that no later step of another one changes it. `FileStep` says that
  only creating, filling and a Windows rollback touch a file, and `ExactStays`
  that none of the three can touch a confirmed one. That two receipts of
  different packages cannot both be visible is where the receipt's naming of the
  two other hashes enters. The refinement follows: a receipt becomes visible only
  in a step of a publisher whose earlier files are confirmed.

**AtlasRunProofs** (from `AtlasAssumption`, and `OneCommand`: the commands of a
run directory follow each other, which nothing in the code enforces)

- `AnswersStayBound` (`AnswersBound`) and `NoSpendLost` (`SpendKept`, which is about
  the records on disk), for every
  number of chapters, models, batches and deaths. The invariant is `Shape` (what
  kind of thing each file is), `Pinned` (a started step's ledger entry, request
  file and meta file agree; the rows of a batch step are none or those of its
  batch; a step that was not started has none), `Quoted` (once works is built no
  card is missing) and `Fresh` (what a command remembers is still so, at each
  `pc`). `Quoted` alone is not inductive for two reasons: a second collection of
  the cards must give the same rows, which is `Pinned` (`CollectedOnce`), and a
  headless rerun must find no card to do, which is `Fresh`'s bound on its list
  (`AnsweredStep`). `Fresh` is what fails with two commands, as `atlas_spend`
  shows.
- `AnswersStayBounded` (`AnswersBounded`). Each answer is on a row, waits for its row
  in the one headless command, or went with one of the deaths (`Accounted`), and a
  request is asked only while its row counts fewer than `MaxAttempts`.
- `BudgetKept` (`WithinBudget`) and `SendsWithinBudget` (`SentWithinBudget`). A
  collected batch may have cost more than its ceiling, so that what the ledger
  commits is bounded by nothing; the invariant `BudgetInv` says it of what each entry
  commits up to its ceiling (`Held`), and that what `check_budget` allowed a command
  is still available until it has committed it. `SendsWithinBudget` follows since
  `committed_usd` covers what is known of the recorded batches (`CommittedCovers`).
  Committed and spent amounts are sums over
  chapters, folds of the community modules, and the library states nothing about those
  that the provers can use; the module proves what it needs (a sum over a
  finite set is a natural number, does not depend on the order, and changes with one
  summand) from the existence of a smallest counterexample (`WFMin`). This is why
  `AtlasAssumption` says that there are finitely many chapters.

Only model-checked: the liveness properties (`WorkersTerminate`, `RunDrains`,
`StaleClaimReleased`, `ReceiptOrCause`), since fairness is about `ENABLED`, which
the provers do not reason about; and `RowCheckpointResumable`,
`CommittedCoversSpend` and `ScorerKeepsClaim`, which the code violates (section 4).

## 6. Not modelled, and why

- Two or more workers in one git clone: `git pull` then rewrites `state.json`
  outside the lock. `ShardSync` has one worker per host.
- `sweep-stale` on a synced host, and a git process killed by its 30 s
  timeout in the middle of a rebase.
- Two offline publishers in one run directory at once, which no lock prevents: rows
  and bootstrap are modelled for publishers that follow each other. A publisher that
  stalls may put an older ledger over a newer one, or (14794-14813) unlink through
  its directory descriptor a stage file that another one has meanwhile renamed
  into `rows/` (14480) and closed in the ledger; so none of the row properties is
  claimed for them.
- Power loss: a death in these models loses the process and not what the kernel
  holds. The fsyncs of the code are therefore not told apart from writes, and a
  file that was adopted without an fsync counts as durable.
- Foreign changes to private directories (another program that deletes or
  replaces outputs): the code detects many of them through inode identities,
  which the models leave out together with everything else that concerns one
  process's own file descriptors.
- Reuse of a closed run as the source of a live one (a byte copy with hash
  checks in place of SQLite's backup).
- Of the atlas: fetch, plan, emit, the refusal of another CLI version and the
  manual restart of a step it suggests.
- The content of scores, manifests, messages, snapshots and answers; exit codes;
  wording.
- The creation of a sharded run and the hand-edit that retries a failed shard:
  every run starts with all shards pending.
- The acquisitions without a journal (Gmail, blogs, documents), `aggregate`,
  signals to reused pids, and the primitives below the modelled protocols.
- The measurement surfaces, nine tenths of the source: floating point and
  statistics, about which a state machine has nothing to say.

## 7. Plan

Done: pool, sweep, caches, sync, merge; acquisition (bootstrap, rows, their
composition); package transaction; atlas ledger; the theorems above.

What would come next, in this order: `AggregateRun` (caches verified and read
again later), two workers per clone in `ShardSync`, and the reconcile of the
acquisitions without a journal; an abstract ledger that the publication of rows
implements, for which `AcquireRowsProofs` has the invariant.
