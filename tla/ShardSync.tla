------------------------------ MODULE ShardSync ------------------------------
(***************************************************************************)
(* One sharded run on several hosts that share state.json through git: one *)
(* worker per host, whose every transition is the sequence of              *)
(* _synced_state_update,                                                   *)
(*                                                                         *)
(*   pull_state (git pull --rebase) -> locked update -> push_state         *)
(*   (git add, commit, push; on a rejected push pull --rebase and again),  *)
(*                                                                         *)
(* and the operator's resolve-conflict.  A revision of state.json is a     *)
(* Book.  A clone is the upstream it last fetched, the commits upstream    *)
(* does not have, and the working copy; git itself is external, modelled   *)
(* by what pull_state and push_state use of it: a fast-forward-only push   *)
(* and a rebase that replays the local commits one at a time and stops at  *)
(* a conflict.  A git command of a host runs without other steps of that   *)
(* host in between.  Sweeps are left to ShardRun.                          *)
(***************************************************************************)
EXTENDS ShardMerge, Sequences

CONSTANTS
    ShardCount,   \* shards of the run; ids are 0 .. ShardCount - 1
    Retries,      \* push_state's retries
    MaxFaults,    \* how many faults the environment has to spend
    Conflicted    \* a state.json with conflict markers in it

ASSUME SyncAssumption ==
    /\ ShardCount \in Nat \ {0}
    /\ Retries \in Nat \ {0}
    /\ MaxFaults \in Nat
    /\ {0, 1} \subseteq Stamps
    /\ Details = Hosts \cup {Nobody}

Shards == 0 .. ShardCount - 1
Book   == [Shards -> Entry]

ASSUME ConflictAssumption == Conflicted \notin Book

VARIABLES
    upstream,  \* state.json at the tip of the remote branch
    base,      \* base[h]: the upstream commit the clone last fetched
    stale,     \* stale[h]: upstream moved on since then
    commits,   \* commits[h]: local commits on top of base[h], oldest first
    work,      \* work[h]: state.json in the working tree
    git,       \* git[h]: the git command under way, "stopped" at a conflict
    todo,      \* todo[h]: commits the rebase has yet to replay
    prev,      \* prev[h]: the parent of the first of them
    pc,        \* pc[h]: where the host's worker is
    job,       \* job[h]: the transition it is making
    target,    \* target[h]: the shard
    tries,     \* tries[h]: pushes rejected so far
    claims,    \* claims[h]: shards with a claim file on the host
    faults     \* network failures, crashes, failing or interrupted scorers

repo   == <<base, stale, commits, work, git, todo, prev>>
worker == <<pc, job, target, tries, claims>>
vars   == <<upstream, repo, worker, faults>>

Jobs  == {"claim", "resume", "done", "failed", "checkpoint"}
Ended == {"exited", "dead"}

TypeOK ==
    /\ upstream \in Book
    /\ base \in [Hosts -> Book]
    /\ stale \in [Hosts -> BOOLEAN]
    /\ commits \in [Hosts -> Seq(Book)]
    /\ work \in [Hosts -> Book \cup {Conflicted}]
    /\ git \in [Hosts -> {"idle", "pull", "push", "resolve", "stopped"}]
    /\ todo \in [Hosts -> Seq(Book)]
    /\ prev \in [Hosts -> Book]
    /\ pc \in [Hosts -> Ended \cup {"idle", "pull", "update", "commit", "push", "scoring"}]
    /\ job \in [Hosts -> Jobs]
    /\ target \in [Hosts -> Shards]
    /\ tries \in [Hosts -> 0 .. Retries]
    /\ claims \in [Hosts -> SUBSET Shards]
    /\ faults \in 0 .. MaxFaults

Fresh == [s \in Shards |->
    [state |-> "pending", host |-> Nobody, at |-> 0, detail |-> Nobody]]

Init ==
    /\ upstream = Fresh
    /\ base = [h \in Hosts |-> Fresh]
    /\ stale = [h \in Hosts |-> FALSE]
    /\ commits = [h \in Hosts |-> <<>>]
    /\ work = [h \in Hosts |-> Fresh]
    /\ git = [h \in Hosts |-> "idle"]
    /\ todo = [h \in Hosts |-> <<>>]
    /\ prev = [h \in Hosts |-> Fresh]
    /\ pc = [h \in Hosts |-> "exited"]
    /\ job = [h \in Hosts |-> "claim"]
    /\ target = [h \in Hosts |-> 0]
    /\ tries = [h \in Hosts |-> 0]
    /\ claims = [h \in Hosts |-> {}]
    /\ faults = 0

\* HEAD of the clone.
Tip(h) == IF commits[h] = <<>> THEN base[h] ELSE commits[h][Len(commits[h])]

Goto(h, from, to) == git[h] = "idle" /\ pc[h] = from /\ pc' = [pc EXCEPT ![h] = to]

\* The environment spends one of its faults.
Fault == faults < MaxFaults /\ faults' = faults + 1

Release(h) == claims' = [claims EXCEPT ![h] = @ \ {target[h]}]

-----------------------------------------------------------------------------
(* The worker between two transitions.                                     *)

Start(h) ==
    /\ pc[h] \in Ended
    /\ git[h] \in {"idle", "stopped"}
    /\ pc' = [pc EXCEPT ![h] = "idle"]
    /\ UNCHANGED <<upstream, repo, job, target, tries, claims, faults>>

\* read_state parses conflict markers: a traceback.
Unreadable(h) ==
    /\ pc[h] = "idle" /\ work[h] = Conflicted
    /\ pc' = [pc EXCEPT ![h] = "dead"]
    /\ UNCHANGED <<upstream, repo, job, target, tries, claims, faults>>

Resumable(h) == {s \in Shards : /\ work[h][s].state = "claimed_pending_resume"
                                /\ work[h][s].host = h}
Claimable(h) == {s \in Shards : work[h][s].state = "pending"} \ claims[h]

\* read_state, _select_next_shard and the claim file.
Select(h) ==
    /\ Goto(h, "idle", "pull")
    /\ work[h] # Conflicted
    /\ LET S == IF Resumable(h) # {} THEN Resumable(h) ELSE Claimable(h)
       IN  \E s \in S :
             /\ \A t \in S : s <= t
             /\ target' = [target EXCEPT ![h] = s]
             /\ claims' = [claims EXCEPT ![h] = @ \cup {s}]
    /\ job' = [job EXCEPT ![h] = IF Resumable(h) # {} THEN "resume" ELSE "claim"]
    /\ UNCHANGED <<upstream, repo, tries, faults>>

Drained(h) ==
    /\ Goto(h, "idle", "exited")
    /\ work[h] # Conflicted
    /\ Resumable(h) = {} /\ Claimable(h) = {}
    /\ UNCHANGED <<upstream, repo, job, target, tries, claims, faults>>

\* _process_shard up to the outcome it will record.
Score(h) ==
    /\ pc[h] = "scoring"
    /\ pc' = [pc EXCEPT ![h] = "pull"]
    /\ \/ job' = [job EXCEPT ![h] = "done"] /\ UNCHANGED faults
       \/ job' = [job EXCEPT ![h] = "failed"] /\ Fault
       \/ job' = [job EXCEPT ![h] = "checkpoint"] /\ Fault
    /\ UNCHANGED <<upstream, repo, target, tries, claims>>

-----------------------------------------------------------------------------
(* git pull --rebase, of pull_state and of push_state's retries.           *)

\* The worker meets the conflict in its pull: a claim is given up with rc 6,
\* an outcome is lost with a traceback, the claim file left behind.
Bail(h) ==
    IF job[h] \in {"claim", "resume"}
    THEN pc' = [pc EXCEPT ![h] = "exited"] /\ Release(h)
    ELSE pc' = [pc EXCEPT ![h] = "dead"] /\ UNCHANGED claims

\* The worker after push_state, whether it pushed or raised.
AfterPush(h) ==
    /\ pc' = [pc EXCEPT ![h] = IF job[h] \in {"claim", "resume"} THEN "scoring"
                                ELSE IF job[h] = "done" THEN "idle"
                                ELSE "exited"]
    /\ IF job[h] \in {"done", "failed"} THEN Release(h) ELSE UNCHANGED claims

\* Unmerged files: git refuses, and its message says "conflict".
PullRefused(h) ==
    /\ pc[h] = "pull" /\ git[h] = "stopped"
    /\ Bail(h)
    /\ UNCHANGED <<upstream, repo, job, target, tries, faults>>

\* No network, or a working copy that differs from HEAD: "continuing with
\* local state".
PullFails(h) ==
    /\ Goto(h, "pull", "update")
    /\ IF work[h] = Tip(h) THEN Fault ELSE UNCHANGED faults
    /\ UNCHANGED <<upstream, repo, job, target, tries, claims>>

\* Fetch, check the fetched commit out, and set out to replay the rest.
BeginRebase(h, command) ==
    /\ work[h] = Tip(h)
    /\ git' = [git EXCEPT ![h] = command]
    /\ base' = [base EXCEPT ![h] = upstream]
    /\ work' = [work EXCEPT ![h] = upstream]
    /\ stale' = [stale EXCEPT ![h] = FALSE]
    /\ todo' = [todo EXCEPT ![h] = commits[h]]
    /\ prev' = [prev EXCEPT ![h] = base[h]]
    /\ commits' = [commits EXCEPT ![h] = <<>>]

Pull(h) ==
    /\ git[h] = "idle" /\ pc[h] = "pull"
    /\ BeginRebase(h, "pull")
    /\ UNCHANGED <<upstream, worker, faults>>

Changed(a, b) == {s \in Shards : a[s] # b[s]}

\* MUTATION of Replayed: the fetched entry wins where only we changed it.
ReplayedTheirs(h) ==
    [s \in Shards |-> Tip(h)[s]]

\* The replay of a commit c with parent p on the tip u ...
Replayed(h) ==
    LET c == todo[h][1]
        p == prev[h]
        u == Tip(h)
    IN  [s \in Shards |-> IF c[s] = p[s] THEN u[s] ELSE c[s]]

\* ... replaces u by book; a commit that changes nothing is dropped.
Replay(h, book) ==
    /\ commits' = [commits EXCEPT ![h] = IF book = Tip(h) THEN @ ELSE Append(@, book)]
    /\ work' = [work EXCEPT ![h] = book]
    /\ prev' = [prev EXCEPT ![h] = todo[h][1]]
    /\ todo' = [todo EXCEPT ![h] = Tail(@)]

Ours(h)   == Changed(prev[h], Tip(h))
Theirs(h) == Changed(prev[h], todo[h][1])

ReplayCommit(h) ==
    /\ git[h] \in {"pull", "push", "resolve"}
    /\ todo[h] # <<>>
    /\ Ours(h) \cap Theirs(h) \subseteq Shards \ Changed(todo[h][1], Tip(h))
    /\ Replay(h, Replayed(h))
    /\ UNCHANGED <<upstream, base, stale, git, worker, faults>>

\* Two sides that changed one shard always conflict; the text of two shards
\* is close enough for git to report a conflict between them as well.
\* push_state's conflict is only logged.
ReplayConflict(h) ==
    /\ git[h] \in {"pull", "push", "resolve"}
    /\ todo[h] # <<>>
    /\ Ours(h) # {} /\ Theirs(h) # {} /\ todo[h][1] # Tip(h)
    /\ git' = [git EXCEPT ![h] = "stopped"]
    /\ work' = [work EXCEPT ![h] = Conflicted]
    /\ IF git[h] = "pull" THEN Bail(h)
       ELSE IF git[h] = "push" THEN AfterPush(h)
       ELSE UNCHANGED <<pc, claims>>
    /\ UNCHANGED <<upstream, base, stale, commits, todo, prev, job, target, tries, faults>>

RebaseEnd(h) ==
    /\ git[h] \in {"pull", "push", "resolve"}
    /\ todo[h] = <<>>
    /\ git' = [git EXCEPT ![h] = "idle"]
    /\ pc' = IF git[h] = "pull" THEN [pc EXCEPT ![h] = "update"] ELSE pc
    /\ UNCHANGED <<upstream, base, stale, commits, work, todo, prev, job, target,
                   tries, claims, faults>>

-----------------------------------------------------------------------------
(* The locked update and push_state.                                       *)

\* claim_shard, mark_done, mark_failed, mark_pending_resume.
Accepts(j, st) ==
    \/ j = "claim" /\ st = "pending"
    \/ j = "resume" /\ st = "claimed_pending_resume"
    \/ j = "done" /\ st \in {"claimed", "claimed_pending_resume"}
    \/ j = "failed"
    \/ j = "checkpoint" /\ st = "claimed"

Marked(j, h, e) ==
    IF j \in {"claim", "resume"}
    THEN [e EXCEPT !.state = "claimed", !.host = h, !.at = 1]
    ELSE IF j = "checkpoint" THEN [e EXCEPT !.state = "claimed_pending_resume"]
    ELSE [e EXCEPT !.state = j, !.detail = h]

Update(h) ==
    /\ Goto(h, "update", "commit")
    /\ Accepts(job[h], work[h][target[h]].state)
    /\ work' = [work EXCEPT ![h][target[h]] = Marked(job[h], h, @)]
    /\ UNCHANGED <<upstream, base, stale, commits, git, todo, prev, job, target,
                   tries, claims, faults>>

\* A lost claim is a soft race; a refused outcome is a traceback.
UpdateRefused(h) ==
    /\ git[h] = "idle" /\ pc[h] = "update"
    /\ ~Accepts(job[h], work[h][target[h]].state)
    /\ \/ /\ job[h] \in {"claim", "resume"}
          /\ pc' = [pc EXCEPT ![h] = "idle"]
          /\ Release(h)
       \/ /\ job[h] \in {"done", "checkpoint"}
          /\ pc' = [pc EXCEPT ![h] = "dead"]
          /\ UNCHANGED claims
    /\ UNCHANGED <<upstream, repo, job, target, tries, faults>>

Commit(h) ==
    /\ Goto(h, "commit", "push")
    /\ commits' = [commits EXCEPT ![h] = Append(@, work[h])]
    /\ tries' = [tries EXCEPT ![h] = 0]
    /\ UNCHANGED <<upstream, base, stale, work, git, todo, prev, job, target, claims, faults>>

Push(h) ==
    /\ git[h] = "idle" /\ pc[h] = "push"
    /\ ~stale[h]
    /\ upstream' = Tip(h)
    /\ base' = [base EXCEPT ![h] = Tip(h)]
    /\ commits' = [commits EXCEPT ![h] = <<>>]
    /\ stale' = [g \in Hosts |-> g # h]
    /\ AfterPush(h)
    /\ UNCHANGED <<work, git, todo, prev, job, target, tries, faults>>

\* MUTATION of PushRejected: no end to the retries.
PushRejectedAgain(h) ==
    /\ git[h] = "idle" /\ pc[h] = "push"
    /\ stale[h]
    /\ tries' = [tries EXCEPT ![h] = @ + 1]
    /\ BeginRebase(h, "push")
    /\ UNCHANGED <<upstream, pc, job, target, claims, faults>>

PushRejected(h) ==
    /\ git[h] = "idle" /\ pc[h] = "push"
    /\ stale[h] /\ tries[h] + 1 < Retries
    /\ tries' = [tries EXCEPT ![h] = @ + 1]
    /\ BeginRebase(h, "push")
    /\ UNCHANGED <<upstream, pc, job, target, claims, faults>>

\* The SyncError of the last attempt is logged.
PushFails(h) ==
    /\ git[h] = "idle" /\ pc[h] = "push"
    /\ IF stale[h] /\ tries[h] + 1 = Retries THEN UNCHANGED faults ELSE Fault
    /\ AfterPush(h)
    /\ UNCHANGED <<upstream, repo, job, target, tries>>

-----------------------------------------------------------------------------
(* The operator and the environment.                                       *)

\* resolve-conflict --continue-rebase: stage 2 is the tip being rebuilt,
\* stage 3 the commit being replayed.  The operator edits the shards it
\* lists as unresolved and may pick either side.
ResolveConflict(h) ==
    /\ git[h] = "stopped"
    /\ LET b == prev[h]
           o == Tip(h)
           t == todo[h][1]
       IN  \E S \in SUBSET {s \in Shards : Unresolved(b[s], o[s], t[s])} :
             Replay(h, [s \in Shards |->
                 IF s \in S THEN t[s] ELSE Merge(b[s], o[s], t[s])])
    /\ git' = [git EXCEPT ![h] = "resolve"]
    /\ UNCHANGED <<upstream, base, stale, worker, faults>>

Crash(h) ==
    /\ Fault
    /\ pc[h] \notin Ended /\ git[h] \notin {"pull", "push"}
    /\ pc' = [pc EXCEPT ![h] = "dead"]
    /\ UNCHANGED <<upstream, repo, job, target, tries, claims>>

Next ==
    \E h \in Hosts :
        \/ Start(h) \/ Unreadable(h) \/ Select(h) \/ Drained(h) \/ Score(h)
        \/ PullRefused(h) \/ PullFails(h) \/ Pull(h)
        \/ ReplayCommit(h) \/ ReplayConflict(h) \/ RebaseEnd(h)
        \/ Update(h) \/ UpdateRefused(h) \/ Commit(h)
        \/ Push(h) \/ PushRejected(h) \/ PushFails(h)
        \/ ResolveConflict(h) \/ Crash(h)

Spec == Init /\ [][Next]_vars

-----------------------------------------------------------------------------
Outcomes == {"done", "failed"}

\* A shard with an outcome in the shared history never goes back to work,
\* through every rebase, resolution and late push.  (done can still become
\* failed: mark_failed does not look at the entry, so a host that scored
\* the shard a second time and failed overwrites the first host's result.)
UpstreamKeepsOutcomes ==
    [][\A s \in Shards :
         upstream[s].state \in Outcomes => upstream'[s].state \in Outcomes]_vars

\* Some revision that a clone holds, or the shared one, has an outcome of s.
OutcomeSomewhere(s) ==
    \/ upstream[s].state \in Outcomes
    \/ \E h \in Hosts :
         \/ work[h] # Conflicted /\ work[h][s].state \in Outcomes
         \/ \E i \in 1 .. Len(commits[h]) : commits[h][i][s].state \in Outcomes
         \/ \E i \in 1 .. Len(todo[h]) : todo[h][i][s].state \in Outcomes

\* Once a worker recorded the outcome of a shard, no failed push, retry,
\* rebase, conflict or crash makes the run forget it.
OutcomeNeverLost ==
    [][\A s \in Shards : OutcomeSomewhere(s) => OutcomeSomewhere(s)']_vars

==============================================================================
