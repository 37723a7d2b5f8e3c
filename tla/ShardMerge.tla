----------------------------- MODULE ShardMerge -----------------------------
(***************************************************************************)
(* merge_state_files, the three-way merge that resolve-conflict applies to *)
(* state.json when two hosts of a git-synced run touched the same shard.   *)
(* The merge looks at each shard on its own, so these are its operators on *)
(* one shard's entry: base is the common ancestor, ours and theirs are the *)
(* two revisions.  All three list the same shards: the ids are fixed when  *)
(* the run is created.                                                     *)
(***************************************************************************)
EXTENDS Naturals

CONSTANTS
    Hosts,    \* the hosts of the run
    Nobody,   \* claimed_by_host of a shard nobody claimed
    Stamps,   \* values of claimed_at, ordered; 0 is "never"
    Details   \* what the other fields of an entry may hold

ASSUME MergeAssumption ==
    /\ Nobody \notin Hosts
    /\ Stamps \subseteq Nat

EntryStates == {"pending", "claimed", "claimed_pending_resume", "done", "failed"}

Entry == [state : EntryStates, host : Hosts \cup {Nobody}, at : Stamps,
          detail : Details]

\* MUTATION of Rank: a resumable shard no better than a claimed one.
RankFlat(st) ==
    IF st \in {"claimed", "claimed_pending_resume"} THEN 1
    ELSE IF st = "done" THEN 3 ELSE 0

\* _shard_state_rank; failed is not on the ladder.
Rank(st) ==
    IF st = "claimed" THEN 1
    ELSE IF st = "claimed_pending_resume" THEN 2
    ELSE IF st = "done" THEN 3 ELSE 0

\* MUTATION of FailedContest: a failure on their side is not noticed.
FailedContestOneSided(ours, theirs) ==
    IF theirs.state = "done" THEN theirs ELSE ours

\* One side failed: failed beats everything but done, and ours beats theirs
\* when both failed.
FailedContest(ours, theirs) ==
    IF theirs.state = "done" \/ ours.state \notin {"failed", "done"}
    THEN theirs ELSE ours

\* Equal rank on one host: the later claimed_at, ours when they are equal.
\* Equal rank on two hosts: ours stands in until the operator decides.
Tie(ours, theirs) ==
    IF ours.host = theirs.host /\ theirs.at > ours.at THEN theirs ELSE ours

\* MUTATION of Contest: failed is left to the ranks.
ContestByRank(ours, theirs) ==
    IF Rank(ours.state) > Rank(theirs.state) THEN ours
    ELSE IF Rank(theirs.state) > Rank(ours.state) THEN theirs
    ELSE Tie(ours, theirs)

\* Both sides changed the entry, and differently.
Contest(ours, theirs) ==
    IF "failed" \in {ours.state, theirs.state} THEN FailedContest(ours, theirs)
    ELSE IF Rank(ours.state) > Rank(theirs.state) THEN ours
    ELSE IF Rank(theirs.state) > Rank(ours.state) THEN theirs
    ELSE Tie(ours, theirs)

Merge(base, ours, theirs) ==
    IF ours = theirs \/ theirs = base THEN ours
    ELSE IF ours = base THEN theirs
    ELSE Contest(ours, theirs)

\* The shard is listed for manual review.
Unresolved(base, ours, theirs) ==
    /\ ours # theirs /\ ours # base /\ theirs # base
    /\ "failed" \notin {ours.state, theirs.state}
    /\ Rank(ours.state) = Rank(theirs.state)
    /\ ours.host # theirs.host
=============================================================================
