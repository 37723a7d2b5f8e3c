--------------------------- MODULE ShardRunLease ---------------------------
(* ShardRun without sweepers implements ShardLease: the lease of a shard   *)
(* is its entry in state.json.                                             *)
EXTENDS ShardRun

LeaseKind(st) ==
    CASE st = "pending" -> "free"
      [] st = "claimed" -> "held"
      [] st = "claimed_pending_resume" -> "yielded"
      [] st = "done" -> "done"
      [] st = "failed" -> "failed"

LeaseOf == [s \in Shards |->
    [kind |-> LeaseKind(state[s]),
     by   |-> IF state[s] = "claimed" THEN owner[s] ELSE None]]

Lease == INSTANCE ShardLease WITH lease <- LeaseOf

\* Every step of the workers, crashes, checkpoints, races and stale reads
\* included, is a step on the leases or none at all.
ImplementsLease == Lease!LeaseSpec
=============================================================================
