----------------------------- MODULE ShardLease -----------------------------
(***************************************************************************)
(* What the worker pool of one sharded run promises, with the claim files, *)
(* the stale reads, the cache files and the lock left out.  A shard is     *)
(* leased to one worker at a time; only its holder ends the lease, by      *)
(* finishing the shard, failing it, or yielding it to be resumed; a        *)
(* finished or failed shard is never leased again; no worker holds two     *)
(* leases.  Nobody takes a lease away: that is what `sweep-stale` adds,    *)
(* and ShardRun implements this module only without sweepers.              *)
(***************************************************************************)
CONSTANTS
    Shards,   \* the shards of the run
    Workers,  \* the worker processes
    None      \* no holder

VARIABLE lease  \* lease[s]: how shard s stands and who holds it

LeaseKinds == {"free", "held", "yielded", "done", "failed"}

Ended(kind) == [kind |-> kind, by |-> None]
HeldBy(p)   == [kind |-> "held", by |-> p]

LeaseTypeOK == lease \in [Shards -> [kind : LeaseKinds, by : Workers \cup {None}]]

LeaseInit == lease = [s \in Shards |-> Ended("free")]

Take(p, s) ==
    /\ lease[s] \in {Ended("free"), Ended("yielded")}
    /\ \A t \in Shards : lease[t] # HeldBy(p)
    /\ lease' = [lease EXCEPT ![s] = HeldBy(p)]

Finish(p, s) ==
    /\ lease[s] = HeldBy(p)
    /\ lease' = [lease EXCEPT ![s] = Ended("done")]

Fail(p, s) ==
    /\ lease[s] = HeldBy(p)
    /\ lease' = [lease EXCEPT ![s] = Ended("failed")]

Yield(p, s) ==
    /\ lease[s] = HeldBy(p)
    /\ lease' = [lease EXCEPT ![s] = Ended("yielded")]

\* One shard's lease changes, by one worker.
LeaseNext ==
    \E s \in Shards :
        /\ lease'[s] # lease[s]
        /\ \E p \in Workers : Take(p, s) \/ Finish(p, s) \/ Fail(p, s) \/ Yield(p, s)

LeaseSpec == LeaseInit /\ [][LeaseNext]_lease
=============================================================================
