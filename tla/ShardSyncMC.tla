---------------------------- MODULE ShardSyncMC ----------------------------
(* Small instances of ShardSync; the hosts are interchangeable.            *)
EXTENDS ShardSync, TLC

HostSymmetry == Permutations(Hosts)
=============================================================================
