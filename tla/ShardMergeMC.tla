---------------------------- MODULE ShardMergeMC ----------------------------
(* Small instances of ShardMergeCheck; hosts are interchangeable.          *)
EXTENDS ShardMergeCheck, TLC

HostSymmetry == Permutations(Hosts)
=============================================================================
