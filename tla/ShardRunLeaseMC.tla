-------------------------- MODULE ShardRunLeaseMC --------------------------
(* Small instances of ShardRunLease; the workers are interchangeable.      *)
EXTENDS ShardRunLease, TLC

WorkerSymmetry == Permutations(Workers)
=============================================================================
