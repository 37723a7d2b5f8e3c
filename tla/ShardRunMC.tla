----------------------------- MODULE ShardRunMC -----------------------------
(* Small instances of ShardRun: workers and sweepers are interchangeable,  *)
(* shard ids are ordered and are not.                                      *)
EXTENDS ShardRun, TLC

WorkerSymmetry == Permutations(Workers)
=============================================================================
