------------------------------ MODULE AcquireRowsMC ------------------------------
(* AcquireRows for TLC: publishers are interchangeable. *)
EXTENDS AcquireRows, TLC

PublisherSymmetry == Permutations(Publishers)
=============================================================================
