------------------------------ MODULE AtlasRunMC ------------------------------
(* Small instances of AtlasRun. *)
EXTENDS AtlasRun, TLC

PriceOf == [m \in Models |-> 2]

Symmetry == Permutations(Chapters) \cup Permutations(Models)
=============================================================================
