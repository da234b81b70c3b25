--------------------------- MODULE MCResearchCache ----------------------------
(* Instances of ResearchCache for TLC. *)
EXTENDS ResearchCache, TLC

CONSTANTS p1, p2, s1, s2

Symmetry == Permutations(Procs) \cup Permutations(Scores)
=============================================================================
