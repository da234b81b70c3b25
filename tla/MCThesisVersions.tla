--------------------------- MODULE MCThesisVersions ---------------------------
(* Instances of ThesisVersions for TLC. *)
EXTENDS ThesisVersions, TLC

CONSTANTS p1, p2

Symmetry == Permutations(Procs)
=============================================================================
