----------------------------- MODULE MCInstaller -----------------------------
(* Instances of Installer for TLC. *)
EXTENDS Installer, TLC

CONSTANTS p1, p2, r1, r2

Symmetry == Permutations(Procs) \cup Permutations(Releases)
=============================================================================
