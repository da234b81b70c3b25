--------------------------- MODULE MCHoldingLedger ---------------------------
(* HoldingLedger for TLC: the processes are interchangeable. *)
EXTENDS HoldingLedger, TLC

ProcSymmetry == Permutations(Procs)
=============================================================================
