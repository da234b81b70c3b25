----------------------------- MODULE MCStopAlert -----------------------------
(* An instance of StopAlert for TLC. *)
EXTENDS StopAlert, TLC

CONSTANTS p1, p2, c1, c2

\* One holding has both lines, the other lost its second one and is not near
\* the first at the higher price.
MCStops == [c \in Codes |-> IF c = c1 THEN [first |-> 85, second |-> 80]
                            ELSE [first |-> 82, second |-> Null]]
Symmetry == Permutations(Procs)
=============================================================================
