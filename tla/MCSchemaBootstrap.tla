-------------------------- MODULE MCSchemaBootstrap --------------------------
(* Instances of SchemaBootstrap for TLC. *)
EXTENDS SchemaBootstrap, TLC

CONSTANTS p1, p2, v

\* Position 4 is a column of holding_events, the others are columns of holdings.
MCHoldingsColumns == {2, 3}
\* The new processes share a lock file; the veteran's TMPDIR is another one, which
\* matters when it finds no database yet.
VeteranApart == [p \in Procs |-> IF p \in Veterans THEN "private" ELSE "tmp"]
=============================================================================
