------------------------------ MODULE MCDeferral ------------------------------
(* Model values for TLC. *)
EXTENDS Deferral

CONSTANTS u1, u2, c1, c2

\* One cron entry pushes, the other keeps the default.
MCNotify == [c \in Cron |-> IF c = c1 THEN "telegram" ELSE "disabled"]
=============================================================================
