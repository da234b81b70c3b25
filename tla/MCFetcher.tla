------------------------------ MODULE MCFetcher ------------------------------
(* Fetcher for TLC. *)
EXTENDS Fetcher

CONSTANTS p1, p2, c1, c2
=============================================================================
