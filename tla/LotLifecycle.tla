----------------------------- MODULE LotLifecycle -----------------------------
(***************************************************************************)
(* What the holding ledger promises about one lot, without processes,      *)
(* transactions or rows: a lot is opened once, its position moves while it *)
(* is open, it is closed in the very step that empties it, and it never    *)
(* comes back.  A lot whose share count was never recorded is untracked:   *)
(* it has no position, and closing it is a decision of its own.            *)
(***************************************************************************)
EXTENDS Integers

CONSTANTS Lots, Untracked

VARIABLES
    stage,    \* how far each lot has come
    position  \* the shares its trade events add up to

vars == <<stage, position>>

Stages == {"absent", "open", "closed", "removed"}
Tracked(l) == position[l] # Untracked

Init ==
    \E held \in SUBSET Lots :
        /\ stage = [l \in Lots |-> IF l \in held THEN "open" ELSE "absent"]
        /\ position \in [Lots -> (Nat \ {0}) \cup {Untracked}]
        /\ \A l \in Lots \ held : ~Tracked(l)

OpenLot(l) ==
    /\ stage[l] = "absent"
    /\ stage' = [stage EXCEPT ![l] = "open"]
    /\ position'[l] \in (Nat \ {0}) \cup {Untracked}
    /\ position' = [position EXCEPT ![l] = position'[l]]

\* One trade may move several open lots (a FIFO sale); whichever reaches zero closes.
Trade(moved) ==
    /\ \A l \in moved : stage[l] = "open" /\ Tracked(l)
    /\ \A l \in moved : position'[l] \in Nat
    /\ position' = [l \in Lots |-> IF l \in moved THEN position'[l] ELSE position[l]]
    /\ stage' = [l \in Lots |->
                   IF l \in moved /\ position'[l] = 0 THEN "closed" ELSE stage[l]]

CloseUntracked(l) ==
    /\ stage[l] = "open" /\ ~Tracked(l)
    /\ stage' = [stage EXCEPT ![l] = "closed"]
    /\ UNCHANGED position

Remove(gone) ==
    /\ \A l \in gone : stage[l] \in {"open", "closed"}
    /\ stage' = [l \in Lots |-> IF l \in gone THEN "removed" ELSE stage[l]]
    /\ position' = [l \in Lots |-> IF l \in gone THEN Untracked ELSE position[l]]

Next ==
    \/ \E l \in Lots : OpenLot(l) \/ CloseUntracked(l)
    \/ \E S \in SUBSET Lots : Trade(S) \/ Remove(S)

Spec == Init /\ [][Next]_vars
=============================================================================
