---------------------------- MODULE ThesisVersions ----------------------------
(***************************************************************************)
(* The versioned theses of a holding and its L3 exit conditions            *)
(* (commands_monitor.py: l3-add, l3-update, l3-list, thesis-rewrite).      *)
(*                                                                         *)
(* thesis-rewrite takes the write lock before it reads and is one action,  *)
(* l3-update is one UPDATE.  l3-add and l3-list read in autocommit, each   *)
(* SELECT from a database of its own, and are an action per statement.     *)
(*                                                                         *)
(* One stock code.  Its lots follow one another: add-holding opens one     *)
(* when none is open, a full sale closes it, remove-holding deletes them   *)
(* all with what belongs to them.  Texts, dates and evidence are left out; *)
(* the status stands for what l3-update writes.  What thesis-rewrite       *)
(* demands of a new condition (scope, action, materiality, temporary rule) *)
(* is what makes it valid, so a condition is valid when it has a thesis.   *)
(***************************************************************************)
EXTENDS Integers

CONSTANTS
    Procs,         \* concurrent CLI processes
    Null,          \* SQL NULL
    MaxLots,       \* bound: rows ever inserted into holdings
    MaxConditions, \* bound: rows ever inserted into holding_l3_conditions
    MaxTheses,     \* bound: rows ever inserted into holding_thesis_versions
    MaxNew         \* bound: conditions in one rewrite

ASSUME ThesisBounds ==
    /\ MaxLots \in Nat \ {0} /\ MaxTheses \in Nat \ {0}
    /\ MaxConditions \in Nat /\ MaxNew \in Nat
ASSUME NullIsNoId == Null \notin Int

Lots == 1..MaxLots
Conditions == 1..MaxConditions
Theses == 1..MaxTheses
Opt(S) == S \cup {Null}

VARIABLES
    lots, open, nextLot,           \* holdings of the code, the open one, AUTOINCREMENT
    l3, condition, nextCondition,  \* holding_l3_conditions: ids, rows, AUTOINCREMENT
    versions, thesis, nextThesis,  \* holding_thesis_versions, likewise
    pc, seen,                      \* where each process is, what it has read
    shown                          \* the conditions its listing calls valid for action

holding == <<lots, open, nextLot>>
contract == <<l3, condition, nextCondition, versions, thesis, nextThesis>>
vars == <<holding, contract, pc, seen, shown>>

Statuses == {"pending", "triggered"}
Condition == [lot: Lots, thesis: Opt(Theses), active: BOOLEAN, status: Statuses]
Thesis == [lot: Lots, version: 1..MaxTheses, status: {"active", "superseded"}]
\* What an id that was never used maps to.
NoCondition == [lot |-> 1, thesis |-> Null, active |-> FALSE, status |-> "pending"]
NoThesis == [lot |-> 1, version |-> 1, status |-> "superseded"]

L3Of(l) == {c \in l3 : condition[c].lot = l}
ActiveL3(l) == {c \in L3Of(l) : condition[c].active}
VersionsOf(l) == {t \in versions : thesis[t].lot = l}
Current(l) == {t \in VersionsOf(l) : thesis[t].status = "active"}

\* COALESCE(MAX(version), 0) + 1
NextVersion(l, v) ==
    /\ \A t \in VersionsOf(l) : thesis[t].version < v
    /\ v = 1 \/ \E t \in VersionsOf(l) : thesis[t].version = v - 1

-----------------------------------------------------------------------------
(* The holding itself. *)

AddHolding ==
    /\ open = Null /\ nextLot \in Lots
    /\ lots' = lots \cup {nextLot} /\ open' = nextLot /\ nextLot' = nextLot + 1
    /\ UNCHANGED <<contract, pc, seen, shown>>
SellAll ==
    /\ open # Null /\ open' = Null
    /\ UNCHANGED <<lots, nextLot, contract, pc, seen, shown>>
RemoveHolding ==
    /\ lots # {}
    /\ lots' = {} /\ open' = Null
    /\ l3' = {c \in l3 : condition[c].lot \notin lots}
    /\ versions' = {t \in versions : thesis[t].lot \notin lots}
    /\ UNCHANGED <<nextLot, condition, nextCondition, thesis, nextThesis, pc, seen, shown>>
CleanupOrphans ==
    /\ l3' = {c \in l3 : condition[c].lot \in lots}
    /\ versions' = {t \in versions : thesis[t].lot \in lots}
    /\ <<l3', versions'>> # <<l3, versions>>
    /\ UNCHANGED <<holding, condition, nextCondition, thesis, nextThesis, pc, seen, shown>>

-----------------------------------------------------------------------------
(* l3-add and l3-list: the open lot, then its active thesis, then the work. *)

Find(p, next) ==
    /\ pc[p] = "idle"
    /\ IF open = Null THEN UNCHANGED <<pc, seen>>
       ELSE /\ pc' = [pc EXCEPT ![p] = next]
            /\ seen' = [seen EXCEPT ![p] = [lot |-> open, thesis |-> Null]]
    /\ shown' = [shown EXCEPT ![p] = {}]
    /\ UNCHANGED <<holding, contract>>
L3AddFind(p) == Find(p, "add_check")
L3ListFind(p) == Find(p, "list_thesis")

\* With an active thesis the command ends: 请使用 thesis-rewrite.
L3AddCheck(p) ==
    /\ pc[p] = "add_check"
    /\ pc' = [pc EXCEPT ![p] = IF Current(seen[p].lot) = {} THEN "add_insert" ELSE "idle"]
    /\ UNCHANGED <<holding, contract, seen, shown>>
L3AddInsert(p) ==
    /\ pc[p] = "add_insert" /\ nextCondition \in Conditions
    /\ l3' = l3 \cup {nextCondition}
    /\ condition' = [condition EXCEPT ![nextCondition] =
          [lot |-> seen[p].lot, thesis |-> Null, active |-> TRUE, status |-> "pending"]]
    /\ nextCondition' = nextCondition + 1
    /\ pc' = [pc EXCEPT ![p] = "idle"]
    /\ UNCHANGED <<holding, versions, thesis, nextThesis, seen, shown>>

L3ListThesis(p) ==
    /\ pc[p] = "list_thesis"
    /\ \/ Current(seen[p].lot) = {} /\ UNCHANGED seen
       \/ \E t \in Current(seen[p].lot) : seen' = [seen EXCEPT ![p].thesis = t]
    /\ pc' = [pc EXCEPT ![p] = "list_rows"]
    /\ UNCHANGED <<holding, contract, shown>>
\* Without a thesis nothing is valid (legacy contract); with one, what is bound to it.
\* Mutant: the retired ones too.
L3ListRows_Retired(p) ==
    /\ pc[p] = "list_rows"
    /\ shown' = [shown EXCEPT ![p] =
          {c \in L3Of(seen[p].lot) :
              seen[p].thesis # Null /\ condition[c].thesis = seen[p].thesis}]
    /\ pc' = [pc EXCEPT ![p] = "idle"]
    /\ UNCHANGED <<holding, contract, seen>>
L3ListRows(p) ==
    /\ pc[p] = "list_rows"
    /\ shown' = [shown EXCEPT ![p] =
          {c \in ActiveL3(seen[p].lot) :
              seen[p].thesis # Null /\ condition[c].thesis = seen[p].thesis}]
    /\ pc' = [pc EXCEPT ![p] = "idle"]
    /\ UNCHANGED <<holding, contract, seen>>

\* A process ends between its statements: it has written nothing yet.
GiveUp(p) ==
    /\ pc[p] # "idle" /\ pc' = [pc EXCEPT ![p] = "idle"]
    /\ UNCHANGED <<holding, contract, seen, shown>>

-----------------------------------------------------------------------------
(* l3-update and thesis-rewrite. *)

\* The id comes from an earlier listing; a retired condition is refused.
L3Update(c, status) ==
    /\ c \in l3 /\ condition[c].active
    /\ condition' = [condition EXCEPT ![c].status = status]
    /\ UNCHANGED <<holding, l3, nextCondition, versions, thesis, nextThesis, pc, seen, shown>>

\* The new version, the conditions named for retirement, n new ones.
Replace(retired, n, v) ==
    LET new == nextCondition..(nextCondition + n - 1)
    IN  /\ n > 0 /\ new \subseteq Conditions /\ nextThesis \in Theses
        /\ versions' = versions \cup {nextThesis}
        /\ thesis' = [t \in Theses |->
              IF t = nextThesis THEN [lot |-> open, version |-> v, status |-> "active"]
              ELSE IF t \in Current(open) THEN [thesis[t] EXCEPT !.status = "superseded"]
              ELSE thesis[t]]
        /\ nextThesis' = nextThesis + 1
        /\ l3' = l3 \cup new
        /\ condition' = [c \in Conditions |->
              IF c \in new
              THEN [lot |-> open, thesis |-> nextThesis, active |-> c \notin retired,
                    status |-> "pending"]
              ELSE [condition[c] EXCEPT !.active = @ /\ c \notin retired]]
        /\ nextCondition' = nextCondition + n
        /\ UNCHANGED <<holding, pc, seen, shown>>

\* The payload must name all active conditions of the open lot, and only those.
\* Mutants: some of them suffice; whatever is active at the end is retired.
ThesisRewrite_Partial(retired, n, v) ==
    /\ open # Null /\ retired \subseteq ActiveL3(open) /\ NextVersion(open, v)
    /\ Replace(retired, n, v)
ThesisRewrite_RetiresLast(retired, n, v) ==
    /\ open # Null /\ retired = ActiveL3(open) /\ NextVersion(open, v)
    /\ Replace(retired \cup (nextCondition..(nextCondition + n - 1)), n, v)
ThesisRewrite(retired, n, v) ==
    /\ open # Null /\ retired = ActiveL3(open) /\ NextVersion(open, v)
    /\ Replace(retired, n, v)

-----------------------------------------------------------------------------
\* The open lot with conditions from before the thesis versions.
Init ==
    /\ lots = {1} /\ open = 1 /\ nextLot = 2
    /\ \E n \in 0..MaxConditions :
          /\ l3 = 1..n /\ nextCondition = n + 1
          /\ condition = [c \in Conditions |->
                IF c <= n THEN [NoCondition EXCEPT !.active = TRUE] ELSE NoCondition]
    /\ versions = {} /\ thesis = [t \in Theses |-> NoThesis] /\ nextThesis = 1
    /\ pc = [p \in Procs |-> "idle"]
    /\ seen = [p \in Procs |-> [lot |-> 1, thesis |-> Null]]
    /\ shown = [p \in Procs |-> {}]

Next ==
    \/ AddHolding \/ SellAll \/ RemoveHolding \/ CleanupOrphans
    \/ \E p \in Procs :
          \/ L3AddFind(p) \/ L3AddCheck(p) \/ L3AddInsert(p)
          \/ L3ListFind(p) \/ L3ListThesis(p) \/ L3ListRows(p)
          \/ GiveUp(p)
    \/ \E c \in Conditions, status \in Statuses : L3Update(c, status)
    \/ \E retired \in SUBSET Conditions, n \in 1..MaxNew, v \in 0..MaxTheses :
          ThesisRewrite(retired, n, v)

Spec == Init /\ [][Next]_vars

-----------------------------------------------------------------------------
(* Properties. *)

TypeOK ==
    /\ lots \subseteq Lots /\ open \in Opt(lots) /\ nextLot \in 1..(MaxLots + 1)
    /\ l3 \subseteq Conditions /\ condition \in [Conditions -> Condition]
    /\ nextCondition \in 1..(MaxConditions + 1)
    /\ versions \subseteq Theses /\ thesis \in [Theses -> Thesis]
    /\ nextThesis \in 1..(MaxTheses + 1)
    /\ pc \in [Procs -> {"idle", "add_check", "add_insert", "list_thesis", "list_rows"}]
    /\ seen \in [Procs -> [lot: Lots, thesis: Opt(Theses)]]
    /\ shown \in [Procs -> SUBSET Conditions]

\* An active versioned condition is bound to the one active thesis of its lot,
\* and that is the newest version.
ContractIsCurrent ==
    \A c \in l3 :
        condition[c].active /\ condition[c].thesis # Null =>
            LET t == condition[c].thesis
                l == condition[c].lot
            IN  /\ Current(l) = {t}
                /\ \A u \in VersionsOf(l) : thesis[u].version <= thesis[t].version

\* No stop-loss vacuum: a lot that ever got a thesis has an active one, and that
\* has a condition in force.
NoVacuum ==
    \A l \in lots :
        VersionsOf(l) # {} =>
            \E t \in Current(l) : \E c \in ActiveL3(l) : condition[c].thesis = t

\* The audit history: a condition once retired is not written again, whichever
\* listing its id was taken from.
RetiredIsFrozen ==
    [][\A c \in l3 \cap l3' :
          ~condition[c].active => condition'[c] = condition[c]]_vars

\* What a listing calls valid for action is in force at that moment, even if the
\* thesis was rewritten between its two reads.
OnlyCurrentActs ==
    [][\A p \in Procs :
          pc[p] = "list_rows" =>
              \A c \in shown'[p] :
                  condition[c].active /\ condition[c].thesis \in Current(seen[p].lot)]_vars

\* "该持仓已启用论文版本，请使用 thesis-rewrite 原子重写 L3": under an active thesis no
\* condition comes in without a version.
NoUnversionedUnderThesis ==
    \A l \in lots :
        Current(l) # {} => \A c \in ActiveL3(l) : condition[c].thesis # Null
=============================================================================
