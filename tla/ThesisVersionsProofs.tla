------------------------- MODULE ThesisVersionsProofs -------------------------
(***************************************************************************)
(* ThesisVersions for any number of processes, lots, conditions, versions  *)
(* and conditions per rewrite.                                             *)
(*                                                                         *)
(* The properties are not inductive by themselves: ids must never be       *)
(* reused, the thesis of a condition must be one of its own lot, and a     *)
(* listing must not yet show anything.                                     *)
(***************************************************************************)
EXTENDS ThesisVersions, TLAPS

USE ThesisBounds, NullIsNoId

\* AUTOINCREMENT: the next ids are new.
Fresh ==
    /\ \A c \in l3 : c < nextCondition
    /\ \A t \in versions : t < nextThesis
    /\ \A l \in lots : l < nextLot
    /\ \A t \in versions : thesis[t].lot \in lots

\* A lot has one active thesis at most, its newest.
Newest ==
    \A t, u \in versions :
        thesis[t].status = "active" /\ thesis[u].lot = thesis[t].lot =>
            /\ thesis[u].version <= thesis[t].version
            /\ thesis[u].status = "active" => u = t

\* An active versioned condition has the active thesis of its lot.
InForce ==
    \A c \in l3 :
        condition[c].active /\ condition[c].thesis # Null =>
            condition[c].thesis \in Current(condition[c].lot)

\* Every lot with a version has an active one with a condition in force.
Governed ==
    \A u \in versions :
        \E t \in versions : \E c \in l3 :
            /\ thesis[t].lot = thesis[u].lot /\ thesis[t].status = "active"
            /\ condition[c].lot = thesis[u].lot /\ condition[c].active
            /\ condition[c].thesis = t

\* Until a listing has read its rows it shows nothing.
Blank == \A p \in Procs : pc[p] \in {"list_thesis", "list_rows"} => shown[p] = {}

IInv == TypeOK /\ Fresh /\ Newest /\ InForce /\ Governed /\ Blank

\* The parts of the invariant give the properties.
LEMMA InvariantGivesProperties == IInv => ContractIsCurrent /\ NoVacuum
<1> SUFFICES ASSUME IInv PROVE ContractIsCurrent /\ NoVacuum
  OBVIOUS
<1>1. ContractIsCurrent
  <2> SUFFICES ASSUME NEW c \in l3, condition[c].active, condition[c].thesis # Null
               PROVE  /\ Current(condition[c].lot) = {condition[c].thesis}
                      /\ \A u \in VersionsOf(condition[c].lot) :
                            thesis[u].version <= thesis[condition[c].thesis].version
    BY DEF ContractIsCurrent
  <2>1. condition[c].thesis \in Current(condition[c].lot)
    BY DEF IInv, InForce
  <2> QED
    BY <2>1 DEF IInv, Newest, Current, VersionsOf
<1>2. NoVacuum
  BY DEF IInv, Governed, NoVacuum, Current, VersionsOf, ActiveL3, L3Of
<1> QED
  BY <1>1, <1>2

\* A database without versions satisfies all of it.
LEMMA InitIInv == Init => IInv
<1> SUFFICES ASSUME Init PROVE IInv
  OBVIOUS
<1>1. PICK n \in 0..MaxConditions :
          /\ l3 = 1..n /\ nextCondition = n + 1
          /\ condition = [c \in Conditions |->
                IF c <= n THEN [NoCondition EXCEPT !.active = TRUE] ELSE NoCondition]
  BY DEF Init
<1>2. \A c \in Conditions :
          condition[c] \in Condition /\ condition[c].thesis = Null
  <2>1. NoCondition \in Condition /\ NoCondition.thesis = Null
    BY DEF NoCondition, Condition, Opt, Lots, Statuses
  <2> DEFINE legacy == [NoCondition EXCEPT !.active = TRUE]
  <2>2. legacy \in Condition /\ legacy.thesis = Null
    BY <2>1 DEF Condition
  <2> HIDE DEF legacy
  <2>3. \A c \in Conditions : condition[c] = IF c <= n THEN legacy ELSE NoCondition
    BY <1>1 DEF legacy
  <2> QED
    BY <2>1, <2>2, <2>3
<1>3. condition \in [Conditions -> Condition]
  BY <1>1, <1>2
<1>4. NoThesis \in Thesis
  BY DEF NoThesis, Thesis, Lots
<1>5. thesis \in [Theses -> Thesis]
  BY <1>4 DEF Init
<1>6. TypeOK
  <2>1. /\ lots \subseteq Lots /\ open \in Opt(lots) /\ nextLot \in 1..(MaxLots + 1)
        /\ versions \subseteq Theses /\ nextThesis \in 1..(MaxTheses + 1)
    BY DEF Init, Lots, Theses, Opt
  <2>2. l3 \subseteq Conditions /\ nextCondition \in 1..(MaxConditions + 1)
    BY <1>1 DEF Conditions
  <2>3. /\ pc \in [Procs -> {"idle", "add_check", "add_insert", "list_thesis", "list_rows"}]
        /\ seen \in [Procs -> [lot: Lots, thesis: Opt(Theses)]]
        /\ shown \in [Procs -> SUBSET Conditions]
    BY DEF Init, Lots, Opt
  <2> QED
    BY <1>3, <1>5, <2>1, <2>2, <2>3 DEF TypeOK
<1>7. \A c \in l3 : condition[c].thesis = Null
  BY <1>1, <1>2 DEF Conditions
<1>8. Fresh
  BY <1>1 DEF Init, Fresh
<1>9. Blank
  BY DEF Init, Blank
<1> QED
  BY <1>1, <1>6, <1>7, <1>8, <1>9 DEF Init, IInv, Newest, InForce, Governed

\* Steps that leave the database alone.
LEMMA ReadSteps ==
    ASSUME IInv, NEW p \in Procs,
           \/ L3AddFind(p) \/ L3AddCheck(p) \/ L3ListFind(p) \/ L3ListThesis(p)
           \/ L3ListRows(p) \/ GiveUp(p)
    PROVE  IInv'
<1>1. UNCHANGED <<holding, contract>>
  BY DEF L3AddFind, L3AddCheck, L3ListFind, Find, L3ListThesis, L3ListRows, GiveUp
<1>2. pc' \in [Procs -> {"idle", "add_check", "add_insert", "list_thesis", "list_rows"}]
  BY DEF IInv, TypeOK, L3AddFind, L3AddCheck, L3ListFind, Find, L3ListThesis, L3ListRows,
         GiveUp
<1>3. seen' \in [Procs -> [lot: Lots, thesis: Opt(Theses)]]
  <2>1. CASE L3AddFind(p) \/ L3ListFind(p)
    BY <2>1 DEF IInv, TypeOK, L3AddFind, L3ListFind, Find, Opt
  <2>2. CASE L3ListThesis(p)
    <3>1. CASE UNCHANGED seen
      BY <3>1 DEF IInv, TypeOK
    <3>2. CASE \E t \in Current(seen[p].lot) : seen' = [seen EXCEPT ![p].thesis = t]
      <4>1. PICK t \in Theses : seen' = [seen EXCEPT ![p].thesis = t]
        BY <3>2 DEF Current, VersionsOf, IInv, TypeOK
      <4> QED
        BY <4>1 DEF IInv, TypeOK, Opt
    <3> QED
      BY <2>2, <3>1, <3>2 DEF L3ListThesis
  <2>3. CASE L3AddCheck(p) \/ L3ListRows(p) \/ GiveUp(p)
    BY <2>3 DEF IInv, TypeOK, L3AddCheck, L3ListRows, GiveUp
  <2> QED
    BY <2>1, <2>2, <2>3
<1>4. shown' \in [Procs -> SUBSET Conditions]
  BY DEF IInv, TypeOK, L3AddFind, L3AddCheck, L3ListFind, Find, L3ListThesis, L3ListRows,
         GiveUp, ActiveL3, L3Of
<1>5. TypeOK'
  BY <1>1, <1>2, <1>3, <1>4 DEF IInv, TypeOK, holding, contract
<1>6. Blank'
  <2>1. CASE L3AddFind(p) \/ L3ListFind(p)
    BY <2>1 DEF L3AddFind, L3ListFind, Find, IInv, TypeOK, Blank
  <2>2. CASE L3AddCheck(p) \/ L3ListThesis(p) \/ L3ListRows(p) \/ GiveUp(p)
    BY <2>2 DEF L3AddCheck, L3ListThesis, L3ListRows, GiveUp, IInv, TypeOK, Blank
  <2> QED
    BY <2>1, <2>2
<1> QED
  BY <1>1, <1>5, <1>6
     DEF IInv, holding, contract, Fresh, Newest, InForce, Governed, Current, VersionsOf

\* The life of the holding; remove-holding and cleanup delete both tables alike.
LEMMA HoldingSteps ==
    ASSUME IInv, AddHolding \/ SellAll \/ RemoveHolding \/ CleanupOrphans
    PROVE  IInv'
<1>1. TypeOK'
  <2>1. CASE AddHolding
    BY <2>1 DEF IInv, TypeOK, AddHolding, contract, Lots, Opt
  <2>2. CASE SellAll
    BY <2>2 DEF IInv, TypeOK, SellAll, contract, Opt
  <2>3. CASE RemoveHolding
    BY <2>3 DEF IInv, TypeOK, RemoveHolding, Opt
  <2>4. CASE CleanupOrphans
    BY <2>4 DEF IInv, TypeOK, CleanupOrphans, holding
  <2> QED
    BY <2>1, <2>2, <2>3, <2>4
<1>0. Blank'
  BY DEF IInv, Blank, AddHolding, SellAll, RemoveHolding, CleanupOrphans, holding
<1>2. CASE AddHolding \/ SellAll
  BY <1>1, <1>0, <1>2
     DEF IInv, AddHolding, SellAll, contract, Fresh, Newest, InForce, Governed, Current,
         VersionsOf, TypeOK, Lots
<1>3. CASE RemoveHolding \/ CleanupOrphans
  <2>1. /\ l3' \subseteq l3 /\ versions' \subseteq versions
        /\ UNCHANGED <<condition, nextCondition, thesis, nextThesis, nextLot>>
    BY <1>3 DEF RemoveHolding, CleanupOrphans, holding
  <2>2. \A c \in l3', t \in versions :
            thesis[t].lot = condition[c].lot => t \in versions'
    BY <1>3 DEF RemoveHolding, CleanupOrphans, IInv, Fresh
  <2>3. \A t \in versions', c \in l3 :
            thesis[t].lot = condition[c].lot => c \in l3'
    BY <1>3 DEF RemoveHolding, CleanupOrphans, IInv, Fresh
  <2>4. \A t \in versions', u \in versions :
            thesis[t].lot = thesis[u].lot => u \in versions'
    BY <1>3 DEF RemoveHolding, CleanupOrphans, IInv, Fresh
  <2>5. Fresh'
    BY <1>3, <2>1 DEF RemoveHolding, CleanupOrphans, holding, IInv, Fresh
  <2>6. Newest'
    BY <2>1 DEF IInv, Newest
  <2>7. InForce'
    BY <2>1, <2>2 DEF IInv, InForce, Current, VersionsOf
  <2>8. Governed'
    BY <2>1, <2>3, <2>4 DEF IInv, Governed
  <2> QED
    BY <1>1, <1>0, <2>5, <2>6, <2>7, <2>8 DEF IInv
<1> QED
  BY <1>2, <1>3

\* l3-add writes a condition without version; l3-update touches no other field.
LEMMA ConditionSteps ==
    ASSUME IInv,
           \/ \E p \in Procs : L3AddInsert(p)
           \/ \E c \in Conditions, status \in Statuses : L3Update(c, status)
    PROVE  IInv'
<1>1. CASE \E p \in Procs : L3AddInsert(p)
  <2>1. PICK p \in Procs : L3AddInsert(p)
    BY <1>1
  <2>2. nextCondition \in Conditions /\ nextCondition \notin l3
    BY <2>1 DEF L3AddInsert, IInv, Fresh, TypeOK, Conditions
  <2>3. [lot |-> seen[p].lot, thesis |-> Null, active |-> TRUE, status |-> "pending"]
          \in Condition
    BY DEF Condition, Opt, Statuses, IInv, TypeOK
  <2>4. TypeOK'
    BY <2>1, <2>2, <2>3 DEF L3AddInsert, IInv, TypeOK, Conditions, holding
  <2>5. /\ condition'[nextCondition].thesis = Null
        /\ \A c \in l3 : condition'[c] = condition[c]
        /\ l3' = l3 \cup {nextCondition}
        /\ UNCHANGED <<lots, nextLot, versions, thesis, nextThesis>>
    BY <2>1, <2>2 DEF L3AddInsert, IInv, TypeOK, holding
  <2>6. Fresh'
    BY <2>1, <2>5 DEF L3AddInsert, IInv, Fresh, TypeOK, Conditions
  <2>7. Newest' /\ InForce' /\ Governed'
    BY <2>5 DEF IInv, Newest, InForce, Governed, Current, VersionsOf
  <2>8. Blank'
    BY <2>1 DEF L3AddInsert, IInv, TypeOK, Blank
  <2> QED
    BY <2>4, <2>6, <2>7, <2>8 DEF IInv
<1>2. CASE \E c \in Conditions, status \in Statuses : L3Update(c, status)
  <2>1. PICK c \in Conditions, status \in Statuses : L3Update(c, status)
    BY <1>2
  <2>2. TypeOK'
    BY <2>1 DEF L3Update, IInv, TypeOK, Condition, holding
  <2>3. /\ \A d \in Conditions :
              /\ condition'[d].lot = condition[d].lot
              /\ condition'[d].thesis = condition[d].thesis
              /\ condition'[d].active = condition[d].active
        /\ UNCHANGED <<lots, nextLot, l3, nextCondition, versions, thesis, nextThesis>>
        /\ l3 \subseteq Conditions
    BY <2>1 DEF L3Update, IInv, TypeOK, Condition, holding
  <2>4. Fresh' /\ Newest' /\ InForce'
    BY <2>3 DEF IInv, Fresh, Newest, InForce, Current, VersionsOf
  <2>5. Governed'
    BY <2>3 DEF IInv, Governed
  <2>6. Blank'
    BY <2>1 DEF L3Update, IInv, Blank
  <2> QED
    BY <2>2, <2>4, <2>5, <2>6 DEF IInv
<1> QED
  BY <1>1, <1>2

\* thesis-rewrite: the old version and all its conditions go, the new ones come.
LEMMA RewriteStep ==
    ASSUME IInv, NEW retired \in SUBSET Conditions, NEW n \in 1..MaxNew,
           NEW v \in 0..MaxTheses, ThesisRewrite(retired, n, v)
    PROVE  IInv'
<1> DEFINE new == nextCondition..(nextCondition + n - 1)
<1>1. /\ open \in lots /\ retired = ActiveL3(open) /\ NextVersion(open, v)
      /\ new \subseteq Conditions /\ nextThesis \in Theses /\ new # {}
      /\ l3' = l3 \cup new /\ versions' = versions \cup {nextThesis}
      /\ nextCondition' = nextCondition + n /\ nextThesis' = nextThesis + 1
      /\ UNCHANGED <<lots, open, nextLot, pc, seen, shown>>
  <2>1. open \in lots
    BY DEF ThesisRewrite, IInv, TypeOK, Opt
  <2>2. new # {}
    BY nextCondition \in new DEF IInv, TypeOK
  <2> QED
    BY <2>1, <2>2 DEF ThesisRewrite, Replace, holding
<1>2. nextThesis \notin versions /\ new \cap l3 = {}
  BY DEF IInv, Fresh, TypeOK, Conditions, Theses
<1>3. retired \cap new = {} /\ retired \subseteq l3
  BY <1>1, <1>2 DEF ActiveL3, L3Of
<1>4. \A t \in Theses : thesis'[t] =
          IF t = nextThesis THEN [lot |-> open, version |-> v, status |-> "active"]
          ELSE IF t \in Current(open) THEN [thesis[t] EXCEPT !.status = "superseded"]
          ELSE thesis[t]
  BY DEF ThesisRewrite, Replace
<1>5. \A c \in Conditions : condition'[c] =
          IF c \in new
          THEN [lot |-> open, thesis |-> nextThesis, active |-> c \notin retired,
                status |-> "pending"]
          ELSE [condition[c] EXCEPT !.active = @ /\ c \notin retired]
  BY DEF ThesisRewrite, Replace
<1>6. v \in 1..MaxTheses /\ \A t \in VersionsOf(open) : thesis[t].version < v
  <2>1. \A t \in VersionsOf(open) : thesis[t].version \in 1..MaxTheses
    BY DEF VersionsOf, IInv, TypeOK, Thesis
  <2> QED
    BY <1>1, <2>1 DEF NextVersion
<1>7. TypeOK'
  <2>1. thesis' \in [Theses -> Thesis]
    <3>1. \A t \in Theses : thesis'[t] \in Thesis
      <4> TAKE t \in Theses
      <4>1. thesis[t] \in Thesis /\ open \in Lots
        BY <1>1 DEF IInv, TypeOK
      <4>2. /\ [lot |-> open, version |-> v, status |-> "active"] \in Thesis
            /\ [thesis[t] EXCEPT !.status = "superseded"] \in Thesis
        BY <1>6, <4>1 DEF Thesis
      <4> QED
        BY <1>4, <4>1, <4>2
    <3>2. thesis' = [t \in Theses |-> thesis'[t]]
      BY DEF ThesisRewrite, Replace
    <3> QED
      BY <3>1, <3>2
  <2>2. condition' \in [Conditions -> Condition]
    <3>1. \A c \in Conditions : condition'[c] \in Condition
      <4> TAKE c \in Conditions
      <4>1. condition[c] \in Condition /\ open \in Lots
        BY <1>1 DEF IInv, TypeOK
      <4>2. [lot |-> open, thesis |-> nextThesis, active |-> c \notin retired,
             status |-> "pending"] \in Condition
        BY <1>1, <4>1 DEF Condition, Opt, Statuses
      <4>3. [condition[c] EXCEPT !.active = @ /\ c \notin retired] \in Condition
        BY <4>1 DEF Condition
      <4> QED
        BY <1>5, <4>2, <4>3
    <3>2. condition' = [c \in Conditions |-> condition'[c]]
      BY DEF ThesisRewrite, Replace
    <3> QED
      BY <3>1, <3>2
  <2>3. nextCondition' \in 1..(MaxConditions + 1) /\ nextThesis' \in 1..(MaxTheses + 1)
    <3>1. nextCondition + n - 1 \in Conditions
      BY <1>1 DEF IInv, TypeOK
    <3> QED
      BY <1>1, <3>1 DEF IInv, TypeOK, Conditions, Theses
  <2> QED
    BY <1>1, <2>1, <2>2, <2>3 DEF IInv, TypeOK
<1> HIDE DEF new
<1>8. \A t \in versions :
          /\ thesis'[t].lot = thesis[t].lot /\ thesis'[t].version = thesis[t].version
          /\ thesis'[t].status = IF thesis[t].lot = open THEN "superseded"
                                 ELSE thesis[t].status
  <2> TAKE t \in versions
  <2>1. thesis[t] \in Thesis /\ t \in Theses /\ t # nextThesis
    BY <1>2 DEF IInv, TypeOK
  <2>2. t \in Current(open) <=> thesis[t].lot = open /\ thesis[t].status = "active"
    BY DEF Current, VersionsOf
  <2>3. thesis[t].status \in {"active", "superseded"}
    BY <2>1 DEF Thesis
  <2>4. CASE t \in Current(open)
    <3>1. thesis'[t] = [thesis[t] EXCEPT !.status = "superseded"]
      BY <1>4, <2>1, <2>4
    <3> QED
      BY <2>1, <2>2, <2>4, <3>1 DEF Thesis
  <2>5. CASE t \notin Current(open)
    <3>1. thesis'[t] = thesis[t]
      BY <1>4, <2>1, <2>5
    <3> QED
      BY <2>2, <2>3, <2>5, <3>1
  <2> QED
    BY <2>4, <2>5
<1>9. thesis'[nextThesis].lot = open /\ thesis'[nextThesis].version = v
      /\ thesis'[nextThesis].status = "active"
  <2>1. thesis'[nextThesis] = [lot |-> open, version |-> v, status |-> "active"]
    BY <1>1, <1>4
  <2> QED
    BY <2>1
<1>10. \A c \in l3 :
          /\ condition'[c].lot = condition[c].lot
          /\ condition'[c].thesis = condition[c].thesis
          /\ condition'[c].active <=> condition[c].active /\ condition[c].lot # open
  <2> TAKE c \in l3
  <2>1. condition[c] \in Condition /\ c \in Conditions /\ c \notin new
    BY <1>2 DEF IInv, TypeOK
  <2>2. condition'[c] = [condition[c] EXCEPT !.active = @ /\ c \notin retired]
    BY <1>5, <2>1
  <2>3. c \in retired <=> condition[c].lot = open /\ condition[c].active
    BY <1>1 DEF ActiveL3, L3Of
  <2>4. /\ condition'[c].lot = condition[c].lot
        /\ condition'[c].thesis = condition[c].thesis
        /\ condition'[c].active = (condition[c].active /\ c \notin retired)
    BY <2>1, <2>2 DEF Condition
  <2>5. condition[c].active \in BOOLEAN
    BY <2>1 DEF Condition
  <2> QED
    BY <2>3, <2>4, <2>5
<1>11. \A c \in new :
          condition'[c].lot = open /\ condition'[c].thesis = nextThesis /\ condition'[c].active
  <2> TAKE c \in new
  <2>1. c \in Conditions /\ c \notin retired
    BY <1>1, <1>3
  <2>2. condition'[c] = [lot |-> open, thesis |-> nextThesis, active |-> c \notin retired,
                         status |-> "pending"]
    BY <1>5, <2>1
  <2>3. condition'[c].lot = open /\ condition'[c].thesis = nextThesis
    BY <2>2
  <2>4. condition'[c].active = (c \notin retired)
    BY <2>2
  <2> QED
    BY <2>1, <2>3, <2>4
<1>12. Fresh'
  <2>1. \A c \in new : c < nextCondition + n
    BY DEF new, IInv, TypeOK
  <2>2. \A c \in l3 : c < nextCondition + n
    BY DEF IInv, Fresh, TypeOK, Conditions
  <2>3. \A t \in versions' : t < nextThesis + 1
    BY <1>1 DEF IInv, Fresh, TypeOK, Theses
  <2> QED
    BY <1>1, <1>8, <1>9, <2>1, <2>2, <2>3 DEF IInv, Fresh
<1>13. Newest'
  <2>1. \A t \in versions : thesis[t].version \in Nat
    BY DEF IInv, TypeOK, Thesis
  <2> QED
    BY <1>1, <1>2, <1>6, <1>8, <1>9, <2>1 DEF IInv, Newest, VersionsOf
<1>14. InForce'
  BY <1>1, <1>2, <1>8, <1>9, <1>10, <1>11 DEF IInv, InForce, Current, VersionsOf
<1>15. Governed'
  <2>1. ASSUME NEW u \in versions', thesis'[u].lot = open
        PROVE  \E t \in versions' : \E c \in l3' :
                  /\ thesis'[t].lot = thesis'[u].lot /\ thesis'[t].status = "active"
                  /\ condition'[c].lot = thesis'[u].lot /\ condition'[c].active
                  /\ condition'[c].thesis = t
    BY <1>1, <1>9, <1>11, <2>1
  <2>2. ASSUME NEW u \in versions', thesis'[u].lot # open
        PROVE  \E t \in versions' : \E c \in l3' :
                  /\ thesis'[t].lot = thesis'[u].lot /\ thesis'[t].status = "active"
                  /\ condition'[c].lot = thesis'[u].lot /\ condition'[c].active
                  /\ condition'[c].thesis = t
    <3>1. u \in versions /\ thesis[u].lot # open
      BY <1>1, <1>8, <1>9, <2>2
    <3>2. PICK t \in versions, c \in l3 :
              /\ thesis[t].lot = thesis[u].lot /\ thesis[t].status = "active"
              /\ condition[c].lot = thesis[u].lot /\ condition[c].active
              /\ condition[c].thesis = t
      BY <3>1 DEF IInv, Governed
    <3> QED
      BY <1>1, <1>8, <1>10, <3>1, <3>2
  <2> QED
    BY <2>1, <2>2 DEF Governed
<1>16. Blank'
  BY <1>1 DEF IInv, Blank
<1> QED
  BY <1>7, <1>12, <1>13, <1>14, <1>15, <1>16 DEF IInv

\* Every step keeps the invariant.
LEMMA NextIInv == IInv /\ [Next]_vars => IInv'
<1> SUFFICES ASSUME IInv, [Next]_vars PROVE IInv'
  OBVIOUS
<1>1. CASE UNCHANGED vars
  BY <1>1
     DEF vars, holding, contract, IInv, TypeOK, Fresh, Newest, InForce, Governed, Blank,
         Current, VersionsOf
<1>2. CASE Next
  BY <1>2, ReadSteps, HoldingSteps, ConditionSteps, RewriteStep DEF Next
<1> QED
  BY <1>1, <1>2

\* The invariant holds always.
LEMMA Invariance == Spec => []IInv
BY InitIInv, NextIInv, PTL DEF Spec

-----------------------------------------------------------------------------
\* Type correctness; in particular ids and versions stay in their ranges.
THEOREM ThesisTypeCorrect == Spec => []TypeOK
BY Invariance, PTL DEF IInv

\* thesis-rewrite: only conditions of the newest version of their lot are in force.
THEOREM OnlyNewestIsInForce == Spec => []ContractIsCurrent
BY InvariantGivesProperties, Invariance, PTL

\* thesis-rewrite: a lot that got a thesis is never without a condition in force.
THEOREM NeverUnguarded == Spec => []NoVacuum
BY InvariantGivesProperties, Invariance, PTL

\* l3-update and thesis-rewrite write no retired condition.
THEOREM HistoryIsKept == Spec => RetiredIsFrozen
<1>1. ASSUME IInv, [Next]_vars
      PROVE  \A c \in l3 \cap l3' : ~condition[c].active => condition'[c] = condition[c]
  <2>1. CASE UNCHANGED condition
    BY <2>1
  <2>2. CASE \E p \in Procs : L3AddInsert(p)
    BY <1>1, <2>2 DEF L3AddInsert, IInv, Fresh, TypeOK
  <2>3. CASE \E c \in Conditions, status \in Statuses : L3Update(c, status)
    BY <1>1, <2>3 DEF L3Update, IInv, TypeOK
  <2>4. ASSUME NEW retired \in SUBSET Conditions, NEW n \in 1..MaxNew,
               NEW v \in 0..MaxTheses, ThesisRewrite(retired, n, v),
               NEW c \in l3, ~condition[c].active
        PROVE  condition'[c] = condition[c]
    <3>1. c \notin nextCondition..(nextCondition + n - 1) /\ c \in Conditions
      BY <1>1 DEF IInv, Fresh, TypeOK, Conditions
    <3>2. condition'[c] = [condition[c] EXCEPT !.active = @ /\ c \notin retired]
      BY <2>4, <3>1 DEF ThesisRewrite, Replace
    <3>3. condition[c].active = FALSE /\ condition[c] \in Condition
      BY <1>1, <2>4, <3>1 DEF IInv, TypeOK, Condition
    <3> QED
      BY <3>2, <3>3 DEF Condition
  <2> QED
    BY <1>1, <2>1, <2>2, <2>3, <2>4
       DEF Next, vars, contract, AddHolding, SellAll, RemoveHolding, CleanupOrphans,
           L3AddFind, L3AddCheck, L3ListFind, Find, L3ListThesis, L3ListRows, GiveUp
<1>2. IInv /\ [Next]_vars =>
        [\A c \in l3 \cap l3' : ~condition[c].active => condition'[c] = condition[c]]_vars
  BY <1>1
<1> QED
  BY <1>2, Invariance, PTL DEF Spec, RetiredIsFrozen

\* l3-list: what it calls valid is in force when it reads the rows, although it read the
\* active thesis earlier.
THEOREM ListingIsCurrent == Spec => OnlyCurrentActs
<1>1. ASSUME IInv, [Next]_vars, NEW p \in Procs, pc[p] = "list_rows", NEW c \in shown'[p]
      PROVE  condition[c].active /\ condition[c].thesis \in Current(seen[p].lot)
  <2>1. shown[p] = {}
    BY <1>1 DEF IInv, Blank
  <2>2. CASE L3ListRows(p)
    <3>1. c \in ActiveL3(seen[p].lot) /\ condition[c].thesis # Null
      BY <1>1, <2>2 DEF L3ListRows, IInv, TypeOK
    <3> QED
      BY <1>1, <3>1 DEF ActiveL3, L3Of, IInv, InForce
  <2>3. CASE ~L3ListRows(p)
    <3>1. shown'[p] = shown[p]
      <4>1. ASSUME NEW q \in Procs, L3AddFind(q) \/ L3ListFind(q)
            PROVE  shown'[p] = shown[p]
        BY <1>1, <4>1 DEF L3AddFind, L3ListFind, Find, IInv, TypeOK
      <4>2. ASSUME NEW q \in Procs, L3ListRows(q)
            PROVE  shown'[p] = shown[p]
        BY <1>1, <2>3, <4>2 DEF L3ListRows, IInv, TypeOK
      <4>3. CASE UNCHANGED shown
        BY <4>3
      <4> QED
        BY <1>1, <4>1, <4>2, <4>3
           DEF Next, vars, AddHolding, SellAll, RemoveHolding, CleanupOrphans, L3AddCheck,
               L3AddInsert, L3ListThesis, GiveUp, L3Update, ThesisRewrite, Replace
    <3> QED
      BY <1>1, <2>1, <3>1
  <2> QED
    BY <2>2, <2>3
<1>2. IInv /\ [Next]_vars =>
        [\A p \in Procs :
            pc[p] = "list_rows" =>
                \A c \in shown'[p] :
                    condition[c].active /\ condition[c].thesis \in Current(seen[p].lot)]_vars
  BY <1>1
<1> QED
  BY <1>2, Invariance, PTL DEF Spec, OnlyCurrentActs
=============================================================================
