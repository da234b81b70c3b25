------------------------- MODULE HoldingLedgerProofs -------------------------
(***************************************************************************)
(* Theorems about HoldingLedger for every number of processes, codes,      *)
(* lots, days and shares: its types, its inductive invariant, that it      *)
(* implements LotLifecycle, and its action properties.                     *)
(***************************************************************************)
EXTENDS HoldingLedger, TLAPS

USE BoundsAssumption, NullAssumption, TablesAssumption

\* The conjuncts of TypeOK about the tables, and those about the processes.
DataTypes ==
    /\ rows \subseteq Lots
    /\ holdings \in [Lots -> Row]
    /\ \A l \in rows : /\ holdings[l].code # Null /\ holdings[l].buyDate # Null
                       /\ holdings[l].framework # Null
    /\ ledger \in [Lots -> Book]
    /\ children \in [Lots -> SUBSET Tables]
    /\ retros \in [Lots -> Nat]
    /\ nextId \in 1..(MaxLots + 1)
ControlTypes ==
    /\ pc \in [Procs -> Control]
    /\ seen \in [Procs -> Memory]
    /\ \A p \in Procs :
           /\ pc[p] \in {"dividend", "framework", "child", "retro"} => seen[p].lot # Null
           /\ pc[p] = "framework" => seen[p].framework # Null
           /\ pc[p] = "child" => seen[p].table # Null
           /\ pc[p] \in {"close_sell", "close_legacy"} =>
                  seen[p].code # Null /\ seen[p].day # Null

\* TypeOK with its parts as facts that a leaf can cite.
LEMMA TypeOKParts ==
    /\ TypeOK <=> DataTypes /\ ControlTypes
    /\ TypeOK' <=> DataTypes' /\ ControlTypes'
BY DEF TypeOK, DataTypes, ControlTypes

\* The writes of a sale, from sell-holding or close-holding.
LEMMA SaleKeepsTypes ==
    ASSUME DataTypes, NEW S \in SUBSET rows, NEW sold \in [S -> Nat], NEW d \in Days,
           \A l \in S : HasShares(l) /\ sold[l] <= holdings[l].shares,
           ApplySale(sold, d)
    PROVE  DataTypes'
<1> DEFINE drawn == {l \in DOMAIN sold : sold[l] > 0}
<1>1. drawn \subseteq rows /\ \A l \in drawn : sold[l] \in Nat
  OBVIOUS
<1>2. ASSUME NEW l \in drawn
      PROVE  /\ SoldRow(holdings[l], sold[l], d) \in Row
             /\ SoldRow(holdings[l], sold[l], d).code = holdings[l].code
             /\ SoldRow(holdings[l], sold[l], d).buyDate = holdings[l].buyDate
             /\ SoldRow(holdings[l], sold[l], d).framework = holdings[l].framework
  <2>1. holdings[l] \in Row /\ holdings[l].shares \in Nat /\ holdings[l].shares - sold[l] \in Nat
    BY <1>1 DEF DataTypes, HasShares, Row, Opt
  <2> QED
    BY <2>1 DEF SoldRow, Row, Opt
<1>3. holdings' \in [Lots -> Row]
  BY <1>2 DEF ApplySale, DataTypes
<1>4. \A l \in rows' : /\ holdings'[l].code # Null /\ holdings'[l].buyDate # Null
                       /\ holdings'[l].framework # Null
  BY <1>2 DEF ApplySale, DataTypes
<1>5. ledger' \in [Lots -> Book]
  <2>1. ASSUME NEW l \in drawn
        PROVE  [ledger[l] EXCEPT !.sold = @ + sold[l]] \in Book
    <3>1. ledger[l] \in Book /\ sold[l] \in Nat
      BY <1>1 DEF DataTypes
    <3> QED
      BY <3>1 DEF Book
  <2> QED
    BY <1>1, <2>1 DEF ApplySale, DataTypes
<1> QED
  BY <1>3, <1>4, <1>5 DEF ApplySale, DataTypes

-----------------------------------------------------------------------------
(* Process control. *)

\* The read step of a command changes no table.
LEMMA RememberKeepsTypes ==
    ASSUME TypeOK, NEW p \in Procs, NEW step \in Control, NEW memory \in Memory,
           step \in {"dividend", "framework", "child", "retro"} => memory.lot # Null,
           step = "framework" => memory.framework # Null,
           step = "child" => memory.table # Null,
           step \in {"close_sell", "close_legacy"} => memory.code # Null /\ memory.day # Null,
           Remember(p, step, memory)
    PROVE  TypeOK'
BY DEF TypeOK, Remember, data

\* A command that ends forgets what it read.
LEMMA FinishKeepsTypes ==
    ASSUME ControlTypes, NEW p \in Procs, Finish(p)
    PROVE  ControlTypes'
<1>1. Forgotten \in Memory /\ "idle" \in Control
  BY DEF Forgotten, Memory, Control, Opt
<1> QED
  BY <1>1 DEF Finish, ControlTypes

\* A single-action command leaves every process where it is.
LEMMA UnchangedControl ==
    ASSUME ControlTypes, pc' = pc, seen' = seen
    PROVE  ControlTypes'
BY DEF ControlTypes

-----------------------------------------------------------------------------
(* Type correctness. *)

\* What migration 025 leaves is well typed.
LEMMA InitTypes == Init => TypeOK
<1> SUFFICES ASSUME NEW c \in Codes, NEW f \in Frameworks,
                    NEW n \in [1..LegacyLots -> Opt(1..MaxShares)],
                    NEW d \in [1..LegacyLots -> Days],
                    rows = 1..LegacyLots,
                    holdings = [l \in Lots |-> IF l \in 1..LegacyLots
                                      THEN LegacyRow(c, n[l], d[l], f) ELSE Blank],
                    ledger = [l \in Lots |-> IF l \in 1..LegacyLots
                                    THEN InferredBook(n[l], d[l]) ELSE NoEvents],
                    children = [l \in Lots |-> {}],
                    retros = [l \in Lots |-> 0],
                    nextId = LegacyLots + 1,
                    pc = [p \in Procs |-> "idle"],
                    seen = [p \in Procs |-> Forgotten]
             PROVE  TypeOK
  BY DEF Init
<1>1. rows \subseteq Lots /\ nextId \in 1..(MaxLots + 1)
  BY DEF Lots
<1>2. \A l \in 1..LegacyLots : n[l] \in Opt(Nat) /\ d[l] \in Days
  BY DEF Opt
<1>3. Blank \in Row /\ \A l \in 1..LegacyLots : LegacyRow(c, n[l], d[l], f) \in Row
  <2>1. Blank \in Row
    BY DEF Blank, Row, Opt
  <2>2. [reference |-> 0, framework |-> f] \in Stop
    BY DEF Stop
  <2>3. ASSUME NEW l \in 1..LegacyLots PROVE LegacyRow(c, n[l], d[l], f) \in Row
    BY <1>2, <2>2 DEF LegacyRow, Row, Opt
  <2> QED
    BY <2>1, <2>3
<1>4. NoEvents \in Book /\ \A l \in 1..LegacyLots : InferredBook(n[l], d[l]) \in Book
  BY <1>2 DEF NoEvents, InferredBook, Book, Opt
<1>5. \A l \in rows : /\ holdings[l].code # Null /\ holdings[l].buyDate # Null
                      /\ holdings[l].framework # Null
  BY <1>1, <1>2 DEF LegacyRow, Days
<1>6. Forgotten \in Memory
  BY DEF Forgotten, Memory, Opt
<1>7. DataTypes
  BY <1>1, <1>3, <1>4, <1>5 DEF DataTypes
<1>8. ControlTypes
  BY <1>6 DEF ControlTypes, Control
<1> QED
  BY <1>7, <1>8, TypeOKParts

\* add-holding.
LEMMA AddHoldingTypes ==
    ASSUME TypeOK, NEW p \in Procs, NEW c \in Codes, NEW n \in Opt(1..MaxShares),
           NEW d \in Days, NEW f \in Frameworks, AddHolding(p, c, n, d, f)
    PROVE  TypeOK'
<1> DEFINE row == [code |-> c, shares |-> n, buyDate |-> d, exitDate |-> Null,
                   framework |-> f, reference |-> 0,
                   stop |-> [reference |-> 0, framework |-> f]]
<1>1. n \in Opt(Nat) /\ nextId \in Lots /\ nextId + 1 \in 1..(MaxLots + 1)
  BY DEF AddHolding, Opt, Lots, TypeOK
<1>2. row \in Row
  <2>1. [reference |-> 0, framework |-> f] \in Stop
    BY DEF Stop
  <2> QED
    BY <1>1, <2>1 DEF Row, Opt
<1>3. /\ rows' \subseteq Lots /\ holdings' \in [Lots -> Row]
      /\ \A l \in rows' : /\ holdings'[l].code # Null /\ holdings'[l].buyDate # Null
                          /\ holdings'[l].framework # Null
  <2>1. rows' = rows \cup {nextId} /\ holdings' = [holdings EXCEPT ![nextId] = row]
    BY DEF AddHolding
  <2>2. row.code # Null /\ row.buyDate # Null /\ row.framework # Null
    BY DEF Days
  <2> QED
    BY <1>1, <1>2, <2>1, <2>2 DEF TypeOK
<1>4. ledger' \in [Lots -> Book]
  <2>1. CASE n = Null
    BY <2>1 DEF AddHolding, TypeOK
  <2>2. CASE n # Null
    <3>1. n \in Nat /\ {d} \in SUBSET Days /\ ledger[nextId] \in Book
      BY <1>1, <2>2 DEF TypeOK, Opt
    <3>2. [ledger[nextId] EXCEPT !.bought = n, !.buyDays = {d}] \in Book
      BY <3>1 DEF Book
    <3> QED
      BY <1>1, <2>2, <3>2 DEF AddHolding, TypeOK
  <2> QED
    BY <2>1, <2>2
<1>5. children' \in [Lots -> SUBSET Tables] /\ retros' \in [Lots -> Nat]
  BY DEF AddHolding, TypeOK
<1>6. ControlTypes'
  BY TypeOKParts, UnchangedControl DEF AddHolding
<1> QED
  BY <1>1, <1>3, <1>4, <1>5, <1>6, TypeOKParts DEF DataTypes, AddHolding

\* buy-holding.
LEMMA BuyHoldingTypes ==
    ASSUME TypeOK, NEW p \in Procs, NEW c \in Codes, NEW n \in 1..MaxShares,
           NEW d \in Days, BuyHolding(p, c, n, d)
    PROVE  TypeOK'
<1>1. PICK l \in Open(c) :
        /\ HasShares(l)
        /\ holdings' = [holdings EXCEPT
               ![l].shares = @ + n,
               ![l].reference = @ + 1,
               ![l].stop = [reference |-> holdings[l].reference + 1,
                            framework |-> holdings[l].framework]]
        /\ ledger' = [ledger EXCEPT ![l].bought = @ + n,
                                    ![l].buyDays = @ \cup {d}]
        /\ UNCHANGED <<rows, children, retros, nextId, pc, seen>>
  BY DEF BuyHolding
<1>2. /\ l \in rows /\ l \in Lots /\ holdings[l] \in Row /\ ledger[l] \in Book
      /\ holdings[l].framework \in Frameworks /\ holdings[l].shares \in Nat
  BY <1>1 DEF Open, OfCode, TypeOK, HasShares, Row, Opt
<1>3. DataTypes'
  <2>1. [holdings[l] EXCEPT !.shares = @ + n, !.reference = @ + 1,
            !.stop = [reference |-> holdings[l].reference + 1,
                      framework |-> holdings[l].framework]] \in Row
    <3>1. /\ holdings[l].reference + 1 \in Nat /\ holdings[l].shares + n \in Nat
          /\ [reference |-> holdings[l].reference + 1,
              framework |-> holdings[l].framework] \in Stop
      BY <1>2 DEF Row, Stop
    <3> QED
      BY <1>2, <3>1 DEF Row, Opt
  <2>2. [ledger[l] EXCEPT !.bought = @ + n, !.buyDays = @ \cup {d}] \in Book
    <3>1. ledger[l].bought + n \in Nat /\ ledger[l].buyDays \cup {d} \in SUBSET Days
      BY <1>2 DEF Book
    <3> QED
      BY <1>2, <3>1 DEF Book
  <2>3. holdings' \in [Lots -> Row] /\ ledger' \in [Lots -> Book]
    BY <1>1, <1>2, <2>1, <2>2 DEF TypeOK
  <2>4. \A m \in rows : /\ holdings'[m].code # Null /\ holdings'[m].buyDate # Null
                        /\ holdings'[m].framework # Null
    BY <1>1, <1>2 DEF TypeOK, Row
  <2> QED
    BY <1>1, <2>3, <2>4 DEF DataTypes, TypeOK
<1> QED
  BY <1>1, <1>3, TypeOKParts, UnchangedControl

\* sell-holding.
LEMMA SellHoldingTypes ==
    ASSUME TypeOK, NEW p \in Procs, NEW c \in Codes,
           NEW n \in 1..(MaxShares * MaxLots), NEW d \in Days, SellHolding(p, c, n, d)
    PROVE  TypeOK'
<1>1. PICK sold \in FifoSplits(Open(c), n) : ApplySale(sold, d)
  BY DEF SellHolding
<1>2. /\ Open(c) \in SUBSET rows /\ sold \in [Open(c) -> Nat]
      /\ \A l \in Open(c) : HasShares(l) /\ sold[l] <= holdings[l].shares
  BY <1>1 DEF SellHolding, FifoSplits, Open, OfCode
<1>3. DataTypes'
  BY <1>1, <1>2, SaleKeepsTypes, TypeOKParts
<1> QED
  BY <1>3, TypeOKParts, UnchangedControl DEF SellHolding

\* corporate-action.
LEMMA CorporateActionTypes ==
    ASSUME TypeOK, NEW p \in Procs, NEW c \in Codes, NEW n \in 1..MaxShares,
           NEW cash \in BOOLEAN, NEW d \in Days, CorporateAction(p, c, n, cash, d)
    PROVE  TypeOK'
<1>1. PICK l \in Open(c) :
        /\ HasShares(l) /\ n >= holdings[l].shares
        /\ LET next == IF cash \/ n > holdings[l].shares
                       THEN holdings[l].reference + 1 ELSE holdings[l].reference
           IN  holdings' = [holdings EXCEPT
                   ![l].shares = n,
                   ![l].reference = next,
                   ![l].stop = [reference |-> next,
                                framework |-> holdings[l].framework]]
        /\ ledger' = [ledger EXCEPT
               ![l].adjusted = @ + (n - holdings[l].shares),
               ![l].other = @ \cup {"adjustment"}
                              \cup (IF cash THEN {"dividend"} ELSE {})]
        /\ UNCHANGED <<rows, children, retros, nextId, pc, seen>>
  BY DEF CorporateAction
<1>2. /\ l \in rows /\ l \in Lots /\ holdings[l] \in Row /\ ledger[l] \in Book
      /\ holdings[l].framework \in Frameworks /\ holdings[l].shares \in Nat
  BY <1>1 DEF Open, OfCode, TypeOK, HasShares, Row, Opt
<1> DEFINE next == IF cash \/ n > holdings[l].shares
                   THEN holdings[l].reference + 1 ELSE holdings[l].reference
<1>3. [holdings[l] EXCEPT !.shares = n, !.reference = next,
           !.stop = [reference |-> next, framework |-> holdings[l].framework]] \in Row
  <2>1. next \in Nat /\ n \in Opt(Nat)
    BY <1>2 DEF Row, Opt
  <2> HIDE DEF next
  <2>2. [reference |-> next, framework |-> holdings[l].framework] \in Stop
    BY <1>2, <2>1 DEF Stop
  <2>3. [reference |-> next, framework |-> holdings[l].framework] \in Opt(Stop)
    BY <2>2 DEF Opt
  <2> QED
    BY <1>2, <2>1, <2>3 DEF Row
<1>4. [ledger[l] EXCEPT !.adjusted = @ + (n - holdings[l].shares),
           !.other = @ \cup {"adjustment"} \cup (IF cash THEN {"dividend"} ELSE {})] \in Book
  <2>1. /\ ledger[l].adjusted + (n - holdings[l].shares) \in Nat
        /\ ledger[l].other \cup {"adjustment"}
               \cup (IF cash THEN {"dividend"} ELSE {}) \in SUBSET {"dividend", "adjustment"}
    BY <1>1, <1>2 DEF Book
  <2> QED
    BY <1>2, <2>1 DEF Book
<1>5. holdings' \in [Lots -> Row] /\ ledger' \in [Lots -> Book]
  BY <1>1, <1>2, <1>3, <1>4 DEF TypeOK
<1>6. \A m \in rows : /\ holdings'[m].code # Null /\ holdings'[m].buyDate # Null
                      /\ holdings'[m].framework # Null
  BY <1>1, <1>2 DEF TypeOK, Row
<1> QED
  BY <1>1, <1>5, <1>6, TypeOKParts, UnchangedControl DEF DataTypes, TypeOK

\* remove-holding.
LEMMA RemoveHoldingTypes ==
    ASSUME TypeOK, NEW p \in Procs, NEW c \in Codes, RemoveHolding(p, c)
    PROVE  TypeOK'
<1>1. Blank \in Row /\ NoEvents \in Book
  BY DEF Blank, Row, Opt, NoEvents, Book
<1>2. DataTypes'
  BY <1>1 DEF RemoveHolding, DataTypes, TypeOK
<1> QED
  BY <1>2, TypeOKParts, UnchangedControl DEF RemoveHolding

\* cleanup.
LEMMA CleanupOrphansTypes ==
    ASSUME TypeOK, NEW p \in Procs, CleanupOrphans(p)
    PROVE  TypeOK'
<1>1. NoEvents \in Book
  BY DEF NoEvents, Book
<1>2. DataTypes'
  BY <1>1 DEF CleanupOrphans, DataTypes, TypeOK
<1> QED
  BY <1>2, TypeOKParts, UnchangedControl DEF CleanupOrphans

(* The first step of every command that reads before it takes the write lock. *)

\* A lot that a command selects is one of the table.
LEMMA SelectedLots ==
    ASSUME TypeOK, NEW c \in Codes
    PROVE  /\ \A l \in OfCode(c) : /\ l \in rows /\ l \in Lots /\ l # Null
                                   /\ holdings[l].reference \in Nat
           /\ Open(c) \subseteq OfCode(c)
<1>1. ASSUME NEW l \in OfCode(c)
      PROVE  l \in rows /\ l \in Lots /\ holdings[l].reference \in Nat
  BY DEF OfCode, TypeOK, Row
<1>2. ASSUME NEW l \in Lots PROVE l # Null
  BY DEF Lots
<1> QED
  BY <1>1, <1>2 DEF Open

\* record-dividend, reading.
LEMMA DividendReadTypes ==
    ASSUME TypeOK, NEW p \in Procs, NEW c \in Codes, NEW d \in Days, DividendRead(p, c, d)
    PROVE  TypeOK'
<1>1. PICK l \in Open(c) : Remember(p, "dividend", [Forgotten EXCEPT !.lot = l])
  BY DEF DividendRead
<1>2. [Forgotten EXCEPT !.lot = l] \in Memory
  BY SelectedLots DEF Forgotten, Memory, Opt
<1> QED
  BY <1>1, <1>2, SelectedLots, RememberKeepsTypes DEF Control, Forgotten

\* close-holding, reading.
LEMMA CloseReadTypes ==
    ASSUME TypeOK, NEW p \in Procs, NEW c \in Codes, NEW d \in Days, CloseRead(p, c, d)
    PROVE  TypeOK'
<1>1. PICK step \in {"close_sell", "close_legacy"} :
         Remember(p, step, [Forgotten EXCEPT !.code = c, !.day = d])
  BY DEF CloseRead
<1>2. [Forgotten EXCEPT !.code = c, !.day = d] \in Memory
  BY DEF Forgotten, Memory, Opt
<1>3. c # Null /\ d # Null
  BY DEF Days
<1> QED
  BY <1>1, <1>2, <1>3, RememberKeepsTypes DEF Control, Forgotten

\* holding-framework, reading.
LEMMA FrameworkReadTypes ==
    ASSUME TypeOK, NEW p \in Procs, NEW c \in Codes, NEW f \in Frameworks,
           FrameworkRead(p, c, f)
    PROVE  TypeOK'
<1>1. PICK l \in Open(c) :
         Remember(p, "framework", [Forgotten EXCEPT !.lot = l, !.framework = f,
                                                    !.reference = holdings[l].reference])
  BY DEF FrameworkRead
<1>2. [Forgotten EXCEPT !.lot = l, !.framework = f,
                        !.reference = holdings[l].reference] \in Memory
  BY SelectedLots DEF Forgotten, Memory, Opt
<1> QED
  BY <1>1, <1>2, SelectedLots, RememberKeepsTypes DEF Control, Forgotten

\* retro-add, reading.
LEMMA RetroReadTypes ==
    ASSUME TypeOK, NEW p \in Procs, NEW c \in Codes, RetroRead(p, c)
    PROVE  TypeOK'
<1>1. PICK l \in OfCode(c) : Remember(p, "retro", [Forgotten EXCEPT !.lot = l])
  BY DEF RetroRead
<1>2. [Forgotten EXCEPT !.lot = l] \in Memory
  BY SelectedLots DEF Forgotten, Memory, Opt
<1> QED
  BY <1>1, <1>2, SelectedLots, RememberKeepsTypes DEF Control, Forgotten

\* The child-table commands, reading.
LEMMA ChildReadTypes ==
    ASSUME TypeOK, NEW p \in Procs, NEW c \in Codes, NEW t \in Tables, ChildRead(p, c, t)
    PROVE  TypeOK'
<1>1. PICK l \in Open(c) : Remember(p, "child", [Forgotten EXCEPT !.lot = l, !.table = t])
  BY DEF ChildRead
<1>2. [Forgotten EXCEPT !.lot = l, !.table = t] \in Memory
  BY SelectedLots DEF Forgotten, Memory, Opt
<1> QED
  BY <1>1, <1>2, SelectedLots, RememberKeepsTypes DEF Control, Forgotten

\* Every write step.
LEMMA CompleteTypes ==
    ASSUME TypeOK, NEW p \in Procs, Complete(p)
    PROVE  TypeOK'
<1>1. Finish(p)
  BY DEF Complete, DividendWrite, FrameworkWrite, ChildWrite, RetroWrite, CloseSell,
         CloseLegacy, GiveUp
<1>2. ControlTypes'
  BY <1>1, FinishKeepsTypes, TypeOKParts
<1>3. CASE DividendWrite(p)
  <2>1. seen[p].lot \in Lots
    BY <1>3 DEF DividendWrite, TypeOK, Memory, Opt
  <2>2. [ledger[seen[p].lot] EXCEPT !.other = @ \cup {"dividend"}] \in Book
    BY <2>1 DEF TypeOK, Book
  <2> QED
    BY <1>2, <1>3, <2>1, <2>2, TypeOKParts DEF DividendWrite, DataTypes
<1>4. CASE FrameworkWrite(p)
  <2>1. seen[p].lot \in Lots /\ seen[p].framework \in Frameworks /\ seen[p].reference \in Nat
    BY <1>4 DEF FrameworkWrite, TypeOK, Memory, Opt
  <2>2. [ledger[seen[p].lot] EXCEPT !.other = @ \cup {"adjustment"}] \in Book
    BY <2>1 DEF TypeOK, Book
  <2>3. [reference |-> seen[p].reference, framework |-> seen[p].framework] \in Stop
    BY <2>1 DEF Stop
  <2> DEFINE stop == [reference |-> seen[p].reference, framework |-> seen[p].framework]
  <2>4. /\ holdings[seen[p].lot] \in Row /\ stop \in Opt(Stop)
        /\ seen[p].framework \in Opt(Frameworks)
    BY <2>1, <2>3 DEF TypeOK, Opt
  <2>5. [holdings[seen[p].lot] EXCEPT !.framework = seen[p].framework,
            !.stop = [reference |-> seen[p].reference,
                      framework |-> seen[p].framework]] \in Row
    <3> HIDE DEF stop
    <3>1. [holdings[seen[p].lot] EXCEPT !.framework = seen[p].framework, !.stop = stop] \in Row
      BY <2>4 DEF Row
    <3> QED
      BY <3>1 DEF stop
  <2>6. holdings' \in [Lots -> Row]
    BY <1>4, <2>1, <2>5 DEF FrameworkWrite, TypeOK
  <2>7. \A m \in rows : /\ holdings'[m].code # Null /\ holdings'[m].buyDate # Null
                        /\ holdings'[m].framework # Null
    BY <1>4, <2>1 DEF FrameworkWrite, TypeOK, Row
  <2> QED
    BY <1>2, <1>4, <2>1, <2>2, <2>6, <2>7, TypeOKParts DEF FrameworkWrite, DataTypes
<1>5. CASE ChildWrite(p)
  <2>1. seen[p].lot \in Lots /\ seen[p].table \in Tables
    BY <1>5 DEF ChildWrite, TypeOK, Memory, Opt
  <2> QED
    BY <1>2, <1>5, <2>1, TypeOKParts DEF ChildWrite, DataTypes
<1>6. CASE RetroWrite(p)
  <2>1. seen[p].lot \in Lots
    BY <1>6 DEF RetroWrite, TypeOK, Memory, Opt
  <2> QED
    BY <1>2, <1>6, <2>1, TypeOKParts DEF RetroWrite, DataTypes
<1>7. CASE CloseSell(p)
  <2>1. PICK l \in Open(seen[p].code) :
           HasShares(l) /\ ApplySale([m \in {l} |-> holdings[m].shares], seen[p].day)
    BY <1>7 DEF CloseSell
  <2>2. seen[p].day \in Days
    BY <1>7 DEF CloseSell, TypeOK, Memory, Opt
  <2>3. l \in rows /\ holdings[l].shares \in Nat
    BY <2>1 DEF Open, OfCode, TypeOK, HasShares, Row, Opt
  <2>4. /\ {l} \in SUBSET rows /\ [m \in {l} |-> holdings[m].shares] \in [{l} -> Nat]
        /\ \A m \in {l} : HasShares(m) /\ [k \in {l} |-> holdings[k].shares][m] <= holdings[m].shares
    BY <2>1, <2>3
  <2>5. DataTypes'
    BY <2>1, <2>2, <2>4, SaleKeepsTypes, TypeOKParts
  <2> QED
    BY <1>2, <2>5, TypeOKParts
<1>8. CASE CloseLegacy(p)
  <2>1. seen[p].day \in Days
    BY <1>8 DEF CloseLegacy, TypeOK, Memory, Opt
  <2>2. PICK l \in rows : holdings' = [holdings EXCEPT ![l].shares = 0, ![l].exitDate = seen[p].day]
    BY <1>8 DEF CloseLegacy, PriceOnly, Open, OfCode
  <2>3. [holdings[l] EXCEPT !.shares = 0, !.exitDate = seen[p].day] \in Row
    BY <2>1 DEF TypeOK, Row, Opt
  <2>4. holdings' \in [Lots -> Row]
    BY <2>2, <2>3 DEF TypeOK
  <2>5. \A m \in rows : /\ holdings'[m].code # Null /\ holdings'[m].buyDate # Null
                        /\ holdings'[m].framework # Null
    BY <2>2 DEF TypeOK, Row
  <2> QED
    BY <1>2, <1>8, <2>4, <2>5, TypeOKParts DEF CloseLegacy, DataTypes
<1>9. CASE GiveUp(p)
  BY <1>2, <1>9, TypeOKParts DEF GiveUp, data, DataTypes
<1> QED
  BY <1>3, <1>4, <1>5, <1>6, <1>7, <1>8, <1>9 DEF Complete

\* The type invariant is inductive.
LEMMA NextTypes == TypeOK /\ [Next]_vars => TypeOK'
<1> SUFFICES ASSUME TypeOK, [Next]_vars PROVE TypeOK'
  OBVIOUS
<1>1. CASE UNCHANGED vars
  BY <1>1 DEF vars, data, TypeOK
<1>2. CASE Next
  <2>1. PICK p \in Procs :
           \/ \E c \in Codes, d \in Days : Trade(p, c, d)
           \/ \E c \in Codes : Manage(p, c)
           \/ CleanupOrphans(p)
           \/ Complete(p)
    BY <1>2 DEF Next
  <2>2. ASSUME NEW c \in Codes, NEW d \in Days, Trade(p, c, d) PROVE TypeOK'
    BY <2>2, TablesAssumption, AddHoldingTypes, BuyHoldingTypes, SellHoldingTypes,
       CorporateActionTypes, DividendReadTypes, CloseReadTypes DEF Trade
  <2>3. ASSUME NEW c \in Codes, Manage(p, c) PROVE TypeOK'
    BY <2>3, RemoveHoldingTypes, FrameworkReadTypes, ChildReadTypes, RetroReadTypes DEF Manage
  <2> QED
    BY <2>1, <2>2, <2>3, CleanupOrphansTypes, CompleteTypes
<1> QED
  BY <1>1, <1>2

\* Every reachable state of every instance is well typed: no interleaving
\* stores a value outside its column's domain, leaves a row without its
\* mandatory columns, or lets a write step run without what its read left it.
THEOREM TypeCorrect == Spec => []TypeOK
<1> QED
  BY InitTypes, NextTypes, PTL DEF Spec

-----------------------------------------------------------------------------
(* The inductive invariant. *)

\* What a row and its events say of each other: the share column is their
\* total, an empty row is a closed one, and no event is older than the lot.
Tally(book) == book.bought + book.adjusted - book.sold
Sound(row, book) ==
    /\ row.shares = Null => book.bought = 0 /\ Tally(book) = 0
    /\ row.shares # Null => row.shares = Tally(book)
    /\ row.exitDate # Null <=> row.shares = 0
    /\ row.exitDate # Null => row.buyDate <= row.exitDate
    /\ \A b \in book.buyDays : row.buyDate <= b
    /\ row.shares # Null /\ row.shares > 0 => book.bought > 0 /\ book.buyDays # {}
AllSound == \A l \in rows : Sound(holdings[l], ledger[l])

\* Ids not yet given out have no row, no child and no process that knows them;
\* a lot without a row has no trade event.
Fresh ==
    /\ LegacyLots < nextId
    /\ \A l \in rows : l < nextId
    /\ \A l \in Lots : l >= nextId => /\ ledger[l] = NoEvents
                                      /\ children[l] = {} /\ retros[l] = 0
    /\ \A p \in Procs : seen[p].lot # Null => seen[p].lot < nextId
NoGhostTrades ==
    \A l \in Lots \ rows :
        ledger[l].bought = 0 /\ ledger[l].sold = 0 /\ ledger[l].adjusted = 0

IInv == TypeOK /\ AllSound /\ OneOpenRowPerCode /\ Fresh /\ NoGhostTrades

-----------------------------------------------------------------------------
(* One row and its events, at each kind of event. *)

\* A row and a book that do not change stay sound.
LEMMA SoundFrame ==
    ASSUME NEW row, NEW row2, NEW book, NEW book2, Sound(row, book),
           row2.shares = row.shares, row2.exitDate = row.exitDate,
           row2.buyDate = row.buyDate,
           book2.bought = book.bought, book2.sold = book.sold,
           book2.adjusted = book.adjusted, book2.buyDays = book.buyDays
    PROVE  Sound(row2, book2)
BY DEF Sound, Tally

\* A new row with its first buy, or without one.
LEMMA SoundOpening ==
    ASSUME NEW row, NEW n \in Opt(Nat \ {0}), NEW d \in Days,
           row.shares = n, row.buyDate = d, row.exitDate = Null
    PROVE  Sound(row, InferredBook(n, d))
<1>1. CASE n = Null
  BY <1>1 DEF Sound, Tally, InferredBook, NoEvents
<1>2. CASE n # Null
  <2>1. n \in Nat /\ n > 0
    BY <1>2 DEF Opt
  <2>2. /\ InferredBook(n, d).bought = n /\ InferredBook(n, d).sold = 0
        /\ InferredBook(n, d).adjusted = 0 /\ InferredBook(n, d).buyDays = {d}
    BY <1>2 DEF InferredBook, NoEvents
  <2> QED
    BY <1>2, <2>1, <2>2 DEF Sound, Tally, Days
<1> QED
  BY <1>1, <1>2

\* A buy event with the shares it adds.
LEMMA SoundBuy ==
    ASSUME NEW row \in Row, NEW book \in Book, Sound(row, book),
           row.shares \in Nat, row.shares > 0, row.buyDate \in Days,
           NEW n \in Nat \ {0}, NEW d \in Days,
           book.buyDays = {} \/ \E b \in book.buyDays : b <= d,
           NEW row2, row2.shares = row.shares + n, row2.exitDate = row.exitDate,
           row2.buyDate = row.buyDate
    PROVE  Sound(row2, [book EXCEPT !.bought = @ + n, !.buyDays = @ \cup {d}])
<1>1. PICK b \in book.buyDays : b <= d /\ row.buyDate <= b /\ b \in Int
  BY DEF Sound, Book, Days
<1>2. row.buyDate <= d
  BY <1>1 DEF Days
<1>3. row.exitDate = Null
  BY DEF Sound
<1> DEFINE book2 == [book EXCEPT !.bought = @ + n, !.buyDays = @ \cup {d}]
<1>4. /\ book2.bought = book.bought + n /\ book2.buyDays = book.buyDays \cup {d}
      /\ book2.sold = book.sold /\ book2.adjusted = book.adjusted
      /\ book.bought \in Nat /\ book.sold \in Nat /\ book.adjusted \in Nat
  BY DEF Book
<1> HIDE DEF book2
<1>5. Sound(row2, book2)
  BY <1>2, <1>3, <1>4 DEF Sound, Tally
<1> QED
  BY <1>5 DEF book2

\* A sell event with the shares it takes; the last one closes the row.
LEMMA SoundSale ==
    ASSUME NEW row \in Row, NEW book \in Book, Sound(row, book),
           row.shares \in Nat, row.buyDate \in Days, row.exitDate = Null,
           NEW k \in Nat \ {0}, k <= row.shares, NEW d \in Days,
           book.buyDays = {} \/ \E b \in book.buyDays : b <= d
    PROVE  Sound(SoldRow(row, k, d), [book EXCEPT !.sold = @ + k])
<1>1. row.shares > 0 /\ book.bought > 0 /\ book.buyDays # {}
  BY DEF Sound
<1>2. PICK b \in book.buyDays : b <= d /\ row.buyDate <= b /\ b \in Int
  BY <1>1 DEF Sound, Book, Days
<1>3. row.buyDate <= d /\ d # Null
  BY <1>2 DEF Days
<1> DEFINE book2 == [book EXCEPT !.sold = @ + k]
           row2 == SoldRow(row, k, d)
<1>4. /\ book2.bought = book.bought /\ book2.buyDays = book.buyDays
      /\ book2.sold = book.sold + k /\ book2.adjusted = book.adjusted
      /\ book.bought \in Nat /\ book.sold \in Nat /\ book.adjusted \in Nat
  BY DEF Book
<1>5. /\ row2.shares = row.shares - k /\ row2.buyDate = row.buyDate
      /\ row2.exitDate = IF row.shares = k THEN d ELSE Null
      /\ row.shares - k \in Nat /\ row.shares - k # Null
  BY DEF SoldRow, Row
<1> HIDE DEF book2, row2
<1>6. Sound(row2, book2)
  BY <1>1, <1>3, <1>4, <1>5 DEF Sound, Tally
<1> QED
  BY <1>6 DEF book2, row2

\* An adjustment event with the shares it adds.
LEMMA SoundAction ==
    ASSUME NEW row \in Row, NEW book \in Book, Sound(row, book),
           row.shares \in Nat, row.shares > 0, NEW n \in Nat, n >= row.shares,
           NEW row2, row2.shares = n, row2.exitDate = row.exitDate,
           row2.buyDate = row.buyDate, NEW other
    PROVE  Sound(row2, [book EXCEPT !.adjusted = @ + (n - row.shares), !.other = other])
<1> DEFINE book2 == [book EXCEPT !.adjusted = @ + (n - row.shares), !.other = other]
<1>1. /\ book2.bought = book.bought /\ book2.buyDays = book.buyDays
      /\ book2.sold = book.sold /\ book2.adjusted = book.adjusted + (n - row.shares)
      /\ book.bought \in Nat /\ book.sold \in Nat /\ book.adjusted \in Nat
  BY DEF Book
<1>2. n # Null /\ n # 0 /\ row.exitDate = Null
  BY DEF Sound
<1> HIDE DEF book2
<1>3. Sound(row2, book2)
  BY <1>1, <1>2 DEF Sound, Tally
<1> QED
  BY <1>3 DEF book2

\* A price-only row closed without an event.
LEMMA SoundClosing ==
    ASSUME NEW row \in Row, NEW book \in Book, Sound(row, book),
           row.exitDate = Null, row.shares = Null \/ ~(row.shares > 0),
           NEW d \in Days, row.buyDate <= d
    PROVE  Sound([row EXCEPT !.shares = 0, !.exitDate = d], book)
<1> DEFINE row2 == [row EXCEPT !.shares = 0, !.exitDate = d]
<1>1. row2.shares = 0 /\ row2.exitDate = d /\ row2.buyDate = row.buyDate
  BY DEF Row
<1>2. row.shares = Null
  BY DEF Sound, Row, Opt
<1>3. d # Null /\ 0 # Null
  BY DEF Days
<1> HIDE DEF row2
<1>4. Sound(row2, book)
  BY <1>1, <1>2, <1>3 DEF Sound, Tally
<1> QED
  BY <1>4 DEF row2

-----------------------------------------------------------------------------
(* The invariant, action by action. *)

\* What migration 025 leaves satisfies the invariant.
LEMMA InitInv == Init => IInv
<1> SUFFICES ASSUME Init PROVE IInv
  OBVIOUS
<1>1. TypeOK
  BY InitTypes
<1>2. PICK c \in Codes, f \in Frameworks,
           n \in [1..LegacyLots -> Opt(1..MaxShares)], d \in [1..LegacyLots -> Days] :
        /\ rows = 1..LegacyLots
        /\ holdings = [l \in Lots |-> IF l \in 1..LegacyLots
                                      THEN LegacyRow(c, n[l], d[l], f) ELSE Blank]
        /\ ledger = [l \in Lots |-> IF l \in 1..LegacyLots
                                    THEN InferredBook(n[l], d[l]) ELSE NoEvents]
        /\ children = [l \in Lots |-> {}]
        /\ retros = [l \in Lots |-> 0]
        /\ nextId = LegacyLots + 1
        /\ seen = [p \in Procs |-> Forgotten]
  BY DEF Init
<1>3. AllSound
  <2>1. ASSUME NEW l \in rows PROVE Sound(holdings[l], ledger[l])
    <3>1. /\ l \in Lots /\ holdings[l] = LegacyRow(c, n[l], d[l], f)
          /\ ledger[l] = InferredBook(n[l], d[l])
      BY <1>2 DEF Lots
    <3>2. n[l] \in Opt(1..MaxShares) /\ d[l] \in Days
      BY <1>2
    <3>3. n[l] \in Opt(Nat \ {0})
      BY <3>2 DEF Opt
    <3> QED
      BY <3>1, <3>2, <3>3, SoundOpening DEF LegacyRow
  <2> QED
    BY <2>1 DEF AllSound
<1>4. OneOpenRowPerCode
  BY <1>2 DEF OneOpenRowPerCode
<1>5. Fresh
  <2>1. \A l \in Lots : l >= nextId => ledger[l] = NoEvents
    BY <1>2 DEF Lots
  <2> QED
    BY <1>2, <2>1 DEF Fresh, Forgotten
<1>6. NoGhostTrades
  BY <1>2 DEF NoGhostTrades, NoEvents
<1> QED
  BY <1>1, <1>3, <1>4, <1>5, <1>6 DEF IInv

\* What every command but add-holding has to show for the invariant.
LEMMA StepOnRows ==
    ASSUME IInv, TypeOK', rows' \subseteq rows, nextId' = nextId,
           \A l \in rows' : /\ Sound(holdings'[l], ledger'[l])
                            /\ holdings'[l].code = holdings[l].code
                            /\ holdings'[l].exitDate = Null => holdings[l].exitDate = Null,
           \A l \in Lots \ rows' : /\ ledger'[l].bought = 0 /\ ledger'[l].sold = 0
                                   /\ ledger'[l].adjusted = 0,
           \A l \in Lots : l >= nextId => /\ ledger'[l] = NoEvents
                                          /\ children'[l] = {} /\ retros'[l] = 0,
           \A p \in Procs : seen'[p].lot # Null => seen'[p].lot < nextId
    PROVE  IInv'
<1>1. AllSound'
  BY DEF AllSound
<1>2. OneOpenRowPerCode'
  BY DEF IInv, OneOpenRowPerCode
<1>3. Fresh'
  BY DEF IInv, Fresh
<1>4. NoGhostTrades'
  BY DEF NoGhostTrades
<1> QED
  BY <1>1, <1>2, <1>3, <1>4 DEF IInv

\* add-holding.
LEMMA AddHoldingInv ==
    ASSUME IInv, TypeOK', NEW p \in Procs, NEW c \in Codes, NEW n \in Opt(1..MaxShares),
           NEW d \in Days, NEW f \in Frameworks, AddHolding(p, c, n, d, f)
    PROVE  IInv'
<1> DEFINE row == [code |-> c, shares |-> n, buyDate |-> d, exitDate |-> Null,
                   framework |-> f, reference |-> 0,
                   stop |-> [reference |-> 0, framework |-> f]]
<1>1. /\ nextId \in Lots /\ nextId \notin rows /\ nextId \in Int /\ LegacyLots < nextId
      /\ ledger[nextId] = NoEvents /\ retros[nextId] = 0
      /\ rows' = rows \cup {nextId} /\ nextId' = nextId + 1
  BY DEF AddHolding, IInv, Fresh, Lots, TypeOK
<1>2. /\ holdings' = [holdings EXCEPT ![nextId] = row]
      /\ children' = [children EXCEPT ![nextId] = {"tier"}] /\ retros' = retros
      /\ seen' = seen
  BY DEF AddHolding
<1>3. ledger' = [ledger EXCEPT ![nextId] = InferredBook(n, d)]
  <2>1. CASE n = Null
    BY <1>1, <2>1 DEF AddHolding, InferredBook, IInv, TypeOK
  <2>2. CASE n # Null
    BY <1>1, <2>2 DEF AddHolding, InferredBook, IInv, TypeOK
  <2> QED
    BY <2>1, <2>2
<1>4. n \in Opt(Nat \ {0})
  BY DEF Opt
<1>5. Sound(row, InferredBook(n, d))
  BY <1>4, SoundOpening
<1>6. AllSound'
  BY <1>1, <1>2, <1>3, <1>5 DEF IInv, AllSound, TypeOK
<1>7. OneOpenRowPerCode'
  <2>1. \A l \in rows : /\ holdings'[l] = holdings[l]
                        /\ holdings[l].code = c => holdings[l].exitDate # Null
    BY <1>1, <1>2 DEF AddHolding, Open, OfCode, IInv, TypeOK
  <2>2. holdings'[nextId].code = c
    BY <1>1, <1>2 DEF IInv, TypeOK
  <2> QED
    BY <1>1, <2>1, <2>2 DEF IInv, OneOpenRowPerCode
<1>8. Fresh'
  <2>1. \A l \in Lots : l >= nextId' => l # nextId /\ l >= nextId
    BY <1>1 DEF Lots
  <2>2. \A l \in rows' : l < nextId'
    BY <1>1 DEF IInv, TypeOK, Fresh, Lots
  <2>3. \A q \in Procs : seen'[q].lot # Null => seen'[q].lot < nextId'
    BY <1>1, <1>2 DEF IInv, TypeOK, Fresh, Memory, Opt, Lots
  <2> QED
    BY <1>1, <1>2, <1>3, <2>1, <2>2, <2>3 DEF IInv, TypeOK, Fresh
<1>9. NoGhostTrades'
  BY <1>1, <1>3 DEF IInv, TypeOK, NoGhostTrades
<1> QED
  BY <1>6, <1>7, <1>8, <1>9 DEF IInv

\* ... and what one that touches a single row has to show.
LEMMA StepOnOneRow ==
    ASSUME IInv, TypeOK', NEW l \in rows,
           rows' = rows, nextId' = nextId, children' = children, retros' = retros,
           \A m \in Lots : m # l => holdings'[m] = holdings[m] /\ ledger'[m] = ledger[m],
           Sound(holdings'[l], ledger'[l]), holdings'[l].code = holdings[l].code,
           holdings'[l].exitDate = Null => holdings[l].exitDate = Null,
           \A p \in Procs : seen'[p].lot # Null => seen'[p].lot < nextId
    PROVE  IInv'
<1>1. rows \subseteq Lots /\ l < nextId
  BY DEF IInv, TypeOK, Fresh
<1>2. \A m \in rows' : /\ Sound(holdings'[m], ledger'[m])
                       /\ holdings'[m].code = holdings[m].code
                       /\ holdings'[m].exitDate = Null => holdings[m].exitDate = Null
  BY <1>1 DEF IInv, AllSound
<1>3. \A m \in Lots \ rows' : /\ ledger'[m].bought = 0 /\ ledger'[m].sold = 0
                              /\ ledger'[m].adjusted = 0
  BY DEF IInv, NoGhostTrades
<1>4. \A m \in Lots : m >= nextId => /\ ledger'[m] = NoEvents
                                     /\ children'[m] = {} /\ retros'[m] = 0
  <2>1. \A m \in Lots : m >= nextId => m # l
    BY <1>1 DEF IInv, TypeOK, Lots
  <2> QED
    BY <2>1 DEF IInv, Fresh
<1> QED
  BY <1>2, <1>3, <1>4, StepOnRows

\* An open row of a trade: what TypeOK and the invariant say of it.
LEMMA OpenRow ==
    ASSUME IInv, NEW c, NEW l \in Open(c)
    PROVE  /\ l \in rows /\ l \in Lots /\ l < nextId /\ holdings[l].exitDate = Null
           /\ holdings[l] \in Row /\ ledger[l] \in Book /\ Sound(holdings[l], ledger[l])
           /\ holdings[l].buyDate \in Days
           /\ HasShares(l) => holdings[l].shares \in Nat /\ holdings[l].shares > 0
<1>1. l \in rows /\ l \in Lots /\ holdings[l].exitDate = Null
  BY DEF Open, OfCode, IInv, TypeOK
<1>2. holdings[l] \in Row /\ ledger[l] \in Book /\ holdings[l].buyDate # Null
  BY <1>1 DEF IInv, TypeOK
<1>3. l < nextId /\ Sound(holdings[l], ledger[l])
  BY <1>1 DEF IInv, Fresh, AllSound
<1>4. holdings[l].buyDate \in Days /\ (HasShares(l) => holdings[l].shares \in Nat)
  BY <1>2 DEF Row, Opt, HasShares
<1> QED
  BY <1>1, <1>2, <1>3, <1>4 DEF HasShares

\* buy-holding.
LEMMA BuyHoldingInv ==
    ASSUME IInv, TypeOK', NEW p \in Procs, NEW c \in Codes, NEW n \in 1..MaxShares,
           NEW d \in Days, BuyHolding(p, c, n, d)
    PROVE  IInv'
<1>1. PICK l \in Open(c) :
        /\ HasShares(l) /\ NotBeforeFirstBuy(l, d)
        /\ holdings' = [holdings EXCEPT
               ![l].shares = @ + n,
               ![l].reference = @ + 1,
               ![l].stop = [reference |-> holdings[l].reference + 1,
                            framework |-> holdings[l].framework]]
        /\ ledger' = [ledger EXCEPT ![l].bought = @ + n,
                                    ![l].buyDays = @ \cup {d}]
        /\ UNCHANGED <<rows, children, retros, nextId, pc, seen>>
  BY DEF BuyHolding
<1>2. /\ l \in rows /\ l \in Lots /\ holdings[l] \in Row /\ ledger[l] \in Book
      /\ holdings[l].shares \in Nat /\ holdings[l].shares > 0
      /\ holdings[l].buyDate \in Days /\ Sound(holdings[l], ledger[l])
  BY <1>1, OpenRow
<1>3. /\ \A m \in Lots : m # l => holdings'[m] = holdings[m] /\ ledger'[m] = ledger[m]
      /\ holdings'[l].shares = holdings[l].shares + n
      /\ holdings'[l].exitDate = holdings[l].exitDate
      /\ holdings'[l].buyDate = holdings[l].buyDate /\ holdings'[l].code = holdings[l].code
      /\ ledger'[l] = [ledger[l] EXCEPT !.bought = @ + n, !.buyDays = @ \cup {d}]
  BY <1>1, <1>2 DEF IInv, TypeOK, Row
<1>4. n \in Nat \ {0} /\ (ledger[l].buyDays = {} \/ \E b \in ledger[l].buyDays : b <= d)
  BY <1>1 DEF NotBeforeFirstBuy
<1>5. Sound(holdings'[l], [ledger[l] EXCEPT !.bought = @ + n, !.buyDays = @ \cup {d}])
  BY <1>2, <1>3, <1>4, SoundBuy
<1>6. \A q \in Procs : seen'[q].lot # Null => seen'[q].lot < nextId
  BY <1>1 DEF IInv, Fresh
<1> QED
  BY <1>1, <1>2, <1>3, <1>5, <1>6, StepOnOneRow

\* corporate-action.
LEMMA CorporateActionInv ==
    ASSUME IInv, TypeOK', NEW p \in Procs, NEW c \in Codes, NEW n \in 1..MaxShares,
           NEW cash \in BOOLEAN, NEW d \in Days, CorporateAction(p, c, n, cash, d)
    PROVE  IInv'
<1>1. PICK l \in Open(c) :
        /\ HasShares(l) /\ n >= holdings[l].shares
        /\ LET next == IF cash \/ n > holdings[l].shares
                       THEN holdings[l].reference + 1 ELSE holdings[l].reference
           IN  holdings' = [holdings EXCEPT
                   ![l].shares = n,
                   ![l].reference = next,
                   ![l].stop = [reference |-> next,
                                framework |-> holdings[l].framework]]
        /\ ledger' = [ledger EXCEPT
               ![l].adjusted = @ + (n - holdings[l].shares),
               ![l].other = @ \cup {"adjustment"}
                              \cup (IF cash THEN {"dividend"} ELSE {})]
        /\ UNCHANGED <<rows, children, retros, nextId, pc, seen>>
  BY DEF CorporateAction
<1>2. /\ l \in rows /\ l \in Lots /\ holdings[l] \in Row /\ ledger[l] \in Book
      /\ holdings[l].shares \in Nat /\ holdings[l].shares > 0
      /\ Sound(holdings[l], ledger[l]) /\ n \in Nat /\ n >= holdings[l].shares
  BY <1>1, OpenRow
<1>3. /\ \A m \in Lots : m # l => holdings'[m] = holdings[m] /\ ledger'[m] = ledger[m]
      /\ holdings'[l].shares = n
      /\ holdings'[l].exitDate = holdings[l].exitDate
      /\ holdings'[l].buyDate = holdings[l].buyDate /\ holdings'[l].code = holdings[l].code
  BY <1>1, <1>2 DEF IInv, TypeOK, Row
<1>4. PICK other : ledger'[l] = [ledger[l] EXCEPT !.adjusted = @ + (n - holdings[l].shares),
                                                  !.other = other]
  BY <1>1, <1>2 DEF IInv, TypeOK
<1>5. Sound(holdings'[l], [ledger[l] EXCEPT !.adjusted = @ + (n - holdings[l].shares),
                                            !.other = other])
  BY <1>2, <1>3, SoundAction
<1>6. \A q \in Procs : seen'[q].lot # Null => seen'[q].lot < nextId
  BY <1>1 DEF IInv, Fresh
<1> QED
  BY <1>1, <1>2, <1>3, <1>4, <1>5, <1>6, StepOnOneRow

\* sell-holding and the selling path of close-holding.
LEMMA SaleInv ==
    ASSUME IInv, TypeOK', NEW c, NEW S \in SUBSET Open(c), NEW sold \in [S -> Nat],
           \A l \in S : HasShares(l) /\ sold[l] <= holdings[l].shares,
           NEW d \in Days, ApplySale(sold, d),
           \A q \in Procs : seen'[q].lot # Null => seen'[q].lot < nextId
    PROVE  IInv'
<1> DEFINE drawn == {l \in DOMAIN sold : sold[l] > 0}
<1>1. /\ holdings' = [l \in Lots |->
             IF l \in drawn THEN SoldRow(holdings[l], sold[l], d) ELSE holdings[l]]
      /\ ledger' = [l \in Lots |->
             IF l \in drawn THEN [ledger[l] EXCEPT !.sold = @ + sold[l]] ELSE ledger[l]]
      /\ \A l \in drawn : NotBeforeFirstBuy(l, d)
      /\ rows' = rows /\ nextId' = nextId /\ children' = children /\ retros' = retros
  BY DEF ApplySale
<1>2. drawn \subseteq Open(c) /\ Open(c) \subseteq rows /\ rows \subseteq Lots
  BY DEF Open, OfCode, IInv, TypeOK
<1>3. ASSUME NEW l \in drawn
      PROVE  /\ Sound(holdings'[l], ledger'[l]) /\ holdings'[l].code = holdings[l].code
             /\ holdings[l].exitDate = Null
  <2>1. /\ l \in Lots /\ holdings[l] \in Row /\ ledger[l] \in Book
        /\ holdings[l].shares \in Nat /\ holdings[l].exitDate = Null
        /\ holdings[l].buyDate \in Days /\ Sound(holdings[l], ledger[l])
    BY <1>2, OpenRow
  <2>2. sold[l] \in Nat \ {0} /\ sold[l] <= holdings[l].shares
    OBVIOUS
  <2>3. ledger[l].buyDays = {} \/ \E b \in ledger[l].buyDays : b <= d
    BY <1>1 DEF NotBeforeFirstBuy
  <2>4. Sound(SoldRow(holdings[l], sold[l], d), [ledger[l] EXCEPT !.sold = @ + sold[l]])
    BY <2>1, <2>2, <2>3, SoundSale
  <2>5. SoldRow(holdings[l], sold[l], d).code = holdings[l].code
    BY <2>1 DEF SoldRow, Row
  <2>6. /\ holdings'[l] = SoldRow(holdings[l], sold[l], d)
        /\ ledger'[l] = [ledger[l] EXCEPT !.sold = @ + sold[l]]
    BY <1>1, <2>1
  <2> QED
    BY <2>1, <2>4, <2>5, <2>6
<1> HIDE DEF drawn
<1>4. \A l \in Lots : l \notin drawn => holdings'[l] = holdings[l] /\ ledger'[l] = ledger[l]
  BY <1>1
<1>5. \A l \in rows' : /\ Sound(holdings'[l], ledger'[l])
                       /\ holdings'[l].code = holdings[l].code
                       /\ holdings'[l].exitDate = Null => holdings[l].exitDate = Null
  BY <1>1, <1>2, <1>3, <1>4 DEF IInv, AllSound
<1>6. \A l \in Lots \ rows' : /\ ledger'[l].bought = 0 /\ ledger'[l].sold = 0
                              /\ ledger'[l].adjusted = 0
  BY <1>1, <1>2, <1>4 DEF IInv, NoGhostTrades
<1>7. \A l \in Lots : l >= nextId => /\ ledger'[l] = NoEvents
                                     /\ children'[l] = {} /\ retros'[l] = 0
  <2>1. \A l \in Lots : l >= nextId => l \notin drawn
    BY <1>2 DEF IInv, TypeOK, Fresh, Lots
  <2> QED
    BY <1>1, <1>4, <2>1 DEF IInv, Fresh
<1> QED
  BY <1>1, <1>5, <1>6, <1>7, StepOnRows

\* sell-holding.
LEMMA SellHoldingInv ==
    ASSUME IInv, TypeOK', NEW p \in Procs, NEW c \in Codes,
           NEW n \in 1..(MaxShares * MaxLots), NEW d \in Days, SellHolding(p, c, n, d)
    PROVE  IInv'
<1>1. PICK sold \in FifoSplits(Open(c), n) : ApplySale(sold, d)
  BY DEF SellHolding
<1>2. /\ sold \in [Open(c) -> Nat]
      /\ \A l \in Open(c) : HasShares(l) /\ sold[l] <= holdings[l].shares
  BY <1>1 DEF SellHolding, FifoSplits
<1>3. \A q \in Procs : seen'[q].lot # Null => seen'[q].lot < nextId
  BY DEF SellHolding, IInv, Fresh
<1> QED
  BY <1>1, <1>2, <1>3, SaleInv

\* remove-holding: the id counter keeps removed ids out of use.
LEMMA RemoveHoldingInv ==
    ASSUME IInv, TypeOK', NEW p \in Procs, NEW c \in Codes, RemoveHolding(p, c)
    PROVE  IInv'
<1> DEFINE gone == OfCode(c)
<1>1. /\ gone \subseteq rows /\ rows' = rows \ gone /\ nextId' = nextId /\ seen' = seen
      /\ \A l \in Lots : l \in gone =>
             ledger'[l] = NoEvents /\ children'[l] = {} /\ retros'[l] = 0
      /\ \A l \in Lots : l \notin gone =>
             /\ holdings'[l] = holdings[l] /\ ledger'[l] = ledger[l]
             /\ children'[l] = children[l] /\ retros'[l] = retros[l]
  BY DEF RemoveHolding, OfCode
<1> HIDE DEF gone
<1>2. rows' \subseteq Lots /\ rows' \subseteq rows
  BY <1>1 DEF IInv, TypeOK
<1>3. \A l \in rows' : /\ Sound(holdings'[l], ledger'[l])
                       /\ holdings'[l].code = holdings[l].code
                       /\ holdings'[l].exitDate = Null => holdings[l].exitDate = Null
  BY <1>1, <1>2 DEF IInv, AllSound
<1>4. \A l \in Lots \ rows' : /\ ledger'[l].bought = 0 /\ ledger'[l].sold = 0
                              /\ ledger'[l].adjusted = 0
  BY <1>1 DEF IInv, NoGhostTrades, NoEvents
<1>5. \A l \in Lots : l >= nextId => /\ ledger'[l] = NoEvents
                                     /\ children'[l] = {} /\ retros'[l] = 0
  BY <1>1 DEF IInv, Fresh
<1>6. \A q \in Procs : seen'[q].lot # Null => seen'[q].lot < nextId
  BY <1>1 DEF IInv, Fresh
<1> QED
  BY <1>1, <1>2, <1>3, <1>4, <1>5, <1>6, StepOnRows

\* cleanup touches no row of the table.
LEMMA CleanupOrphansInv ==
    ASSUME IInv, TypeOK', NEW p \in Procs, CleanupOrphans(p)
    PROVE  IInv'
<1>1. /\ rows' = rows /\ holdings' = holdings /\ nextId' = nextId /\ seen' = seen
      /\ \A l \in Lots : \/ ledger'[l] = ledger[l] /\ children'[l] = children[l]
                            /\ retros'[l] = retros[l]
                         \/ l \notin rows /\ ledger'[l] = NoEvents
                            /\ children'[l] = {} /\ retros'[l] = 0
  BY DEF CleanupOrphans
<1>2. \A l \in rows' : /\ Sound(holdings'[l], ledger'[l])
                       /\ holdings'[l].code = holdings[l].code
                       /\ holdings'[l].exitDate = Null => holdings[l].exitDate = Null
  BY <1>1 DEF IInv, TypeOK, AllSound
<1>3. \A l \in Lots \ rows' : /\ ledger'[l].bought = 0 /\ ledger'[l].sold = 0
                              /\ ledger'[l].adjusted = 0
  BY <1>1 DEF IInv, NoGhostTrades, NoEvents
<1>4. \A l \in Lots : l >= nextId => /\ ledger'[l] = NoEvents
                                     /\ children'[l] = {} /\ retros'[l] = 0
  BY <1>1 DEF IInv, Fresh
<1>5. \A q \in Procs : seen'[q].lot # Null => seen'[q].lot < nextId
  BY <1>1 DEF IInv, Fresh
<1> QED
  BY <1>1, <1>2, <1>3, <1>4, <1>5, StepOnRows

\* A read step changes no table.
LEMMA RememberInv ==
    ASSUME IInv, TypeOK', NEW p \in Procs, NEW step, NEW memory,
           memory.lot # Null => memory.lot \in rows, Remember(p, step, memory)
    PROVE  IInv'
<1>1. \A q \in Procs : seen'[q].lot # Null => seen'[q].lot < nextId
  BY DEF Remember, IInv, TypeOK, Fresh
<1> QED
  BY <1>1, StepOnRows DEF Remember, data, IInv, AllSound, Fresh, NoGhostTrades

\* The first steps remember a lot of the table or none.
LEMMA ReadInv ==
    ASSUME IInv, TypeOK', NEW p \in Procs, NEW c \in Codes,
           \/ \E d \in Days : DividendRead(p, c, d) \/ CloseRead(p, c, d)
           \/ \E f \in Frameworks : FrameworkRead(p, c, f)
           \/ RetroRead(p, c)
           \/ \E t \in Tables : ChildRead(p, c, t)
    PROVE  IInv'
<1>1. Open(c) \subseteq rows /\ OfCode(c) \subseteq rows
  BY DEF Open, OfCode
<1>2. ASSUME NEW d \in Days, DividendRead(p, c, d) PROVE IInv'
  BY <1>1, <1>2, RememberInv DEF DividendRead, Forgotten
<1>3. ASSUME NEW d \in Days, CloseRead(p, c, d) PROVE IInv'
  BY <1>3, RememberInv DEF CloseRead, Forgotten
<1>4. ASSUME NEW f \in Frameworks, FrameworkRead(p, c, f) PROVE IInv'
  BY <1>1, <1>4, RememberInv DEF FrameworkRead, Forgotten
<1>5. CASE RetroRead(p, c)
  BY <1>1, <1>5, RememberInv DEF RetroRead, Forgotten
<1>6. ASSUME NEW t \in Tables, ChildRead(p, c, t) PROVE IInv'
  BY <1>1, <1>6, RememberInv DEF ChildRead, Forgotten
<1> QED
  BY <1>2, <1>3, <1>4, <1>5, <1>6

\* Every write step, whatever happened since its read.
LEMMA CompleteInv ==
    ASSUME IInv, TypeOK', NEW p \in Procs, Complete(p)
    PROVE  IInv'
<1>1. Finish(p)
  BY DEF Complete, DividendWrite, FrameworkWrite, ChildWrite, RetroWrite, CloseSell,
         CloseLegacy, GiveUp
<1>2. \A q \in Procs : seen'[q].lot # Null => seen'[q].lot < nextId
  BY <1>1 DEF Finish, Forgotten, IInv, TypeOK, Fresh
<1>3. ASSUME pc[p] \in {"dividend", "framework", "child", "retro"}
      PROVE  seen[p].lot \in Lots /\ seen[p].lot < nextId
  BY <1>3 DEF IInv, TypeOK, Fresh, Memory, Opt
\* A write to a lot that is not a trade leaves the row and its trade events as they are.
<1>4. ASSUME NEW l \in Lots, l < nextId, rows' = rows, nextId' = nextId,
             \A m \in Lots : /\ holdings'[m].shares = holdings[m].shares
                             /\ holdings'[m].exitDate = holdings[m].exitDate
                             /\ holdings'[m].buyDate = holdings[m].buyDate
                             /\ holdings'[m].code = holdings[m].code
                             /\ ledger'[m].bought = ledger[m].bought
                             /\ ledger'[m].sold = ledger[m].sold
                             /\ ledger'[m].adjusted = ledger[m].adjusted
                             /\ ledger'[m].buyDays = ledger[m].buyDays,
             \A m \in Lots : m # l => /\ ledger'[m] = ledger[m]
                                      /\ children'[m] = children[m] /\ retros'[m] = retros[m]
      PROVE  IInv'
  <2>1. rows \subseteq Lots /\ \A m \in Lots : m >= nextId => m # l
    BY <1>4 DEF IInv, TypeOK, Lots
  <2>2. \A m \in rows' : /\ Sound(holdings'[m], ledger'[m])
                         /\ holdings'[m].code = holdings[m].code
                         /\ holdings'[m].exitDate = Null => holdings[m].exitDate = Null
    BY <1>4, <2>1, SoundFrame DEF IInv, AllSound
  <2> QED
    BY <1>2, <1>4, <2>1, <2>2, StepOnRows DEF IInv, Fresh, NoGhostTrades
<1>5. CASE DividendWrite(p)
  BY <1>3, <1>4, <1>5 DEF DividendWrite, IInv, TypeOK, Book
<1>6. CASE FrameworkWrite(p)
  <2> DEFINE l == seen[p].lot
  <2>1. l \in Lots /\ l < nextId
    BY <1>3, <1>6 DEF FrameworkWrite
  <2>2. \A m \in Lots : /\ holdings'[m].shares = holdings[m].shares
                        /\ holdings'[m].exitDate = holdings[m].exitDate
                        /\ holdings'[m].buyDate = holdings[m].buyDate
                        /\ holdings'[m].code = holdings[m].code
    BY <1>6 DEF FrameworkWrite, IInv, TypeOK, Row
  <2>3. \A m \in Lots : /\ ledger'[m].bought = ledger[m].bought
                        /\ ledger'[m].sold = ledger[m].sold
                        /\ ledger'[m].adjusted = ledger[m].adjusted
                        /\ ledger'[m].buyDays = ledger[m].buyDays
                        /\ m # l => ledger'[m] = ledger[m]
    BY <1>6 DEF FrameworkWrite, IInv, TypeOK, Book
  <2>4. rows' = rows /\ nextId' = nextId /\ children' = children /\ retros' = retros
    BY <1>6 DEF FrameworkWrite
  <2> HIDE DEF l
  <2> QED
    BY <1>4, <2>1, <2>2, <2>3, <2>4
<1>7. CASE ChildWrite(p)
  BY <1>3, <1>4, <1>7 DEF ChildWrite, IInv, TypeOK
<1>8. CASE RetroWrite(p)
  BY <1>3, <1>4, <1>8 DEF RetroWrite, IInv, TypeOK
<1>9. CASE CloseSell(p)
  <2>1. PICK l \in Open(seen[p].code) :
           HasShares(l) /\ ApplySale([m \in {l} |-> holdings[m].shares], seen[p].day)
    BY <1>9 DEF CloseSell
  <2>2. seen[p].day \in Days
    BY <1>9 DEF CloseSell, IInv, TypeOK, Memory, Opt
  <2>3. holdings[l].shares \in Nat
    BY <2>1, OpenRow
  <2>4. /\ {l} \in SUBSET Open(seen[p].code)
        /\ [m \in {l} |-> holdings[m].shares] \in [{l} -> Nat]
        /\ \A m \in {l} : HasShares(m) /\ [k \in {l} |-> holdings[k].shares][m] <= holdings[m].shares
    BY <2>1, <2>3
  <2> QED
    BY <1>2, <2>1, <2>2, <2>4, SaleInv
<1>10. CASE CloseLegacy(p)
  <2>1. PICK l \in Open(seen[p].code) :
           /\ ~HasShares(l) /\ holdings[l].buyDate <= seen[p].day
           /\ holdings' = [holdings EXCEPT ![l].shares = 0, ![l].exitDate = seen[p].day]
    BY <1>10 DEF CloseLegacy, PriceOnly
  <2>2. seen[p].day \in Days
    BY <1>10 DEF CloseLegacy, IInv, TypeOK, Memory, Opt
  <2>3. /\ l \in rows /\ l \in Lots /\ holdings[l] \in Row /\ ledger[l] \in Book
        /\ Sound(holdings[l], ledger[l]) /\ holdings[l].exitDate = Null
        /\ holdings[l].shares = Null \/ ~(holdings[l].shares > 0)
    BY <2>1, OpenRow DEF HasShares
  <2>4. /\ \A m \in Lots : m # l => holdings'[m] = holdings[m]
        /\ holdings'[l] = [holdings[l] EXCEPT !.shares = 0, !.exitDate = seen[p].day]
    BY <2>1, <2>3 DEF IInv, TypeOK
  <2>5. Sound([holdings[l] EXCEPT !.shares = 0, !.exitDate = seen[p].day], ledger[l])
    BY <2>1, <2>2, <2>3, SoundClosing
  <2>6. holdings'[l].code = holdings[l].code /\ holdings'[l].exitDate # Null
    BY <2>2, <2>3, <2>4 DEF Row, Days
  <2>7. Sound(holdings'[l], ledger[l])
    BY <2>4, <2>5
  <2> QED
    BY <1>2, <1>10, <2>3, <2>4, <2>7, <2>6, StepOnOneRow DEF CloseLegacy
<1>11. CASE GiveUp(p)
  BY <1>2, <1>11, StepOnRows DEF GiveUp, data, IInv, AllSound, Fresh, NoGhostTrades
<1> QED
  BY <1>5, <1>6, <1>7, <1>8, <1>9, <1>10, <1>11 DEF Complete

\* The invariant is inductive.
LEMMA NextInv == IInv /\ [Next]_vars => IInv'
<1> SUFFICES ASSUME IInv, [Next]_vars PROVE IInv'
  OBVIOUS
<1>1. TypeOK'
  BY NextTypes DEF IInv
<1>2. CASE UNCHANGED vars
  BY <1>2 DEF vars, data, IInv, TypeOK, AllSound, OneOpenRowPerCode, Fresh, NoGhostTrades
<1>3. CASE Next
  <2>1. PICK p \in Procs :
           \/ \E c \in Codes, d \in Days : Trade(p, c, d)
           \/ \E c \in Codes : Manage(p, c)
           \/ CleanupOrphans(p)
           \/ Complete(p)
    BY <1>3 DEF Next
  <2>2. ASSUME NEW c \in Codes, NEW d \in Days, Trade(p, c, d) PROVE IInv'
    BY <1>1, <2>2, AddHoldingInv, BuyHoldingInv, SellHoldingInv, CorporateActionInv,
       ReadInv DEF Trade
  <2>3. ASSUME NEW c \in Codes, Manage(p, c) PROVE IInv'
    BY <1>1, <2>3, RemoveHoldingInv, ReadInv DEF Manage
  <2> QED
    BY <1>1, <2>1, <2>2, <2>3, CleanupOrphansInv, CompleteInv
<1> QED
  BY <1>2, <1>3

\* The strengthened invariant of every command in every interleaving: types, sound
\* rows, one open row per code, unused ids without a trace, and no trade event for
\* a removed lot.
THEOREM Invariant == Spec => []IInv
<1> QED
  BY InitInv, NextInv, PTL DEF Spec

-----------------------------------------------------------------------------
(* What the invariant implies. *)

\* The share column agrees with the events of the lot, for any number of
\* processes and any interleaving of their reads and writes.
THEOREM SharesAlwaysMatch == Spec => []SharesMatchLedger
<1>1. IInv => SharesMatchLedger
  BY DEF IInv, TypeOK, AllSound, Sound, Tally, SharesMatchLedger
<1> QED
  BY <1>1, Invariant, PTL

\* A lot is closed exactly when it is empty, and never before it was opened.
THEOREM ClosedAlwaysEmpty == Spec => []ClosedIsEmpty
<1>1. IInv => ClosedIsEmpty
  BY DEF IInv, AllSound, Sound, ClosedIsEmpty
<1> QED
  BY <1>1, Invariant, PTL

\* add-holding never leaves a code with two open rows of its making.
THEOREM AtMostOneOpenRow == Spec => []OneOpenRowPerCode
<1>1. IInv => OneOpenRowPerCode
  BY DEF IInv
<1> QED
  BY <1>1, Invariant, PTL

-----------------------------------------------------------------------------
(* Every step is a step of LotLifecycle or a stutter. *)

\* The mapped variables, lot by lot.
LEMMA StageOf ==
    /\ stage \in [Lots -> {"absent", "open", "closed", "removed"}]
    /\ \A l \in Lots :
           /\ l >= nextId => stage[l] = "absent"
           /\ ~(l >= nextId) /\ l \notin rows => stage[l] = "removed"
           /\ ~(l >= nextId) /\ l \in rows /\ holdings[l].exitDate = Null => stage[l] = "open"
           /\ ~(l >= nextId) /\ l \in rows /\ holdings[l].exitDate # Null => stage[l] = "closed"
BY DEF stage

\* The mapped position of a lot in the table is its share column, once it has events.
LEMMA PositionOf ==
    ASSUME IInv
    PROVE  /\ position = [l \in Lots |-> position[l]]
           /\ \A l \in Lots \ rows : position[l] = Null
           /\ \A l \in rows : /\ holdings[l].shares = Null => position[l] = Null
                              /\ ledger[l].bought > 0 /\ holdings[l].shares # Null =>
                                     position[l] = holdings[l].shares /\ position[l] \in Nat
           /\ \A l \in Lots : position[l] = Null <=> ledger[l].bought = 0
<1>1. position = [l \in Lots |-> position[l]]
  BY DEF position
<1>2. ASSUME NEW l \in Lots PROVE position[l] = Null <=> ledger[l].bought = 0
  <2>1. ledger[l].bought + ledger[l].adjusted - ledger[l].sold \in Int
    BY DEF IInv, TypeOK, Book
  <2> QED
    BY <2>1 DEF position
<1>3. \A l \in Lots \ rows : position[l] = Null
  BY <1>2 DEF IInv, NoGhostTrades
<1>4. ASSUME NEW l \in rows
      PROVE  /\ holdings[l].shares = Null => position[l] = Null
             /\ ledger[l].bought > 0 /\ holdings[l].shares # Null =>
                    position[l] = holdings[l].shares /\ position[l] \in Nat
  <2>1. l \in Lots /\ Sound(holdings[l], ledger[l]) /\ holdings[l].shares \in Opt(Nat)
    BY DEF IInv, TypeOK, AllSound, Row
  <2>2. holdings[l].shares = Null => position[l] = Null
    BY <1>2, <2>1 DEF Sound
  <2>3. ledger[l].bought > 0 => position[l] = Tally(ledger[l])
    BY <2>1 DEF position, Tally
  <2>4. holdings[l].shares # Null =>
            holdings[l].shares = Tally(ledger[l]) /\ holdings[l].shares \in Nat
    BY <2>1 DEF Sound, Opt
  <2> QED
    BY <2>2, <2>3, <2>4
<1> QED
  BY <1>1, <1>2, <1>3, <1>4

\* The migrated database is an initial state of the lifecycle.
LEMMA InitRefines == Init => Lifecycle!Init
<1> SUFFICES ASSUME Init PROVE Lifecycle!Init
  OBVIOUS
<1>1. IInv
  BY InitInv
<1>2. rows \in SUBSET Lots /\ nextId = LegacyLots + 1 /\ rows = 1..LegacyLots
  BY DEF Init, Lots
<1>3. \A l \in rows : /\ holdings[l].exitDate = Null
                      /\ holdings[l].shares # Null => holdings[l].shares > 0
  <2>1. PICK c \in Codes, f \in Frameworks,
             n \in [1..LegacyLots -> Opt(1..MaxShares)], d \in [1..LegacyLots -> Days] :
           holdings = [l \in Lots |-> IF l \in 1..LegacyLots
                                      THEN LegacyRow(c, n[l], d[l], f) ELSE Blank]
    BY DEF Init
  <2>2. \A m \in Opt(1..MaxShares) : m # Null => m > 0
    BY DEF Opt
  <2>3. ASSUME NEW l \in rows
        PROVE  /\ holdings[l].exitDate = Null
               /\ holdings[l].shares # Null => holdings[l].shares > 0
    <3>1. holdings[l] = LegacyRow(c, n[l], d[l], f) /\ n[l] \in Opt(1..MaxShares)
      BY <1>2, <2>1
    <3>2. holdings[l].exitDate = Null /\ holdings[l].shares = n[l]
      BY <3>1 DEF LegacyRow
    <3> QED
      BY <2>2, <3>1, <3>2
  <2> QED
    BY <2>3
<1>4. stage = [l \in Lots |-> IF l \in rows THEN "open" ELSE "absent"]
  <2>1. ASSUME NEW l \in Lots PROVE l \in rows <=> ~(l >= nextId)
    BY <1>2 DEF Lots
  <2>2. \A l \in Lots : stage[l] = IF l \in rows THEN "open" ELSE "absent"
    BY <1>3, <2>1, StageOf
  <2> QED
    BY <2>2, StageOf
<1>5. ASSUME NEW l \in Lots
      PROVE  position[l] \in (Nat \ {0}) \cup {Null} /\ (l \notin rows => position[l] = Null)
  <2>1. CASE l \notin rows
    BY <1>1, <2>1, PositionOf
  <2>2. CASE l \in rows /\ holdings[l].shares = Null
    BY <1>1, <2>2, PositionOf
  <2>3. CASE l \in rows /\ holdings[l].shares # Null
    <3>1. holdings[l].shares > 0 /\ Sound(holdings[l], ledger[l])
      BY <1>1, <1>3, <2>3 DEF IInv, AllSound
    <3>2. ledger[l].bought > 0
      BY <2>3, <3>1 DEF Sound
    <3> QED
      BY <1>1, <2>3, <3>1, <3>2, PositionOf
  <2> QED
    BY <2>1, <2>2, <2>3
<1>6. position \in [Lots -> (Nat \ {0}) \cup {Null}]
  BY <1>1, <1>5, PositionOf
<1> QED
  BY <1>2, <1>4, <1>5, <1>6 DEF Lifecycle!Init, Lifecycle!Tracked

-----------------------------------------------------------------------------
(* Each kind of step, as a step of LotLifecycle. *)

\* Shares moved in the open lots S and nowhere else.
LEMMA TradeStep ==
    ASSUME IInv, IInv', NEW S \in SUBSET rows, rows' = rows, nextId' = nextId,
           \A l \in S : /\ holdings[l].exitDate = Null /\ HasShares(l)
                        /\ holdings'[l].shares # Null /\ ledger'[l].bought > 0,
           \A l \in Lots : l \notin S =>
               /\ holdings'[l].exitDate = holdings[l].exitDate
               /\ ledger'[l].bought = ledger[l].bought /\ ledger'[l].sold = ledger[l].sold
               /\ ledger'[l].adjusted = ledger[l].adjusted
    PROVE  Lifecycle!Trade(S)
<1>1. S \subseteq Lots /\ \A l \in S : ~(l >= nextId)
  BY DEF IInv, TypeOK, Fresh, Lots
<1>2. ASSUME NEW l \in S
      PROVE  /\ stage[l] = "open" /\ position[l] # Null
             /\ position'[l] = holdings'[l].shares /\ position'[l] \in Nat
             /\ stage'[l] = IF position'[l] = 0 THEN "closed" ELSE "open"
  <2>1. stage[l] = "open"
    BY <1>1, StageOf
  <2>2. ledger[l].bought > 0
    BY DEF IInv, AllSound, Sound, HasShares
  <2>3. position[l] # Null
    BY <1>1, <2>2, PositionOf
  <2>4. position'[l] = holdings'[l].shares /\ position'[l] \in Nat
    <3>1. ledger'[l].bought \in Int /\ ledger'[l].adjusted \in Int /\ ledger'[l].sold \in Int
      BY <1>1 DEF IInv, TypeOK, Book
    <3>2. position'[l] = Tally(ledger'[l])
      BY <1>1, <3>1 DEF position, Tally
    <3>3. holdings'[l].shares = Tally(ledger'[l]) /\ holdings'[l].shares \in Nat
      BY <1>1 DEF IInv, TypeOK, AllSound, Sound, Row, Opt
    <3> QED
      BY <3>2, <3>3
  <2>5. holdings'[l].exitDate # Null <=> holdings'[l].shares = 0
    BY DEF IInv, AllSound, Sound
  <2>6. stage'[l] = IF holdings'[l].exitDate = Null THEN "open" ELSE "closed"
    BY <1>1 DEF stage
  <2> QED
    BY <2>1, <2>3, <2>4, <2>5, <2>6
<1>3. \A l \in Lots : l \notin S => stage'[l] = stage[l] /\ position'[l] = position[l]
  BY DEF stage, position
<1>4. stage' = [l \in Lots |->
                   IF l \in S /\ position'[l] = 0 THEN "closed" ELSE stage[l]]
  <2>1. stage' = [l \in Lots |-> stage'[l]]
    BY DEF stage
  <2> QED
    BY <1>1, <1>2, <1>3, <2>1
<1>5. position' = [l \in Lots |-> IF l \in S THEN position'[l] ELSE position[l]]
  <2>1. position' = [l \in Lots |-> position'[l]]
    BY DEF position
  <2> QED
    BY <1>3, <2>1
<1> QED
  BY <1>2, <1>4, <1>5 DEF Lifecycle!Trade, Lifecycle!Tracked

\* Nothing the abstract lots show has changed.
LEMMA QuietStep ==
    ASSUME rows' = rows, nextId' = nextId,
           \A l \in rows : holdings'[l].exitDate = holdings[l].exitDate,
           \A l \in Lots :
               /\ ledger'[l].bought = ledger[l].bought /\ ledger'[l].sold = ledger[l].sold
               /\ ledger'[l].adjusted = ledger[l].adjusted
    PROVE  UNCHANGED Lifecycle!vars
<1>1. stage' = stage
  BY DEF stage
<1>2. position' = position
  BY DEF position
<1> QED
  BY <1>1, <1>2 DEF Lifecycle!vars

\* add-holding opens a lot.
LEMMA AddHoldingRefines ==
    ASSUME IInv, IInv', NEW p \in Procs, NEW c \in Codes, NEW n \in Opt(1..MaxShares),
           NEW d \in Days, NEW f \in Frameworks, AddHolding(p, c, n, d, f)
    PROVE  nextId \in Lots /\ Lifecycle!OpenLot(nextId)
<1>1. /\ nextId \in Lots /\ nextId \in Int /\ nextId \notin rows /\ ledger[nextId] = NoEvents
      /\ rows' = rows \cup {nextId} /\ nextId' = nextId + 1
  BY DEF AddHolding, IInv, TypeOK, Fresh, Lots
<1>2. /\ holdings'[nextId].exitDate = Null /\ holdings'[nextId].shares = n
      /\ \A l \in Lots : l # nextId => holdings'[l] = holdings[l] /\ ledger'[l] = ledger[l]
  BY <1>1 DEF AddHolding, IInv, TypeOK
<1>3. stage[nextId] = "absent"
  BY <1>1, StageOf
<1>4. stage' = [stage EXCEPT ![nextId] = "open"]
  <2>1. \A l \in Lots : l >= nextId' <=> l >= nextId /\ l # nextId
    BY <1>1 DEF Lots
  <2>2. stage'[nextId] = "open"
    BY <1>1, <1>2, <2>1 DEF stage
  <2>3. \A l \in Lots : l # nextId => stage'[l] = stage[l]
    BY <1>1, <1>2, <2>1 DEF stage
  <2>4. stage' = [l \in Lots |-> stage'[l]] /\ stage = [l \in Lots |-> stage[l]]
    BY DEF stage
  <2> QED
    BY <1>1, <2>2, <2>3, <2>4
<1>5. position'[nextId] \in (Nat \ {0}) \cup {Null}
  <2>1. CASE n = Null
    <3>1. ledger'[nextId].bought = 0
      BY <1>1, <2>1 DEF AddHolding, NoEvents
    <3> QED
      BY <1>1, <3>1 DEF position
  <2>2. CASE n # Null
    <3>1. n \in Nat \ {0} /\ ledger'[nextId].bought = n
      BY <1>1, <2>2 DEF AddHolding, IInv, TypeOK, Book, Opt
    <3>2. ledger'[nextId].adjusted = 0 /\ ledger'[nextId].sold = 0
      BY <1>1, <2>2 DEF AddHolding, IInv, TypeOK, NoEvents
    <3> QED
      BY <1>1, <3>1, <3>2 DEF position
  <2> QED
    BY <2>1, <2>2
<1>6. position' = [position EXCEPT ![nextId] = position'[nextId]]
  BY <1>1, <1>2 DEF position
<1> QED
  BY <1>1, <1>3, <1>4, <1>5, <1>6 DEF Lifecycle!OpenLot

\* buy-holding trades in one.
LEMMA BuyHoldingRefines ==
    ASSUME IInv, IInv', NEW p \in Procs, NEW c \in Codes, NEW n \in 1..MaxShares,
           NEW d \in Days, BuyHolding(p, c, n, d)
    PROVE  \E S \in SUBSET Lots : Lifecycle!Trade(S)
<1>1. PICK l \in Open(c) :
        /\ HasShares(l)
        /\ holdings' = [holdings EXCEPT
               ![l].shares = @ + n,
               ![l].reference = @ + 1,
               ![l].stop = [reference |-> holdings[l].reference + 1,
                            framework |-> holdings[l].framework]]
        /\ ledger' = [ledger EXCEPT ![l].bought = @ + n,
                                    ![l].buyDays = @ \cup {d}]
        /\ rows' = rows /\ nextId' = nextId
  BY DEF BuyHolding
<1>2. /\ l \in rows /\ l \in Lots /\ holdings[l].exitDate = Null
      /\ holdings[l] \in Row /\ ledger[l] \in Book /\ holdings[l].shares \in Nat
  BY <1>1, OpenRow DEF IInv
<1>3. /\ holdings'[l].shares = holdings[l].shares + n
      /\ ledger'[l].bought = ledger[l].bought + n
  BY <1>1, <1>2 DEF IInv, TypeOK, Row, Book
<1>4. holdings'[l].shares # Null /\ ledger'[l].bought > 0
  BY <1>2, <1>3 DEF Book
<1>5. \A m \in Lots : m # l => holdings'[m] = holdings[m] /\ ledger'[m] = ledger[m]
  BY <1>1 DEF IInv, TypeOK
<1>6. Lifecycle!Trade({l})
  BY <1>1, <1>2, <1>4, <1>5, TradeStep
<1> QED
  BY <1>2, <1>6

\* corporate-action trades in one, or does nothing the lifecycle sees.
LEMMA CorporateActionRefines ==
    ASSUME IInv, IInv', NEW p \in Procs, NEW c \in Codes, NEW n \in 1..MaxShares,
           NEW cash \in BOOLEAN, NEW d \in Days, CorporateAction(p, c, n, cash, d)
    PROVE  \E S \in SUBSET Lots : Lifecycle!Trade(S)
<1>1. PICK l \in Open(c) :
        /\ HasShares(l)
        /\ LET next == IF cash \/ n > holdings[l].shares
                       THEN holdings[l].reference + 1 ELSE holdings[l].reference
           IN  holdings' = [holdings EXCEPT
                   ![l].shares = n,
                   ![l].reference = next,
                   ![l].stop = [reference |-> next,
                                framework |-> holdings[l].framework]]
        /\ ledger' = [ledger EXCEPT
               ![l].adjusted = @ + (n - holdings[l].shares),
               ![l].other = @ \cup {"adjustment"}
                              \cup (IF cash THEN {"dividend"} ELSE {})]
        /\ rows' = rows /\ nextId' = nextId
  BY DEF CorporateAction
<1>2. /\ l \in rows /\ l \in Lots /\ holdings[l].exitDate = Null
      /\ holdings[l] \in Row /\ ledger[l] \in Book /\ Sound(holdings[l], ledger[l])
  BY <1>1, OpenRow DEF IInv
<1>3. holdings'[l].shares = n /\ ledger'[l].bought = ledger[l].bought
  BY <1>1, <1>2 DEF IInv, TypeOK, Row, Book
<1>4. holdings'[l].shares # Null /\ ledger'[l].bought > 0
  BY <1>1, <1>2, <1>3 DEF Sound, HasShares
<1>5. \A m \in Lots : m # l => holdings'[m] = holdings[m] /\ ledger'[m] = ledger[m]
  BY <1>1 DEF IInv, TypeOK
<1>6. Lifecycle!Trade({l})
  BY <1>1, <1>2, <1>4, <1>5, TradeStep
<1> QED
  BY <1>2, <1>6

\* A sale from the lots S moves those it draws on.
LEMMA SaleRefines ==
    ASSUME IInv, IInv', NEW c, NEW S \in SUBSET Open(c), NEW sold \in [S -> Nat],
           \A l \in S : HasShares(l) /\ sold[l] <= holdings[l].shares,
           NEW d \in Days, ApplySale(sold, d)
    PROVE  \E T \in SUBSET Lots : Lifecycle!Trade(T)
<1> DEFINE drawn == {l \in DOMAIN sold : sold[l] > 0}
<1>1. /\ holdings' = [l \in Lots |->
             IF l \in drawn THEN SoldRow(holdings[l], sold[l], d) ELSE holdings[l]]
      /\ ledger' = [l \in Lots |->
             IF l \in drawn THEN [ledger[l] EXCEPT !.sold = @ + sold[l]] ELSE ledger[l]]
      /\ rows' = rows /\ nextId' = nextId
  BY DEF ApplySale
<1>2. drawn \subseteq Open(c) /\ Open(c) \subseteq rows /\ rows \subseteq Lots
  BY DEF Open, OfCode, IInv, TypeOK
<1>3. ASSUME NEW l \in drawn
      PROVE  /\ holdings[l].exitDate = Null /\ HasShares(l)
             /\ holdings'[l].shares # Null /\ ledger'[l].bought > 0
  <2>1. /\ l \in Lots /\ holdings[l] \in Row /\ ledger[l] \in Book /\ HasShares(l)
        /\ holdings[l].shares \in Nat /\ holdings[l].exitDate = Null
        /\ Sound(holdings[l], ledger[l])
    BY <1>2, OpenRow DEF IInv
  <2>2. ledger[l].bought > 0
    BY <2>1 DEF Sound, HasShares
  <2>3. /\ holdings'[l] = SoldRow(holdings[l], sold[l], d)
        /\ ledger'[l] = [ledger[l] EXCEPT !.sold = @ + sold[l]]
    BY <1>1, <2>1
  <2>4. /\ holdings'[l].shares = holdings[l].shares - sold[l]
        /\ ledger'[l].bought = ledger[l].bought
    BY <2>1, <2>3 DEF SoldRow, Row, Book
  <2>5. holdings[l].shares - sold[l] \in Int
    BY <2>1
  <2> QED
    BY <2>1, <2>2, <2>4, <2>5
<1> HIDE DEF drawn
<1>4. \A l \in Lots : l \notin drawn => holdings'[l] = holdings[l] /\ ledger'[l] = ledger[l]
  BY <1>1
<1>5. Lifecycle!Trade(drawn)
  BY <1>1, <1>2, <1>3, <1>4, TradeStep
<1> QED
  BY <1>2, <1>5

\* sell-holding trades in those it draws on.
LEMMA SellHoldingRefines ==
    ASSUME IInv, IInv', NEW p \in Procs, NEW c \in Codes,
           NEW n \in 1..(MaxShares * MaxLots), NEW d \in Days, SellHolding(p, c, n, d)
    PROVE  \E S \in SUBSET Lots : Lifecycle!Trade(S)
<1>1. PICK sold \in FifoSplits(Open(c), n) : ApplySale(sold, d)
  BY DEF SellHolding
<1>2. /\ sold \in [Open(c) -> Nat]
      /\ \A l \in Open(c) : HasShares(l) /\ sold[l] <= holdings[l].shares
  BY <1>1 DEF SellHolding, FifoSplits
<1> QED
  BY <1>1, <1>2, SaleRefines

\* close-holding sells the oldest lot out.
LEMMA CloseSellRefines ==
    ASSUME IInv, IInv', NEW p \in Procs, CloseSell(p)
    PROVE  \E S \in SUBSET Lots : Lifecycle!Trade(S)
<1>1. PICK l \in Open(seen[p].code) :
         HasShares(l) /\ ApplySale([m \in {l} |-> holdings[m].shares], seen[p].day)
  BY DEF CloseSell
<1>2. seen[p].day \in Days
  BY DEF CloseSell, IInv, TypeOK, Memory, Opt
<1>3. holdings[l].shares \in Nat
  BY <1>1, OpenRow
<1>4. /\ {l} \in SUBSET Open(seen[p].code)
      /\ [m \in {l} |-> holdings[m].shares] \in [{l} -> Nat]
      /\ \A m \in {l} : HasShares(m) /\ [k \in {l} |-> holdings[k].shares][m] <= holdings[m].shares
  BY <1>1, <1>3
<1> QED
  BY <1>1, <1>2, <1>4, SaleRefines

\* close-holding closes a price-only lot, which never traded.
LEMMA CloseLegacyRefines ==
    ASSUME IInv, IInv', NEW p \in Procs, CloseLegacy(p)
    PROVE  \E l \in Lots : Lifecycle!CloseUntracked(l)
<1>1. PICK l \in Open(seen[p].code) :
         /\ ~HasShares(l)
         /\ holdings' = [holdings EXCEPT ![l].shares = 0, ![l].exitDate = seen[p].day]
         /\ rows' = rows /\ nextId' = nextId /\ ledger' = ledger
  BY DEF CloseLegacy, PriceOnly
<1>2. /\ l \in rows /\ l \in Lots /\ l < nextId /\ holdings[l] \in Row
      /\ holdings[l].exitDate = Null /\ Sound(holdings[l], ledger[l])
  BY <1>1, OpenRow
<1>3. position[l] = Null
  <2>1. holdings[l].shares = Null
    BY <1>1, <1>2 DEF HasShares, Sound, Row, Opt
  <2> QED
    BY <1>2, <2>1, PositionOf
<1>4. /\ holdings'[l].exitDate # Null
      /\ \A m \in Lots : m # l => holdings'[m] = holdings[m]
  <2>1. seen[p].day \in Days /\ seen[p].day # Null
    BY DEF CloseLegacy, IInv, TypeOK, Memory, Opt
  <2>2. holdings'[l].exitDate = seen[p].day
    BY <1>1, <1>2 DEF IInv, TypeOK, Row
  <2> QED
    BY <1>1, <2>1, <2>2 DEF IInv, TypeOK
<1>5. ~(l >= nextId) /\ stage[l] = "open"
  BY <1>2, StageOf DEF IInv, TypeOK, Lots
<1>6. stage' = [stage EXCEPT ![l] = "closed"]
  <2>1. stage'[l] = "closed"
    BY <1>1, <1>2, <1>4, <1>5 DEF stage
  <2>2. \A m \in Lots : m # l => stage'[m] = stage[m]
    BY <1>1, <1>4 DEF stage
  <2>3. stage' = [m \in Lots |-> stage'[m]] /\ stage = [m \in Lots |-> stage[m]]
    BY DEF stage
  <2> QED
    BY <1>2, <2>1, <2>2, <2>3
<1>7. position' = position
  BY <1>1 DEF position
<1> QED
  BY <1>2, <1>3, <1>5, <1>6, <1>7 DEF Lifecycle!CloseUntracked, Lifecycle!Tracked

\* remove-holding removes the lots of a code.
LEMMA RemoveHoldingRefines ==
    ASSUME IInv, IInv', NEW p \in Procs, NEW c \in Codes, RemoveHolding(p, c)
    PROVE  \E S \in SUBSET Lots : Lifecycle!Remove(S)
<1> DEFINE gone == OfCode(c)
<1>1. /\ gone \subseteq rows /\ rows' = rows \ gone /\ nextId' = nextId
      /\ \A l \in Lots : l \in gone => ledger'[l] = NoEvents
      /\ \A l \in Lots : l \notin gone =>
             holdings'[l] = holdings[l] /\ ledger'[l] = ledger[l]
  BY DEF RemoveHolding, OfCode
<1> HIDE DEF gone
<1>2. gone \in SUBSET Lots /\ \A l \in gone : ~(l >= nextId)
  BY <1>1 DEF IInv, TypeOK, Fresh, Lots
<1>3. \A l \in gone : stage[l] \in {"open", "closed"}
  BY <1>1, <1>2, StageOf
<1>4. stage' = [l \in Lots |-> IF l \in gone THEN "removed" ELSE stage[l]]
  <2>1. \A l \in gone : stage'[l] = "removed"
    BY <1>1, <1>2 DEF stage
  <2>2. \A l \in Lots : l \notin gone => stage'[l] = stage[l]
    BY <1>1 DEF stage
  <2>3. stage' = [l \in Lots |-> stage'[l]]
    BY DEF stage
  <2> QED
    BY <2>1, <2>2, <2>3
<1>5. position' = [l \in Lots |-> IF l \in gone THEN Null ELSE position[l]]
  BY <1>1 DEF position, NoEvents
<1> QED
  BY <1>2, <1>3, <1>4, <1>5 DEF Lifecycle!Remove

\* cleanup does nothing the lifecycle sees.
LEMMA CleanupOrphansRefines ==
    ASSUME IInv, NEW p \in Procs, CleanupOrphans(p)
    PROVE  UNCHANGED Lifecycle!vars
<1>1. \A l \in Lots :
          /\ ledger'[l].bought = ledger[l].bought /\ ledger'[l].sold = ledger[l].sold
          /\ ledger'[l].adjusted = ledger[l].adjusted
  BY DEF CleanupOrphans, IInv, NoGhostTrades, NoEvents
<1> QED
  BY <1>1, QuietStep DEF CleanupOrphans

\* A read step changes nothing the lifecycle sees.
LEMMA ReadRefines ==
    ASSUME NEW p \in Procs, NEW step, NEW memory, Remember(p, step, memory)
    PROVE  UNCHANGED Lifecycle!vars
BY QuietStep DEF Remember, data

\* The write steps that trade nothing change nothing it sees.
LEMMA WriteRefines ==
    ASSUME IInv, NEW p \in Procs,
           DividendWrite(p) \/ FrameworkWrite(p) \/ ChildWrite(p) \/ RetroWrite(p) \/ GiveUp(p)
    PROVE  UNCHANGED Lifecycle!vars
<1>1. rows' = rows /\ nextId' = nextId
  BY DEF DividendWrite, FrameworkWrite, ChildWrite, RetroWrite, GiveUp, data
<1>2. \A l \in rows : holdings'[l].exitDate = holdings[l].exitDate
  BY DEF DividendWrite, FrameworkWrite, ChildWrite, RetroWrite, GiveUp, data, IInv, TypeOK, Row
<1>3. \A l \in Lots :
          /\ ledger'[l].bought = ledger[l].bought /\ ledger'[l].sold = ledger[l].sold
          /\ ledger'[l].adjusted = ledger[l].adjusted
  BY DEF DividendWrite, FrameworkWrite, ChildWrite, RetroWrite, GiveUp, data, IInv, TypeOK, Book
<1> QED
  BY <1>1, <1>2, <1>3, QuietStep

\* Every step is a step of the lifecycle or none.
LEMMA NextRefines == IInv /\ IInv' /\ [Next]_vars => [Lifecycle!Next]_(Lifecycle!vars)
<1> SUFFICES ASSUME IInv, IInv', [Next]_vars PROVE Lifecycle!Next \/ UNCHANGED Lifecycle!vars
  OBVIOUS
<1>1. CASE UNCHANGED vars
  BY <1>1, QuietStep DEF vars, data
<1>2. CASE Next
  <2>1. PICK p \in Procs :
           \/ \E c \in Codes, d \in Days : Trade(p, c, d)
           \/ \E c \in Codes : Manage(p, c)
           \/ CleanupOrphans(p)
           \/ Complete(p)
    BY <1>2 DEF Next
  <2>2. ASSUME NEW c \in Codes, NEW d \in Days, Trade(p, c, d)
        PROVE  Lifecycle!Next \/ UNCHANGED Lifecycle!vars
    <3>1. ASSUME DividendRead(p, c, d) \/ CloseRead(p, c, d) PROVE UNCHANGED Lifecycle!vars
      BY <3>1, ReadRefines DEF DividendRead, CloseRead
    <3> QED
      BY <2>2, <3>1, AddHoldingRefines, BuyHoldingRefines, SellHoldingRefines,
         CorporateActionRefines DEF Trade, Lifecycle!Next
  <2>3. ASSUME NEW c \in Codes, Manage(p, c)
        PROVE  Lifecycle!Next \/ UNCHANGED Lifecycle!vars
    <3>1. ASSUME \/ \E f \in Frameworks : FrameworkRead(p, c, f)
                 \/ \E t \in Tables : ChildRead(p, c, t)
                 \/ RetroRead(p, c)
          PROVE  UNCHANGED Lifecycle!vars
      BY <3>1, ReadRefines DEF FrameworkRead, ChildRead, RetroRead
    <3> QED
      BY <2>3, <3>1, RemoveHoldingRefines DEF Manage, Lifecycle!Next
  <2>4. CASE Complete(p)
    BY <2>4, CloseSellRefines, CloseLegacyRefines, WriteRefines DEF Complete, Lifecycle!Next
  <2> QED
    BY <2>1, <2>2, <2>3, <2>4, CleanupOrphansRefines
<1> QED
  BY <1>1, <1>2

\* Every behaviour of the ledger, with any number of processes between their
\* reads and writes, is a behaviour of independent lots that open once, close
\* in the step that empties them and never come back.
THEOREM LedgerImplementsLifecycle == Spec => ImplementsLifecycle
<1> QED
  BY Invariant, InitRefines, NextRefines, PTL DEF Spec, ImplementsLifecycle, Lifecycle!Spec

-----------------------------------------------------------------------------
(* What a step may never do. *)

\* The trade events of a lot only grow, and those of a closed lot, with its
\* exit and its share count, do not change at all.
Kept(l) ==
    /\ ledger'[l].bought >= ledger[l].bought
    /\ ledger'[l].sold >= ledger[l].sold
    /\ ledger'[l].adjusted >= ledger[l].adjusted
    /\ ledger[l].buyDays \subseteq ledger'[l].buyDays
    /\ ledger[l].other \subseteq ledger'[l].other
    /\ holdings[l].exitDate # Null =>
           /\ holdings'[l].exitDate = holdings[l].exitDate
           /\ holdings'[l].shares = holdings[l].shares
           /\ ledger'[l].bought = ledger[l].bought
           /\ ledger'[l].sold = ledger[l].sold
           /\ ledger'[l].adjusted = ledger[l].adjusted

\* A lot whose row and book a step leaves alone keeps its history.
LEMMA KeptWhenUntouched ==
    ASSUME TypeOK, NEW l \in rows, ledger'[l] = ledger[l],
           holdings[l].exitDate # Null =>
               /\ holdings'[l].exitDate = holdings[l].exitDate
               /\ holdings'[l].shares = holdings[l].shares
    PROVE  Kept(l)
<1>1. ledger[l].bought \in Nat /\ ledger[l].sold \in Nat /\ ledger[l].adjusted \in Nat
  BY DEF TypeOK, Book
<1> QED
  BY <1>1 DEF Kept

\* A sale only adds to the history of the lots it draws on.
LEMMA SaleKeeps ==
    ASSUME IInv, NEW c, NEW S \in SUBSET Open(c), NEW sold \in [S -> Nat],
           NEW d, ApplySale(sold, d)
    PROVE  \A l \in rows : Kept(l)
<1> SUFFICES ASSUME NEW l \in rows PROVE Kept(l)
  OBVIOUS
<1>1. l \in Lots /\ TypeOK /\ ledger[l] \in Book
  BY DEF IInv, TypeOK
<1>2. CASE l \in S /\ sold[l] > 0
  <2>1. holdings[l].exitDate = Null /\ sold[l] \in Nat
    BY <1>2 DEF Open
  <2>2. ledger'[l] = [ledger[l] EXCEPT !.sold = @ + sold[l]]
    BY <1>1, <1>2 DEF ApplySale
  <2> QED
    BY <1>1, <2>1, <2>2 DEF Kept, Book
<1>3. CASE ~(l \in S /\ sold[l] > 0)
  <2>1. holdings'[l] = holdings[l] /\ ledger'[l] = ledger[l]
    BY <1>1, <1>3 DEF ApplySale
  <2> QED
    BY <1>1, <2>1, KeptWhenUntouched
<1> QED
  BY <1>2, <1>3

\* The trading commands.
LEMMA TradeKeeps ==
    ASSUME IInv, NEW p \in Procs, NEW c \in Codes, NEW d \in Days, Trade(p, c, d)
    PROVE  \A l \in rows \cap rows' : Kept(l)
<1> SUFFICES ASSUME NEW l \in rows, l \in rows' PROVE Kept(l)
  OBVIOUS
<1>1. l \in Lots /\ TypeOK /\ holdings[l] \in Row /\ ledger[l] \in Book
  BY DEF IInv, TypeOK
<1>2. ASSUME NEW n \in Opt(1..MaxShares), NEW f \in Frameworks, AddHolding(p, c, n, d, f)
      PROVE  Kept(l)
  <2>1. l # nextId
    BY <1>1 DEF IInv, Fresh, Lots
  <2>2. holdings'[l] = holdings[l] /\ ledger'[l] = ledger[l]
    BY <1>1, <1>2, <2>1 DEF AddHolding, TypeOK
  <2> QED
    BY <1>1, <2>2, KeptWhenUntouched
<1>3. ASSUME NEW n \in 1..MaxShares, BuyHolding(p, c, n, d)
      PROVE  Kept(l)
  <2>1. PICK m \in Open(c) :
           /\ \A k \in Lots : k # m => holdings'[k] = holdings[k] /\ ledger'[k] = ledger[k]
           /\ ledger' = [ledger EXCEPT ![m].bought = @ + n, ![m].buyDays = @ \cup {d}]
    BY <1>3 DEF BuyHolding, IInv, TypeOK
  <2>2. holdings[m].exitDate = Null /\ n \in Nat
    BY DEF Open
  <2>3. CASE l = m
    BY <1>1, <2>1, <2>2, <2>3 DEF Kept, TypeOK, Book
  <2>4. CASE l # m
    BY <1>1, <2>1, <2>4, KeptWhenUntouched
  <2> QED
    BY <2>3, <2>4
<1>4. ASSUME NEW n \in 1..(MaxShares * MaxLots), SellHolding(p, c, n, d)
      PROVE  Kept(l)
  <2>1. PICK sold \in FifoSplits(Open(c), n) : ApplySale(sold, d)
    BY <1>4 DEF SellHolding
  <2>2. sold \in [Open(c) -> Nat]
    BY DEF FifoSplits
  <2> QED
    BY <2>1, <2>2, SaleKeeps
<1>5. ASSUME NEW n \in 1..MaxShares, NEW cash \in BOOLEAN, CorporateAction(p, c, n, cash, d)
      PROVE  Kept(l)
  <2>1. PICK m \in Open(c) :
           /\ HasShares(m) /\ n >= holdings[m].shares
           /\ \A k \in Lots : k # m => holdings'[k] = holdings[k] /\ ledger'[k] = ledger[k]
           /\ ledger' = [ledger EXCEPT
                 ![m].adjusted = @ + (n - holdings[m].shares),
                 ![m].other = @ \cup {"adjustment"}
                                \cup (IF cash THEN {"dividend"} ELSE {})]
    BY <1>5 DEF CorporateAction, IInv, TypeOK
  <2>2. holdings[m].exitDate = Null /\ n \in Nat /\ holdings[m].shares \in Nat
    BY <2>1, OpenRow DEF Open
  <2>3. CASE l = m
    BY <1>1, <2>1, <2>2, <2>3 DEF Kept, TypeOK, Book
  <2>4. CASE l # m
    BY <1>1, <2>1, <2>4, KeptWhenUntouched
  <2> QED
    BY <2>3, <2>4
<1>6. ASSUME DividendRead(p, c, d) \/ CloseRead(p, c, d) PROVE Kept(l)
  BY <1>1, <1>6, KeptWhenUntouched DEF DividendRead, CloseRead, Remember, data
<1> QED
  BY <1>2, <1>3, <1>4, <1>5, <1>6 DEF Trade

\* The other first steps.
LEMMA ManageKeeps ==
    ASSUME IInv, NEW p \in Procs, NEW c \in Codes, Manage(p, c)
    PROVE  \A l \in rows \cap rows' : Kept(l)
<1> SUFFICES ASSUME NEW l \in rows, l \in rows' PROVE Kept(l)
  OBVIOUS
<1>1. l \in Lots /\ TypeOK
  BY DEF IInv, TypeOK
<1>2. CASE RemoveHolding(p, c)
  BY <1>1, <1>2, KeptWhenUntouched DEF RemoveHolding
<1>3. CASE ~RemoveHolding(p, c)
  BY <1>1, <1>3, KeptWhenUntouched DEF Manage, FrameworkRead, ChildRead, RetroRead, Remember, data
<1> QED
  BY <1>2, <1>3

\* The write steps.
LEMMA CompleteKeeps ==
    ASSUME IInv, NEW p \in Procs, Complete(p)
    PROVE  \A l \in rows \cap rows' : Kept(l)
<1> SUFFICES ASSUME NEW l \in rows PROVE Kept(l)
  OBVIOUS
<1>1. l \in Lots /\ TypeOK /\ holdings[l] \in Row /\ ledger[l] \in Book
  BY DEF IInv, TypeOK
<1>2. CASE DividendWrite(p)
  BY <1>1, <1>2 DEF DividendWrite, Kept, TypeOK, Book
<1>3. CASE FrameworkWrite(p)
  <2>1. /\ holdings'[l].exitDate = holdings[l].exitDate
        /\ holdings'[l].shares = holdings[l].shares
    BY <1>1, <1>3 DEF FrameworkWrite, TypeOK, Row
  <2> QED
    BY <1>1, <1>3, <2>1 DEF FrameworkWrite, Kept, TypeOK, Book
<1>4. CASE ChildWrite(p) \/ RetroWrite(p) \/ GiveUp(p)
  BY <1>1, <1>4, KeptWhenUntouched DEF ChildWrite, RetroWrite, GiveUp, data
<1>5. CASE CloseSell(p)
  <2>1. PICK m \in Open(seen[p].code) :
           HasShares(m) /\ ApplySale([k \in {m} |-> holdings[k].shares], seen[p].day)
    BY <1>5 DEF CloseSell
  <2>2. [k \in {m} |-> holdings[k].shares] \in [{m} -> Nat] /\ {m} \in SUBSET Open(seen[p].code)
    BY <2>1, OpenRow
  <2> QED
    BY <2>1, <2>2, SaleKeeps
<1>6. CASE CloseLegacy(p)
  <2>1. PICK m \in Open(seen[p].code) :
           /\ ledger' = ledger
           /\ holdings' = [holdings EXCEPT ![m].shares = 0, ![m].exitDate = seen[p].day]
    BY <1>6 DEF CloseLegacy, PriceOnly
  <2>2. holdings[m].exitDate = Null
    BY DEF Open
  <2> QED
    BY <1>1, <2>1, <2>2, KeptWhenUntouched DEF TypeOK
<1> QED
  BY <1>2, <1>3, <1>4, <1>5, <1>6 DEF Complete

\* Every step.
LEMMA NextKeeps == IInv /\ [Next]_vars => \A l \in rows \cap rows' : Kept(l)
<1> SUFFICES ASSUME IInv, [Next]_vars PROVE \A l \in rows \cap rows' : Kept(l)
  OBVIOUS
<1>1. CASE UNCHANGED vars
  BY <1>1, KeptWhenUntouched DEF vars, data, IInv
<1>2. ASSUME NEW p \in Procs, CleanupOrphans(p) PROVE \A l \in rows \cap rows' : Kept(l)
  <2>1. \A l \in rows : ledger'[l] = ledger[l] /\ holdings' = holdings
    BY <1>2 DEF CleanupOrphans, IInv, TypeOK
  <2> QED
    BY <2>1, KeptWhenUntouched DEF IInv
<1> QED
  BY <1>1, <1>2, TradeKeeps, ManageKeeps, CompleteKeeps DEF Next

\* No command rewrites or deletes a trade event of a lot that is still there.
THEOREM EventsNeverLost == Spec => EventsAreImmutable
<1>1. IInv /\ [Next]_vars =>
          [\A l \in rows \cap rows' :
              /\ ledger'[l].bought >= ledger[l].bought
              /\ ledger'[l].sold >= ledger[l].sold
              /\ ledger'[l].adjusted >= ledger[l].adjusted
              /\ ledger[l].buyDays \subseteq ledger'[l].buyDays
              /\ ledger[l].other \subseteq ledger'[l].other]_vars
  BY NextKeeps DEF Kept
<1> QED
  BY <1>1, Invariant, PTL DEF Spec, EventsAreImmutable

\* A process that read an open lot cannot trade it once another has closed it.
THEOREM ClosedForGood == Spec => ClosedIsFinal
<1>1. IInv /\ [Next]_vars =>
          [\A l \in rows \cap rows' :
              holdings[l].exitDate # Null =>
                  /\ holdings'[l].exitDate = holdings[l].exitDate
                  /\ holdings'[l].shares = holdings[l].shares
                  /\ ledger'[l].bought = ledger[l].bought
                  /\ ledger'[l].sold = ledger[l].sold
                  /\ ledger'[l].adjusted = ledger[l].adjusted]_vars
  BY NextKeeps DEF Kept
<1> QED
  BY <1>1, Invariant, PTL DEF Spec, ClosedIsFinal

-----------------------------------------------------------------------------
(* First in, first out; and what a new lot starts with. *)

FifoStep ==
    \A l, m \in rows :
        (/\ ledger'[l].sold > ledger[l].sold
         /\ holdings[m].code = holdings[l].code /\ Older(m, l))
        => holdings'[m].exitDate # Null

\* A sale over lots of one code keeps the order when a lot is drawn on only
\* after every older open lot of the code.
LEMMA SaleIsFifo ==
    ASSUME IInv, IInv', rows' = rows, NEW c, NEW S \in SUBSET Open(c), NEW sold \in [S -> Nat],
           NEW d \in Days, ApplySale(sold, d),
           \A l \in S : HasShares(l) /\ sold[l] <= holdings[l].shares,
           \A l \in S, m \in Open(c) : Older(m, l) /\ sold[l] > 0 =>
               m \in S /\ sold[m] = holdings[m].shares
    PROVE  FifoStep
<1> SUFFICES ASSUME NEW l \in rows, NEW m \in rows, ledger'[l].sold > ledger[l].sold,
                    holdings[m].code = holdings[l].code, Older(m, l)
             PROVE  holdings'[m].exitDate # Null
  BY DEF FifoStep
<1>1. l \in Lots /\ m \in Lots /\ ledger[l].sold \in Nat
  BY DEF IInv, TypeOK, Book
<1>2. l \in S /\ sold[l] > 0
  BY <1>1 DEF ApplySale
<1>3. CASE holdings[m].exitDate # Null
  BY <1>3, SaleKeeps DEF Kept
<1>4. CASE holdings[m].exitDate = Null
  <2>1. m \in Open(c)
    BY <1>2, <1>4 DEF Open, OfCode
  <2>2. m \in S /\ sold[m] = holdings[m].shares /\ sold[m] > 0
    BY <1>2, <2>1 DEF HasShares
  <2>3. holdings'[m] = SoldRow(holdings[m], sold[m], d) /\ holdings[m] \in Row
    BY <1>1, <2>2 DEF ApplySale, IInv, TypeOK
  <2>4. holdings'[m].exitDate = d
    BY <2>2, <2>3 DEF SoldRow, Row
  <2> QED
    BY <2>4 DEF Days
<1> QED
  BY <1>3, <1>4

\* sell-holding draws on older lots first.
LEMMA SellHoldingIsFifo ==
    ASSUME IInv, IInv', NEW p \in Procs, NEW c \in Codes,
           NEW n \in 1..(MaxShares * MaxLots), NEW d \in Days, SellHolding(p, c, n, d)
    PROVE  FifoStep
<1>1. PICK sold \in FifoSplits(Open(c), n) : ApplySale(sold, d)
  BY DEF SellHolding
<1>2. /\ sold \in [Open(c) -> Nat]
      /\ \A l \in Open(c) : HasShares(l) /\ sold[l] <= holdings[l].shares
      /\ \A l, m \in Open(c) : Older(m, l) /\ sold[l] > 0 => sold[m] = holdings[m].shares
      /\ rows' = rows
  BY <1>1 DEF SellHolding, FifoSplits, ApplySale
<1>3. \A l \in Open(c), m \in Open(c) : Older(m, l) /\ sold[l] > 0 =>
          m \in Open(c) /\ sold[m] = holdings[m].shares
  BY <1>2
<1> DEFINE S == Open(c)
<1>4. S \in SUBSET Open(c)
  OBVIOUS
<1> QED
  BY <1>1, <1>2, <1>3, <1>4, SaleIsFifo

\* close-holding sells the oldest lot.
LEMMA CloseSellIsFifo ==
    ASSUME IInv, IInv', NEW p \in Procs, CloseSell(p)
    PROVE  FifoStep
<1> DEFINE c == seen[p].code
<1>1. PICK l \in Open(c) :
         /\ IsOldest(l, Open(c)) /\ HasShares(l)
         /\ ApplySale([m \in {l} |-> holdings[m].shares], seen[p].day)
  BY DEF CloseSell
<1>2. seen[p].day \in Days
  BY DEF CloseSell, IInv, TypeOK, Memory, Opt
<1>3. /\ {l} \in SUBSET Open(c) /\ rows' = rows
      /\ [m \in {l} |-> holdings[m].shares] \in [{l} -> Nat]
      /\ \A m \in {l} : HasShares(m) /\ [k \in {l} |-> holdings[k].shares][m] <= holdings[m].shares
  <2>1. holdings[l].shares \in Nat
    BY <1>1, OpenRow
  <2> QED
    BY <1>1, <2>1 DEF ApplySale
<1>4. ASSUME NEW m \in Open(c), Older(m, l) PROVE m = l
  <2>1. /\ holdings[m].buyDate \in Int /\ holdings[l].buyDate \in Int
        /\ m \in Int /\ l \in Int
    BY OpenRow DEF Days, Lots
  <2> QED
    BY <1>1, <1>4, <2>1 DEF IsOldest, Older
<1>5. \A k \in {l}, m \in Open(c) :
          Older(m, k) /\ [j \in {l} |-> holdings[j].shares][k] > 0 =>
              m \in {l} /\ [j \in {l} |-> holdings[j].shares][m] = holdings[m].shares
  BY <1>4
<1> HIDE DEF c
<1> QED
  BY <1>1, <1>2, <1>3, <1>5, SaleIsFifo

\* Steps that leave the sell events of every row alone.
LEMMA NoSaleIsFifo ==
    ASSUME IInv, \A l \in rows : ledger'[l].sold = ledger[l].sold \/ ledger'[l].sold = 0
    PROVE  FifoStep
<1>1. \A l \in rows : ledger[l].sold \in Nat
  BY DEF IInv, TypeOK, Book
<1> QED
  BY <1>1 DEF FifoStep

\* Every step.
LEMMA NextIsFifo == IInv /\ IInv' /\ [Next]_vars => FifoStep
<1> SUFFICES ASSUME IInv, IInv', [Next]_vars PROVE FifoStep
  OBVIOUS
<1>1. CASE UNCHANGED vars
  BY <1>1, NoSaleIsFifo DEF vars, data
<1>2. CASE Next
  <2>1. PICK p \in Procs :
           \/ \E c \in Codes, d \in Days : Trade(p, c, d)
           \/ \E c \in Codes : Manage(p, c)
           \/ CleanupOrphans(p)
           \/ Complete(p)
    BY <1>2 DEF Next
  <2>2. rows \subseteq Lots /\ ledger \in [Lots -> Book] /\ nextId \notin rows
    BY DEF IInv, TypeOK, Fresh, Lots
  <2>3. ASSUME NEW c \in Codes, NEW d \in Days, Trade(p, c, d) PROVE FifoStep
    <3>1. ASSUME NEW n \in Opt(1..MaxShares), NEW f \in Frameworks, AddHolding(p, c, n, d, f)
          PROVE  FifoStep
      BY <2>2, <3>1, NoSaleIsFifo DEF AddHolding
    <3>2. ASSUME NEW n \in 1..MaxShares, BuyHolding(p, c, n, d) PROVE FifoStep
      BY <2>2, <3>2, NoSaleIsFifo DEF BuyHolding, Book
    <3>3. ASSUME NEW n \in 1..MaxShares, NEW cash \in BOOLEAN,
                 CorporateAction(p, c, n, cash, d)
          PROVE  FifoStep
      BY <2>2, <3>3, NoSaleIsFifo DEF CorporateAction, Book
    <3>4. ASSUME DividendRead(p, c, d) \/ CloseRead(p, c, d) PROVE FifoStep
      BY <3>4, NoSaleIsFifo DEF DividendRead, CloseRead, Remember, data
    <3> QED
      BY <2>3, <3>1, <3>2, <3>3, <3>4, SellHoldingIsFifo DEF Trade
  <2>4. ASSUME NEW c \in Codes, Manage(p, c) PROVE FifoStep
    <3>1. CASE RemoveHolding(p, c)
      BY <2>2, <3>1, NoSaleIsFifo DEF RemoveHolding, NoEvents
    <3>2. CASE ~RemoveHolding(p, c)
      BY <2>4, <3>2, NoSaleIsFifo DEF Manage, FrameworkRead, ChildRead, RetroRead, Remember, data
    <3> QED
      BY <3>1, <3>2
  <2>5. CASE CleanupOrphans(p)
    BY <2>2, <2>5, NoSaleIsFifo DEF CleanupOrphans
  <2>6. CASE Complete(p)
    <3>1. CASE DividendWrite(p) \/ FrameworkWrite(p)
      BY <2>2, <3>1, NoSaleIsFifo DEF DividendWrite, FrameworkWrite, Book
    <3>2. CASE ChildWrite(p) \/ RetroWrite(p) \/ CloseLegacy(p) \/ GiveUp(p)
      BY <3>2, NoSaleIsFifo DEF ChildWrite, RetroWrite, CloseLegacy, GiveUp, data
    <3> QED
      BY <2>6, <3>1, <3>2, CloseSellIsFifo DEF Complete
  <2> QED
    BY <2>1, <2>3, <2>4, <2>5, <2>6
<1> QED
  BY <1>1, <1>2

\* No sale, by whichever command and whatever happened since it looked, draws
\* on a lot while an older lot of the code stays open.
THEOREM SalesFirstInFirstOut == Spec => SalesAreFifo
<1>1. IInv /\ IInv' /\ [Next]_vars =>
          [\A l, m \in rows :
              (/\ ledger'[l].sold > ledger[l].sold
               /\ holdings[m].code = holdings[l].code /\ Older(m, l))
              => holdings'[m].exitDate # Null]_vars
  BY NextIsFifo DEF FifoStep
<1> QED
  BY <1>1, Invariant, PTL DEF Spec, SalesAreFifo

\* Only add-holding opens a lot, on an id without a trace.
LEMMA NextOpensClean ==
    IInv /\ [Next]_vars =>
        \A l \in rows' \ rows :
            /\ ledger'[l] = InferredBook(holdings'[l].shares, holdings'[l].buyDate)
            /\ children'[l] = {"tier"}
            /\ retros'[l] = 0
<1> SUFFICES ASSUME IInv, [Next]_vars, NEW l \in rows' \ rows
             PROVE  /\ ledger'[l] = InferredBook(holdings'[l].shares, holdings'[l].buyDate)
                    /\ children'[l] = {"tier"} /\ retros'[l] = 0
  OBVIOUS
<1>1. \E p \in Procs, c \in Codes, d \in Days, n \in Opt(1..MaxShares), f \in Frameworks :
          AddHolding(p, c, n, d, f)
  <2>1. ~(rows' \subseteq rows)
    OBVIOUS
  <2>2. CASE UNCHANGED vars
    BY <2>1, <2>2 DEF vars, data
  <2>3. ASSUME NEW p \in Procs, NEW c \in Codes, Manage(p, c) PROVE FALSE
    BY <2>1, <2>3 DEF Manage, RemoveHolding, FrameworkRead, ChildRead, RetroRead, Remember, data
  <2>4. ASSUME NEW p \in Procs, CleanupOrphans(p) \/ Complete(p) PROVE FALSE
    BY <2>1, <2>4 DEF CleanupOrphans, Complete, DividendWrite, FrameworkWrite, ChildWrite,
       RetroWrite, CloseSell, ApplySale, CloseLegacy, GiveUp, data
  <2>5. ASSUME NEW p \in Procs, NEW c \in Codes, NEW d \in Days, Trade(p, c, d)
        PROVE  \E n \in Opt(1..MaxShares), f \in Frameworks : AddHolding(p, c, n, d, f)
    BY <2>1, <2>5 DEF Trade, BuyHolding, SellHolding, ApplySale, CorporateAction,
       DividendRead, CloseRead, Remember, data
  <2> QED
    BY <2>2, <2>3, <2>4, <2>5 DEF Next
<1>2. PICK p \in Procs, c \in Codes, d \in Days, n \in Opt(1..MaxShares), f \in Frameworks :
          AddHolding(p, c, n, d, f)
  BY <1>1
<1>3. /\ l = nextId /\ l \in Lots /\ ledger[l] = NoEvents /\ retros[l] = 0
      /\ holdings'[l].shares = n /\ holdings'[l].buyDate = d
  BY <1>2 DEF AddHolding, IInv, TypeOK, Fresh, Lots
<1>4. ledger'[l] = InferredBook(n, d)
  <2>1. CASE n = Null
    BY <1>2, <1>3, <2>1 DEF AddHolding, InferredBook
  <2>2. CASE n # Null
    BY <1>2, <1>3, <2>2 DEF AddHolding, InferredBook, IInv, TypeOK
  <2> QED
    BY <2>1, <2>2
<1> QED
  BY <1>2, <1>3, <1>4 DEF AddHolding, IInv, TypeOK

\* A removed lot never haunts a later one: ids are not reused, and no process
\* holds an id that has not been given out.
THEOREM NewLotsAreClean == Spec => NewLotInheritsNothing
<1>1. IInv /\ [Next]_vars =>
          [\A l \in rows' \ rows :
              /\ ledger'[l] = InferredBook(holdings'[l].shares, holdings'[l].buyDate)
              /\ children'[l] = {"tier"}
              /\ retros'[l] = 0]_vars
  BY NextOpensClean
<1> QED
  BY <1>1, Invariant, PTL DEF Spec, NewLotInheritsNothing

-----------------------------------------------------------------------------
(* Stops that part from their row, and records that outlive it. *)

Torn(row) == row.stop # [reference |-> row.reference, framework |-> row.framework]
Overtaken(l) ==
    \E p \in Procs : /\ pc[p] = "framework" /\ pc'[p] = "idle"
                     /\ seen[p].lot = l /\ seen[p].reference # holdings[l].reference
WellTorn(l) ==
    holdings'[l].exitDate = Null /\ Torn(holdings'[l]) =>
        (l \in rows /\ Torn(holdings[l])) \/ Overtaken(l)

\* A row whose cost, framework and stops a step leaves alone.
LEMMA TornFrame ==
    ASSUME NEW l \in rows, holdings'[l].reference = holdings[l].reference,
           holdings'[l].framework = holdings[l].framework,
           holdings'[l].stop = holdings[l].stop
    PROVE  WellTorn(l)
BY DEF WellTorn, Torn

\* A sale leaves the stops and what they were computed from.
LEMMA SaleTears ==
    ASSUME IInv, NEW c, NEW S \in SUBSET Open(c), NEW sold \in [S -> Nat],
           NEW d, ApplySale(sold, d), NEW l \in rows
    PROVE  WellTorn(l)
<1>1. l \in Lots /\ holdings[l] \in Row
  BY DEF IInv, TypeOK
<1>2. CASE l \in S /\ sold[l] > 0
  <2>1. holdings'[l] = SoldRow(holdings[l], sold[l], d)
    BY <1>1, <1>2 DEF ApplySale
  <2>2. /\ holdings'[l].reference = holdings[l].reference
        /\ holdings'[l].framework = holdings[l].framework
        /\ holdings'[l].stop = holdings[l].stop
    BY <1>1, <2>1 DEF SoldRow, Row
  <2> QED
    BY <2>2, TornFrame
<1>3. CASE ~(l \in S /\ sold[l] > 0)
  <2>1. holdings'[l] = holdings[l]
    BY <1>1, <1>3 DEF ApplySale
  <2> QED
    BY <2>1, TornFrame
<1> QED
  BY <1>2, <1>3

\* The trading commands recompute cost and stops together.
LEMMA TradeTears ==
    ASSUME IInv, NEW p \in Procs, NEW c \in Codes, NEW d \in Days, Trade(p, c, d),
           NEW l \in rows'
    PROVE  WellTorn(l)
<1>1. TypeOK /\ rows \subseteq Lots /\ \A m \in rows : holdings[m] \in Row
  BY DEF IInv, TypeOK
<1>2. ASSUME NEW n \in Opt(1..MaxShares), NEW f \in Frameworks, AddHolding(p, c, n, d, f)
      PROVE  WellTorn(l)
  <2>1. CASE l = nextId
    <3>1. holdings'[l].reference = 0 /\ holdings'[l].framework = f
          /\ holdings'[l].stop = [reference |-> 0, framework |-> f]
      BY <1>1, <1>2, <2>1 DEF AddHolding, TypeOK
    <3> QED
      BY <3>1 DEF WellTorn, Torn
  <2>2. CASE l # nextId
    <3>1. l \in rows /\ holdings'[l] = holdings[l]
      BY <1>1, <1>2, <2>2 DEF AddHolding, TypeOK
    <3> QED
      BY <3>1, TornFrame
  <2> QED
    BY <2>1, <2>2
<1>3. ASSUME NEW n \in 1..MaxShares, BuyHolding(p, c, n, d)
      PROVE  WellTorn(l)
  <2>1. PICK m \in Open(c) :
           /\ rows' = rows
           /\ holdings' = [holdings EXCEPT
               ![m].shares = @ + n,
               ![m].reference = @ + 1,
               ![m].stop = [reference |-> holdings[m].reference + 1,
                            framework |-> holdings[m].framework]]
    BY <1>3 DEF BuyHolding
  <2>2. CASE l = m
    <3>1. /\ holdings'[l].reference = holdings[l].reference + 1
          /\ holdings'[l].framework = holdings[l].framework
          /\ holdings'[l].stop = [reference |-> holdings[l].reference + 1,
                                  framework |-> holdings[l].framework]
      BY <1>1, <2>1, <2>2 DEF TypeOK, Row
    <3> QED
      BY <3>1 DEF WellTorn, Torn
  <2>3. CASE l # m
    BY <1>1, <2>1, <2>3, TornFrame DEF TypeOK
  <2> QED
    BY <2>2, <2>3
<1>4. ASSUME NEW n \in 1..(MaxShares * MaxLots), SellHolding(p, c, n, d)
      PROVE  WellTorn(l)
  <2>1. PICK sold \in FifoSplits(Open(c), n) : ApplySale(sold, d)
    BY <1>4 DEF SellHolding
  <2>2. sold \in [Open(c) -> Nat] /\ l \in rows
    BY <2>1 DEF FifoSplits, ApplySale
  <2> QED
    BY <2>1, <2>2, SaleTears
<1>5. ASSUME NEW n \in 1..MaxShares, NEW cash \in BOOLEAN, CorporateAction(p, c, n, cash, d)
      PROVE  WellTorn(l)
  <2> DEFINE next(m) == IF cash \/ n > holdings[m].shares
                        THEN holdings[m].reference + 1 ELSE holdings[m].reference
  <2>1. PICK m \in Open(c) :
           /\ rows' = rows
           /\ holdings' = [holdings EXCEPT
                ![m].shares = n,
                ![m].reference = next(m),
                ![m].stop = [reference |-> next(m), framework |-> holdings[m].framework]]
    BY <1>5 DEF CorporateAction
  <2> HIDE DEF next
  <2>2. CASE l = m
    <3>1. /\ holdings'[l].reference = next(m)
          /\ holdings'[l].framework = holdings[l].framework
          /\ holdings'[l].stop = [reference |-> next(m), framework |-> holdings[l].framework]
      BY <1>1, <2>1, <2>2 DEF TypeOK, Row
    <3> QED
      BY <3>1 DEF WellTorn, Torn
  <2>3. CASE l # m
    BY <1>1, <2>1, <2>3, TornFrame DEF TypeOK
  <2> QED
    BY <2>2, <2>3
<1>6. ASSUME DividendRead(p, c, d) \/ CloseRead(p, c, d) PROVE WellTorn(l)
  BY <1>6, TornFrame DEF DividendRead, CloseRead, Remember, data
<1> QED
  BY <1>2, <1>3, <1>4, <1>5, <1>6 DEF Trade

\* The write steps: only holding-framework touches the stops.
LEMMA CompleteTears ==
    ASSUME IInv, NEW p \in Procs, Complete(p), NEW l \in rows'
    PROVE  WellTorn(l)
<1>1. TypeOK /\ rows' = rows /\ l \in Lots /\ holdings[l] \in Row
  BY DEF IInv, TypeOK, Complete, DividendWrite, FrameworkWrite, ChildWrite,
         RetroWrite, CloseSell, ApplySale, CloseLegacy, GiveUp, data
<1>2. CASE DividendWrite(p) \/ ChildWrite(p) \/ RetroWrite(p) \/ GiveUp(p)
  BY <1>1, <1>2, TornFrame DEF DividendWrite, ChildWrite, RetroWrite, GiveUp, data
<1>3. CASE FrameworkWrite(p)
  <2>1. CASE l = seen[p].lot
    <3>1. /\ holdings'[l].reference = holdings[l].reference
          /\ holdings'[l].framework = seen[p].framework
          /\ holdings'[l].stop = [reference |-> seen[p].reference,
                                  framework |-> seen[p].framework]
      BY <1>1, <1>3, <2>1 DEF FrameworkWrite, TypeOK, Row
    <3>2. pc[p] = "framework" /\ pc'[p] = "idle"
      BY <1>1, <1>3 DEF FrameworkWrite, Finish, TypeOK
    <3> QED
      BY <2>1, <3>1, <3>2 DEF WellTorn, Torn, Overtaken
  <2>2. CASE l # seen[p].lot
    <3>1. holdings'[l] = holdings[l]
      BY <1>1, <1>3, <2>2 DEF FrameworkWrite, TypeOK
    <3> QED
      BY <1>1, <3>1, TornFrame
  <2> QED
    BY <2>1, <2>2
<1>4. CASE CloseSell(p)
  <2>1. PICK m \in Open(seen[p].code) :
           HasShares(m) /\ ApplySale([k \in {m} |-> holdings[k].shares], seen[p].day)
    BY <1>4 DEF CloseSell
  <2>2. [k \in {m} |-> holdings[k].shares] \in [{m} -> Nat] /\ {m} \in SUBSET Open(seen[p].code)
    BY <2>1, OpenRow
  <2> QED
    BY <1>1, <2>1, <2>2, SaleTears
<1>5. CASE CloseLegacy(p)
  <2>1. PICK m \in Lots :
           holdings' = [holdings EXCEPT ![m].shares = 0, ![m].exitDate = seen[p].day]
    BY <1>1, <1>5 DEF CloseLegacy, PriceOnly, Open, OfCode, TypeOK
  <2>2. /\ holdings'[l].reference = holdings[l].reference
        /\ holdings'[l].framework = holdings[l].framework
        /\ holdings'[l].stop = holdings[l].stop
    BY <1>1, <2>1 DEF TypeOK, Row
  <2> QED
    BY <1>1, <2>2, TornFrame
<1> QED
  BY <1>2, <1>3, <1>4, <1>5 DEF Complete

\* Every step.
LEMMA NextTears == IInv /\ [Next]_vars => \A l \in rows' : WellTorn(l)
<1> SUFFICES ASSUME IInv, [Next]_vars, NEW l \in rows' PROVE WellTorn(l)
  OBVIOUS
<1>1. CASE UNCHANGED vars
  BY <1>1, TornFrame DEF vars, data
<1>2. ASSUME NEW p \in Procs, CleanupOrphans(p) PROVE WellTorn(l)
  BY <1>2, TornFrame DEF CleanupOrphans
<1>3. ASSUME NEW p \in Procs, NEW c \in Codes, Manage(p, c) PROVE WellTorn(l)
  <2>1. l \in rows /\ holdings'[l] = holdings[l]
    BY <1>3 DEF Manage, RemoveHolding, FrameworkRead, ChildRead, RetroRead, Remember, data,
       IInv, TypeOK
  <2> QED
    BY <2>1, TornFrame
<1> QED
  BY <1>1, <1>2, <1>3, TradeTears, CompleteTears DEF Next

\* An open lot's stops are of another cost or framework only after a
\* holding-framework wrote over a cost that had changed since it read it.
THEOREM StopsTearOneWay == Spec => StopsTornOnlyByOvertaken
<1>1. IInv /\ [Next]_vars =>
          [\A l \in rows' :
              LET torn(row) == row.stop # [reference |-> row.reference,
                                           framework |-> row.framework]
              IN  holdings'[l].exitDate = Null /\ torn(holdings'[l]) =>
                    \/ l \in rows /\ torn(holdings[l])
                    \/ \E p \in Procs :
                          /\ pc[p] = "framework" /\ pc'[p] = "idle"
                          /\ seen[p].lot = l /\ seen[p].reference # holdings[l].reference]_vars
  BY NextTears DEF WellTorn, Torn, Overtaken
<1> QED
  BY <1>1, Invariant, PTL DEF Spec, StopsTornOnlyByOvertaken

\* What a lot outside the table still owns, and who put it there.
Owns(l) == ledger[l] # NoEvents \/ children[l] # {} \/ retros[l] # 0
WellLeft(l) ==
    ledger'[l] # NoEvents \/ children'[l] # {} \/ retros'[l] # 0 =>
        \/ l \notin rows /\ Owns(l)
        \/ \E p \in Procs : pc[p] # "idle" /\ pc'[p] = "idle" /\ seen[p].lot = l

\* A lot already gone whose records a step leaves alone, and one it leaves nothing of.
LEMMA LeftFrame ==
    ASSUME NEW l, l \notin rows, ledger'[l] = ledger[l], children'[l] = children[l],
           retros'[l] = retros[l]
    PROVE  WellLeft(l)
BY DEF WellLeft, Owns
LEMMA LeftNothing ==
    ASSUME NEW l, ledger'[l] = NoEvents, children'[l] = {}, retros'[l] = 0
    PROVE  WellLeft(l)
BY DEF WellLeft

\* A sale draws on lots of the table only.
LEMMA SaleLeaves ==
    ASSUME IInv, NEW c, NEW S \in SUBSET Open(c), NEW sold \in [S -> Nat],
           NEW d, ApplySale(sold, d), NEW l \in Lots \ rows
    PROVE  WellLeft(l)
<1>1. l \notin S
  BY DEF Open, OfCode
<1>2. ledger'[l] = ledger[l] /\ children' = children /\ retros' = retros
  BY <1>1 DEF ApplySale
<1> QED
  BY <1>2, LeftFrame

\* The trading commands write to lots of the table, or open one.
LEMMA TradeLeaves ==
    ASSUME IInv, NEW p \in Procs, NEW c \in Codes, NEW d \in Days, Trade(p, c, d),
           NEW l \in Lots \ rows'
    PROVE  WellLeft(l)
<1>1. TypeOK /\ Open(c) \subseteq rows
  BY DEF IInv, Open, OfCode
<1>2. ASSUME NEW n \in Opt(1..MaxShares), NEW f \in Frameworks, AddHolding(p, c, n, d, f)
      PROVE  WellLeft(l)
  <2>1. l \notin rows /\ l # nextId
    BY <1>2 DEF AddHolding
  <2>2. ledger'[l] = ledger[l] /\ children'[l] = children[l] /\ retros'[l] = retros[l]
    BY <1>1, <1>2, <2>1 DEF AddHolding, TypeOK
  <2> QED
    BY <2>1, <2>2, LeftFrame
<1>3. ASSUME NEW n \in 1..MaxShares, BuyHolding(p, c, n, d)
      PROVE  WellLeft(l)
  <2>1. l \notin rows /\ ledger'[l] = ledger[l] /\ children' = children /\ retros' = retros
    BY <1>1, <1>3 DEF BuyHolding, TypeOK
  <2> QED
    BY <2>1, LeftFrame
<1>4. ASSUME NEW n \in 1..(MaxShares * MaxLots), SellHolding(p, c, n, d)
      PROVE  WellLeft(l)
  <2>1. PICK sold \in FifoSplits(Open(c), n) : ApplySale(sold, d)
    BY <1>4 DEF SellHolding
  <2>2. sold \in [Open(c) -> Nat] /\ l \notin rows
    BY <2>1 DEF FifoSplits, ApplySale
  <2> QED
    BY <2>1, <2>2, SaleLeaves
<1>5. ASSUME NEW n \in 1..MaxShares, NEW cash \in BOOLEAN, CorporateAction(p, c, n, cash, d)
      PROVE  WellLeft(l)
  <2>1. l \notin rows /\ ledger'[l] = ledger[l] /\ children' = children /\ retros' = retros
    BY <1>1, <1>5 DEF CorporateAction, TypeOK
  <2> QED
    BY <2>1, LeftFrame
<1>6. ASSUME DividendRead(p, c, d) \/ CloseRead(p, c, d) PROVE WellLeft(l)
  BY <1>6, LeftFrame DEF DividendRead, CloseRead, Remember, data
<1> QED
  BY <1>2, <1>3, <1>4, <1>5, <1>6 DEF Trade

\* The write steps write to the lot their process remembers, there or not.
LEMMA CompleteLeaves ==
    ASSUME IInv, NEW p \in Procs, Complete(p), NEW l \in Lots \ rows'
    PROVE  WellLeft(l)
<1>1. TypeOK /\ rows' = rows /\ l \notin rows
  BY DEF IInv, Complete, DividendWrite, FrameworkWrite, ChildWrite,
         RetroWrite, CloseSell, ApplySale, CloseLegacy, GiveUp, data
<1>2. CASE DividendWrite(p) \/ FrameworkWrite(p) \/ ChildWrite(p) \/ RetroWrite(p)
  <2>1. pc[p] # "idle" /\ pc'[p] = "idle"
    BY <1>1, <1>2 DEF DividendWrite, FrameworkWrite, ChildWrite, RetroWrite, Finish, TypeOK
  <2>2. CASE seen[p].lot = l
    BY <2>1, <2>2 DEF WellLeft
  <2>3. CASE seen[p].lot # l
    <3>1. ledger'[l] = ledger[l] /\ children'[l] = children[l] /\ retros'[l] = retros[l]
      BY <1>1, <1>2, <2>3 DEF DividendWrite, FrameworkWrite, ChildWrite, RetroWrite, TypeOK
    <3> QED
      BY <1>1, <3>1, LeftFrame
  <2> QED
    BY <2>2, <2>3
<1>3. CASE CloseLegacy(p) \/ GiveUp(p)
  BY <1>1, <1>3, LeftFrame DEF CloseLegacy, GiveUp, data
<1>4. CASE CloseSell(p)
  <2>1. PICK m \in Open(seen[p].code) :
           HasShares(m) /\ ApplySale([k \in {m} |-> holdings[k].shares], seen[p].day)
    BY <1>4 DEF CloseSell
  <2>2. [k \in {m} |-> holdings[k].shares] \in [{m} -> Nat] /\ {m} \in SUBSET Open(seen[p].code)
    BY <2>1, OpenRow
  <2> QED
    BY <1>1, <2>1, <2>2, SaleLeaves
<1> QED
  BY <1>2, <1>3, <1>4 DEF Complete

\* Every step.
LEMMA NextLeaves == IInv /\ [Next]_vars => \A l \in Lots \ rows' : WellLeft(l)
<1> SUFFICES ASSUME IInv, [Next]_vars, NEW l \in Lots \ rows' PROVE WellLeft(l)
  OBVIOUS
<1>1. CASE UNCHANGED vars
  BY <1>1, LeftFrame DEF vars, data
<1>2. ASSUME NEW p \in Procs, CleanupOrphans(p) PROVE WellLeft(l)
  BY <1>2, LeftNothing DEF CleanupOrphans
<1>3. ASSUME NEW p \in Procs, NEW c \in Codes, Manage(p, c) PROVE WellLeft(l)
  <2>1. CASE RemoveHolding(p, c)
    <3>1. CASE l \in OfCode(c)
      BY <2>1, <3>1, LeftNothing DEF RemoveHolding
    <3>2. CASE l \notin OfCode(c)
      BY <2>1, <3>2, LeftFrame DEF RemoveHolding
    <3> QED
      BY <3>1, <3>2
  <2>2. CASE ~RemoveHolding(p, c)
    BY <1>3, <2>2, LeftFrame DEF Manage, FrameworkRead, ChildRead, RetroRead, Remember, data
  <2> QED
    BY <2>1, <2>2
<1> QED
  BY <1>1, <1>2, <1>3, TradeLeaves, CompleteLeaves DEF Next

\* remove-holding leaves nothing of a lot: what is found later was written by a
\* command that had read the lot before it was removed.
THEOREM OrphansHaveAnAuthor == Spec => OrphansOnlyByOvertaken
<1>1. IInv /\ [Next]_vars =>
          [\A l \in Lots \ rows' :
              ledger'[l] # NoEvents \/ children'[l] # {} \/ retros'[l] # 0 =>
                \/ l \notin rows /\ (ledger[l] # NoEvents \/ children[l] # {} \/ retros[l] # 0)
                \/ \E p \in Procs : pc[p] # "idle" /\ pc'[p] = "idle" /\ seen[p].lot = l]_vars
  BY NextLeaves DEF WellLeft, Owns
<1> QED
  BY <1>1, Invariant, PTL DEF Spec, OrphansOnlyByOvertaken
=============================================================================
