---------------------------- MODULE HoldingLedger ----------------------------
(***************************************************************************)
(* The holding lifecycle ledger of commands_holdings.py: the table         *)
(* holdings (one row per lot), the table holding_events (what happened to  *)
(* a lot), the lot's child rows, and the CLI processes that change them.   *)
(*                                                                         *)
(* Every command is a process of its own.  One that issues BEGIN IMMEDIATE *)
(* before it reads is a single action.  One that does not reads in         *)
(* autocommit and opens its transaction only at the first INSERT or        *)
(* UPDATE (Python's legacy transaction mode), so it is two actions: a read *)
(* that stores what the command keeps, and a write that trusts it.         *)
(*                                                                         *)
(* Shares are counted in a unit the exchange's lot rule accepts.  A row    *)
(* keeps, instead of prices, which reference cost it holds: reference is   *)
(* the number of times the column was recomputed, and stop the pair        *)
(* (reference, framework) its two stop prices were computed from.  The     *)
(* events of a lot are kept as totals per type.                            *)
(***************************************************************************)
EXTENDS Integers, FiniteSets, FiniteSetsExt

CONSTANTS
    Procs,        \* concurrent CLI processes
    Codes,        \* stock codes
    Frameworks,   \* holding frameworks, each with its stop percentages
    Tables,       \* child tables that a read-then-write command inserts into
    Null,         \* SQL NULL
    MaxLots,      \* bound: rows ever inserted into holdings
    MaxDay,       \* bound: calendar days 1..MaxDay
    MaxShares,    \* bound: shares of one lot
    MaxTraded,    \* bound: shares ever bought into one lot
    MaxReference, \* bound: times a lot's reference cost is recomputed
    LegacyLots    \* open rows found in the database when the ledger was introduced

ASSUME BoundsAssumption ==
    /\ MaxLots \in Nat /\ MaxDay \in Nat /\ MaxShares \in Nat
    /\ MaxTraded \in Nat /\ MaxReference \in Nat
    /\ LegacyLots \in 0..MaxLots
ASSUME NullAssumption ==
    Null \notin Int /\ Null \notin Codes /\ Null \notin Frameworks /\ Null \notin Tables
ASSUME TablesAssumption == "tier" \in Tables

Lots == 1..MaxLots
Days == 1..MaxDay
Opt(S) == S \cup {Null}

VARIABLES
    rows,      \* ids present in holdings
    holdings,  \* the row of each id
    ledger,    \* the holding_events of each id
    children,  \* the child tables holding a row of each id
    retros,    \* the number of retro_notes of each id
    nextId,    \* AUTOINCREMENT sequence of holdings
    pc,        \* where each process is
    seen       \* what a process remembers between its read and its write

data == <<rows, holdings, ledger, children, retros, nextId>>
vars == <<data, pc, seen>>

-----------------------------------------------------------------------------
Stop == [reference: Nat, framework: Frameworks]
Row == [code: Opt(Codes), shares: Opt(Nat), buyDate: Opt(Days),
        exitDate: Opt(Days), framework: Opt(Frameworks), reference: Nat,
        stop: Opt(Stop)]
Blank == [code |-> Null, shares |-> Null, buyDate |-> Null, exitDate |-> Null,
          framework |-> Null, reference |-> 0, stop |-> Null]

\* bought, sold, adjusted: share totals of the buy, sell and adjustment events;
\* buyDays: event_date of the buys; other: event types present without shares.
Book == [bought: Nat, sold: Nat, adjusted: Nat, buyDays: SUBSET Days,
         other: SUBSET {"dividend", "adjustment"}]
NoEvents == [bought |-> 0, sold |-> 0, adjusted |-> 0, buyDays |-> {}, other |-> {}]

Control == {"idle", "dividend", "framework", "child", "retro",
            "close_sell", "close_legacy"}
Memory == [lot: Opt(Lots), code: Opt(Codes), day: Opt(Days), reference: Nat,
           framework: Opt(Frameworks), table: Opt(Tables)]
Forgotten == [lot |-> Null, code |-> Null, day |-> Null, reference |-> 0,
              framework |-> Null, table |-> Null]

-----------------------------------------------------------------------------
(* What the commands select. *)

OfCode(c) == {l \in rows : holdings[l].code = c}
Open(c) == {l \in OfCode(c) : holdings[l].exitDate = Null}
HasShares(l) == holdings[l].shares # Null /\ holdings[l].shares > 0

\* ORDER BY buy_date, id
Older(m, l) ==
    \/ holdings[m].buyDate < holdings[l].buyDate
    \/ holdings[m].buyDate = holdings[l].buyDate /\ m < l
IsOldest(l, S) == l \in S /\ \A m \in S \ {l} : Older(l, m)

\* The price-only rows that close-holding closes without a sale.
PriceOnly(c) == {l \in Open(c) : ~HasShares(l)}

\* event_date >= MIN(event_date) over the lot's buys; passes when it has none.
NotBeforeFirstBuy(l, d) ==
    ledger[l].buyDays = {} \/ \E b \in ledger[l].buyDays : b <= d

\* The splits of a sale of n shares over the lots S that the FIFO loop can make:
\* a lot is drawn on only when every older one is sold out.
\* Mutant: any split that adds up.
FifoSplits_AnyOrder(S, n) ==
    {sold \in [S -> 0..n] :
        /\ \A l \in S : sold[l] <= holdings[l].shares
        /\ MapThenSumSet(LAMBDA l : sold[l], S) = n}
FifoSplits(S, n) ==
    {sold \in [S -> 0..n] :
        /\ \A l \in S : sold[l] <= holdings[l].shares
        /\ \A l, m \in S : Older(m, l) /\ sold[l] > 0 => sold[m] = holdings[m].shares
        /\ MapThenSumSet(LAMBDA l : sold[l], S) = n}

Idle(p) == pc[p] = "idle"
Remember(p, step, memory) ==
    /\ pc' = [pc EXCEPT ![p] = step]
    /\ seen' = [seen EXCEPT ![p] = memory]
    /\ UNCHANGED data
Finish(p) ==
    /\ pc' = [pc EXCEPT ![p] = "idle"]
    /\ seen' = [seen EXCEPT ![p] = Forgotten]

-----------------------------------------------------------------------------
(* Commands that hold the write lock from before their first read. *)

\* add-holding: only when the code has no open row.  n = Null records a
\* price-only position, which gets no event.
AddHolding(p, c, n, d, f) ==
    /\ Idle(p) /\ Open(c) = {} /\ nextId \in Lots
    /\ rows' = rows \cup {nextId}
    /\ holdings' = [holdings EXCEPT ![nextId] =
           [code |-> c, shares |-> n, buyDate |-> d, exitDate |-> Null,
            framework |-> f, reference |-> 0,
            stop |-> [reference |-> 0, framework |-> f]]]
    /\ ledger' = IF n = Null THEN ledger
                 ELSE [ledger EXCEPT ![nextId].bought = n,
                                     ![nextId].buyDays = {d}]
    /\ children' = [children EXCEPT ![nextId] = {"tier"}]
    /\ nextId' = nextId + 1
    /\ UNCHANGED <<retros, pc, seen>>

\* buy-holding: adds to the single open row, whose reference cost and stops
\* are recomputed together.
\* Mutant: the stops stay those of the old cost.
BuyHolding_KeepsStops(p, c, n, d) ==
    \E l \in Open(c) :
        /\ Idle(p) /\ Open(c) = {l}
        /\ NotBeforeFirstBuy(l, d) /\ HasShares(l)
        /\ holdings[l].shares + n <= MaxShares
        /\ ledger[l].bought + n <= MaxTraded
        /\ holdings[l].reference < MaxReference
        /\ holdings' = [holdings EXCEPT ![l].shares = @ + n, ![l].reference = @ + 1]
        /\ ledger' = [ledger EXCEPT ![l].bought = @ + n,
                                    ![l].buyDays = @ \cup {d}]
        /\ UNCHANGED <<rows, children, retros, nextId, pc, seen>>
BuyHolding(p, c, n, d) ==
    \E l \in Open(c) :
        /\ Idle(p) /\ Open(c) = {l}
        /\ NotBeforeFirstBuy(l, d) /\ HasShares(l)
        /\ holdings[l].shares + n <= MaxShares
        /\ ledger[l].bought + n <= MaxTraded
        /\ holdings[l].reference < MaxReference
        /\ holdings' = [holdings EXCEPT
               ![l].shares = @ + n,
               ![l].reference = @ + 1,
               ![l].stop = [reference |-> holdings[l].reference + 1,
                            framework |-> holdings[l].framework]]
        /\ ledger' = [ledger EXCEPT ![l].bought = @ + n,
                                    ![l].buyDays = @ \cup {d}]
        /\ UNCHANGED <<rows, children, retros, nextId, pc, seen>>

\* The loop of sell-holding: every lot drawn on loses its part, is closed when
\* nothing is left, and gets one sell event.
\* Mutants: the last share is sold and the row keeps its count, or stays open.
SoldRow_KeepsShares(row, k, d) ==
    IF row.shares = k THEN [row EXCEPT !.exitDate = d] ELSE [row EXCEPT !.shares = @ - k]
SoldRow_StaysOpen(row, k, d) == [row EXCEPT !.shares = @ - k]
SoldRow(row, k, d) ==
    [row EXCEPT !.shares = @ - k, !.exitDate = IF row.shares = k THEN d ELSE @]
ApplySale(sold, d) ==
    LET drawn == {l \in DOMAIN sold : sold[l] > 0}
    IN  /\ \A l \in drawn : NotBeforeFirstBuy(l, d)
        /\ holdings' = [l \in Lots |->
               IF l \in drawn THEN SoldRow(holdings[l], sold[l], d) ELSE holdings[l]]
        /\ ledger' = [l \in Lots |->
               IF l \in drawn THEN [ledger[l] EXCEPT !.sold = @ + sold[l]]
               ELSE ledger[l]]
        /\ UNCHANGED <<rows, children, retros, nextId>>

\* sell-holding: over all open rows of the code, which must all have shares.
SellHolding(p, c, n, d) ==
    /\ Idle(p) /\ Open(c) # {}
    /\ \A l \in Open(c) : HasShares(l)
    /\ \E sold \in FifoSplits(Open(c), n) : ApplySale(sold, d)
    /\ UNCHANGED <<pc, seen>>

\* corporate-action: the share count becomes n (n = old for a pure dividend);
\* cash says whether a dividend per share was given.
CorporateAction(p, c, n, cash, d) ==
    \E l \in Open(c) :
        /\ Idle(p) /\ Open(c) = {l}
        /\ HasShares(l) /\ NotBeforeFirstBuy(l, d)
        /\ n >= holdings[l].shares
        /\ holdings[l].reference < MaxReference
        /\ LET next == IF cash \/ n > holdings[l].shares
                       THEN holdings[l].reference + 1 ELSE holdings[l].reference
           IN  holdings' = [holdings EXCEPT
                   ![l].shares = n,
                   ![l].reference = next,
                   ![l].stop = [reference |-> next,
                                framework |-> holdings[l].framework]]
        /\ ledger' = [ledger EXCEPT
               ![l].adjusted = @ + (n - holdings[l].shares),
               ![l].other = @ \cup {"adjustment"}
                              \cup (IF cash THEN {"dividend"} ELSE {})]
        /\ UNCHANGED <<rows, children, retros, nextId, pc, seen>>

\* remove-holding: every row of the code, open or closed, with all it owns.
\* Mutants: the notes survive the lot; ids are max(id) + 1, without AUTOINCREMENT.
RemoveHolding_KeepsRetros(p, c) ==
    LET gone == OfCode(c)
    IN  /\ Idle(p) /\ gone # {}
        /\ rows' = rows \ gone
        /\ holdings' = [l \in Lots |-> IF l \in gone THEN Blank ELSE holdings[l]]
        /\ ledger' = [l \in Lots |-> IF l \in gone THEN NoEvents ELSE ledger[l]]
        /\ children' = [l \in Lots |-> IF l \in gone THEN {} ELSE children[l]]
        /\ UNCHANGED <<retros, nextId, pc, seen>>
RemoveHolding_ReusesIds(p, c) ==
    LET gone == OfCode(c)
    IN  /\ Idle(p) /\ gone # {}
        /\ rows' = rows \ gone
        /\ holdings' = [l \in Lots |-> IF l \in gone THEN Blank ELSE holdings[l]]
        /\ ledger' = [l \in Lots |-> IF l \in gone THEN NoEvents ELSE ledger[l]]
        /\ children' = [l \in Lots |-> IF l \in gone THEN {} ELSE children[l]]
        /\ retros' = [l \in Lots |-> IF l \in gone THEN 0 ELSE retros[l]]
        /\ nextId' = 1 + Max((rows \ gone) \cup {0})
        /\ UNCHANGED <<pc, seen>>
RemoveHolding(p, c) ==
    LET gone == OfCode(c)
    IN  /\ Idle(p) /\ gone # {}
        /\ rows' = rows \ gone
        /\ holdings' = [l \in Lots |-> IF l \in gone THEN Blank ELSE holdings[l]]
        /\ ledger' = [l \in Lots |-> IF l \in gone THEN NoEvents ELSE ledger[l]]
        /\ children' = [l \in Lots |-> IF l \in gone THEN {} ELSE children[l]]
        /\ retros' = [l \in Lots |-> IF l \in gone THEN 0 ELSE retros[l]]
        /\ UNCHANGED <<nextId, pc, seen>>

\* cleanup: child rows of ids that holdings no longer has.
CleanupOrphans(p) ==
    /\ Idle(p)
    /\ ledger' = [l \in Lots |-> IF l \in rows THEN ledger[l] ELSE NoEvents]
    /\ children' = [l \in Lots |-> IF l \in rows THEN children[l] ELSE {}]
    /\ retros' = [l \in Lots |-> IF l \in rows THEN retros[l] ELSE 0]
    /\ UNCHANGED <<rows, holdings, nextId, pc, seen>>

-----------------------------------------------------------------------------
(* Commands that read first and take the write lock afterwards. *)

\* record-dividend: the oldest open row, then an unconditional INSERT.
DividendRead(p, c, d) ==
    \E l \in Open(c) :
        /\ Idle(p) /\ IsOldest(l, Open(c)) /\ NotBeforeFirstBuy(l, d)
        /\ Remember(p, "dividend", [Forgotten EXCEPT !.lot = l])
DividendWrite(p) ==
    /\ pc[p] = "dividend"
    /\ ledger' = [ledger EXCEPT ![seen[p].lot].other = @ \cup {"dividend"}]
    /\ Finish(p)
    /\ UNCHANGED <<rows, holdings, children, retros, nextId>>

\* holding-framework: stops from the reference cost read earlier.  The UPDATE
\* matches no row when the lot is gone; the INSERT happens all the same.
FrameworkRead(p, c, f) ==
    \E l \in Open(c) :
        /\ Idle(p) /\ Open(c) = {l}
        /\ Remember(p, "framework",
               [Forgotten EXCEPT !.lot = l, !.framework = f,
                                 !.reference = holdings[l].reference])
\* Mutant: the row is written back as it was read, still open.
FrameworkWrite_Reopens(p) ==
    LET l == seen[p].lot
    IN  /\ pc[p] = "framework"
        /\ holdings' = IF l \notin rows THEN holdings
                       ELSE [holdings EXCEPT ![l].framework = seen[p].framework,
                                             ![l].exitDate = Null]
        /\ ledger' = [ledger EXCEPT ![l].other = @ \cup {"adjustment"}]
        /\ Finish(p)
        /\ UNCHANGED <<rows, children, retros, nextId>>
FrameworkWrite(p) ==
    LET l == seen[p].lot
    IN  /\ pc[p] = "framework"
        /\ holdings' = IF l \notin rows THEN holdings
                       ELSE [holdings EXCEPT
                               ![l].framework = seen[p].framework,
                               ![l].stop = [reference |-> seen[p].reference,
                                            framework |-> seen[p].framework]]
        /\ ledger' = [ledger EXCEPT ![l].other = @ \cup {"adjustment"}]
        /\ Finish(p)
        /\ UNCHANGED <<rows, children, retros, nextId>>

\* tier-config, tier-update, alert-open, l3-add: an insert or upsert of a child row.
ChildRead(p, c, t) ==
    \E l \in Open(c) :
        /\ Idle(p) /\ Open(c) = {l}
        /\ Remember(p, "child", [Forgotten EXCEPT !.lot = l, !.table = t])
ChildWrite(p) ==
    /\ pc[p] = "child"
    /\ children' = [children EXCEPT ![seen[p].lot] = @ \cup {seen[p].table}]
    /\ Finish(p)
    /\ UNCHANGED <<rows, holdings, ledger, retros, nextId>>

\* retro-add: the last closed row without a note; its events must hold a buy.
RetroRead(p, c) ==
    LET unreviewed == {l \in OfCode(c) : holdings[l].exitDate # Null /\ retros[l] = 0}
    IN  \E l \in unreviewed :
            /\ Idle(p) /\ ledger[l].bought > 0
            /\ \A m \in unreviewed : holdings[m].exitDate <= holdings[l].exitDate
            /\ Remember(p, "retro", [Forgotten EXCEPT !.lot = l])
RetroWrite(p) ==
    /\ pc[p] = "retro"
    /\ retros' = [retros EXCEPT ![seen[p].lot] = @ + 1]
    /\ Finish(p)
    /\ UNCHANGED <<rows, holdings, ledger, children, nextId>>

\* close-holding: the shares of the oldest open row decide the path, and each
\* path selects its lot again under the write lock.
CloseRead(p, c, d) ==
    \E l \in Open(c) :
        /\ Idle(p) /\ IsOldest(l, Open(c))
        /\ Remember(p, IF HasShares(l) THEN "close_sell" ELSE "close_legacy",
                    [Forgotten EXCEPT !.code = c, !.day = d])
CloseSell(p) ==
    /\ pc[p] = "close_sell"
    /\ \E l \in Open(seen[p].code) :
           /\ IsOldest(l, Open(seen[p].code)) /\ HasShares(l)
           /\ ApplySale([m \in {l} |-> holdings[m].shares], seen[p].day)
    /\ Finish(p)
CloseLegacy(p) ==
    LET priceOnly == PriceOnly(seen[p].code)
    IN  /\ pc[p] = "close_legacy"
        /\ \E l \in priceOnly :
               /\ IsOldest(l, priceOnly)
               /\ holdings[l].buyDate <= seen[p].day
               /\ holdings' = [holdings EXCEPT ![l].shares = 0,
                                               ![l].exitDate = seen[p].day]
        /\ Finish(p)
        /\ UNCHANGED <<rows, ledger, children, retros, nextId>>

\* A command that fails a check of its write step, waits 30 s for the write
\* lock in vain or is killed leaves the database as it is.
GiveUp(p) == ~Idle(p) /\ Finish(p) /\ UNCHANGED data

-----------------------------------------------------------------------------
\* The rows that migration 025 leaves for a database older than the ledger:
\* one inferred buy for a row with shares, nothing for a price-only one.
LegacyRow(c, n, d, f) ==
    [code |-> c, shares |-> n, buyDate |-> d, exitDate |-> Null, framework |-> f,
     reference |-> 0, stop |-> [reference |-> 0, framework |-> f]]
InferredBook(n, d) ==
    IF n = Null THEN NoEvents ELSE [NoEvents EXCEPT !.bought = n, !.buyDays = {d}]

Init ==
    \E c \in Codes, f \in Frameworks,
       n \in [1..LegacyLots -> Opt(1..MaxShares)], d \in [1..LegacyLots -> Days] :
        /\ rows = 1..LegacyLots
        /\ holdings = [l \in Lots |-> IF l \in 1..LegacyLots
                                      THEN LegacyRow(c, n[l], d[l], f) ELSE Blank]
        /\ ledger = [l \in Lots |-> IF l \in 1..LegacyLots
                                    THEN InferredBook(n[l], d[l]) ELSE NoEvents]
        /\ children = [l \in Lots |-> {}]
        /\ retros = [l \in Lots |-> 0]
        /\ nextId = LegacyLots + 1
        /\ pc = [p \in Procs |-> "idle"]
        /\ seen = [p \in Procs |-> Forgotten]

Trade(p, c, d) ==
    \/ \E n \in Opt(1..MaxShares), f \in Frameworks : AddHolding(p, c, n, d, f)
    \/ \E n \in 1..MaxShares : BuyHolding(p, c, n, d)
    \/ \E n \in 1..(MaxShares * MaxLots) : SellHolding(p, c, n, d)
    \/ \E n \in 1..MaxShares, cash \in BOOLEAN : CorporateAction(p, c, n, cash, d)
    \/ DividendRead(p, c, d)
    \/ CloseRead(p, c, d)

Manage(p, c) ==
    \/ RemoveHolding(p, c)
    \/ \E f \in Frameworks : FrameworkRead(p, c, f)
    \/ \E t \in Tables : ChildRead(p, c, t)
    \/ RetroRead(p, c)

Complete(p) ==
    \/ DividendWrite(p) \/ FrameworkWrite(p) \/ ChildWrite(p) \/ RetroWrite(p)
    \/ CloseSell(p) \/ CloseLegacy(p) \/ GiveUp(p)

Next ==
    \E p \in Procs :
        \/ \E c \in Codes, d \in Days : Trade(p, c, d)
        \/ \E c \in Codes : Manage(p, c)
        \/ CleanupOrphans(p)
        \/ Complete(p)

Spec == Init /\ [][Next]_vars

-----------------------------------------------------------------------------
(* Properties. *)

\* Every variable keeps its type; a row in the table has its mandatory columns,
\* and a process that is between its two steps remembers what the write needs.
TypeOK ==
    /\ rows \subseteq Lots
    /\ holdings \in [Lots -> Row]
    /\ \A l \in rows : /\ holdings[l].code # Null /\ holdings[l].buyDate # Null
                       /\ holdings[l].framework # Null
    /\ ledger \in [Lots -> Book]
    /\ children \in [Lots -> SUBSET Tables]
    /\ retros \in [Lots -> Nat]
    /\ nextId \in 1..(MaxLots + 1)
    /\ pc \in [Procs -> Control]
    /\ seen \in [Procs -> Memory]
    /\ \A p \in Procs :
           /\ pc[p] \in {"dividend", "framework", "child", "retro"} => seen[p].lot # Null
           /\ pc[p] = "framework" => seen[p].framework # Null
           /\ pc[p] = "child" => seen[p].table # Null
           /\ pc[p] \in {"close_sell", "close_legacy"} =>
                  seen[p].code # Null /\ seen[p].day # Null

\* The share column is never more than a cache of the events: whatever the
\* commands did in whatever order, it is what was bought plus what corporate
\* actions added minus what was sold, and a price-only lot has no trade event.
SharesMatchLedger ==
    \A l \in rows :
        LET position == ledger[l].bought + ledger[l].adjusted - ledger[l].sold
        IN  IF holdings[l].shares = Null THEN position = 0 /\ ledger[l].bought = 0
            ELSE holdings[l].shares = position

\* A lot is closed exactly when nothing of it is left, and never on a day
\* before the position was opened.
ClosedIsEmpty ==
    \A l \in rows :
        /\ holdings[l].exitDate # Null <=> holdings[l].shares = 0
        /\ holdings[l].exitDate # Null => holdings[l].buyDate <= holdings[l].exitDate

\* add-holding keeps one open row per code ("single-row position"): two open
\* rows of one code were both in the database before the ledger existed.
OneOpenRowPerCode ==
    \A l, m \in rows :
        (/\ l # m /\ holdings[l].code = holdings[m].code
         /\ holdings[l].exitDate = Null /\ holdings[m].exitDate = Null)
        => l <= LegacyLots /\ m <= LegacyLots

\* The trade events of a lot are immutable: while its row exists no step takes
\* any of them away.
EventsAreImmutable ==
    [][\A l \in rows \cap rows' :
          /\ ledger'[l].bought >= ledger[l].bought
          /\ ledger'[l].sold >= ledger[l].sold
          /\ ledger'[l].adjusted >= ledger[l].adjusted
          /\ ledger[l].buyDays \subseteq ledger'[l].buyDays
          /\ ledger[l].other \subseteq ledger'[l].other]_vars

\* A closed lot stays closed with the exit it was closed with: a command that
\* read it while it was open cannot trade it any more.
ClosedIsFinal ==
    [][\A l \in rows \cap rows' :
          holdings[l].exitDate # Null =>
              /\ holdings'[l].exitDate = holdings[l].exitDate
              /\ holdings'[l].shares = holdings[l].shares
              /\ ledger'[l].bought = ledger[l].bought
              /\ ledger'[l].sold = ledger[l].sold
              /\ ledger'[l].adjusted = ledger[l].adjusted]_vars

\* Shares are sold first in, first out: when a step sells from a lot, every
\* older lot of the code is closed when the step is over.
SalesAreFifo ==
    [][\A l, m \in rows :
          (/\ ledger'[l].sold > ledger[l].sold
           /\ holdings[m].code = holdings[l].code /\ Older(m, l))
          => holdings'[m].exitDate # Null]_vars

\* A new lot starts with nothing but its own opening records: what a process
\* writes for a lot removed behind its back never turns up under a later one.
NewLotInheritsNothing ==
    [][\A l \in rows' \ rows :
          /\ ledger'[l] = InferredBook(holdings'[l].shares, holdings'[l].buyDate)
          /\ children'[l] = {"tier"}
          /\ retros'[l] = 0]_vars

\* Refinement: the lot's stage is read off its row, its position off its events.
\* Every command, in every interleaving, is a step of LotLifecycle or none: a
\* lot is opened once, closes in the step that sells its last share, stays
\* closed, and is never reopened after a removal.
stage == [l \in Lots |->
             IF l >= nextId THEN "absent"
             ELSE IF l \notin rows THEN "removed"
             ELSE IF holdings[l].exitDate = Null THEN "open" ELSE "closed"]
position == [l \in Lots |->
                IF ledger[l].bought = 0 THEN Null
                ELSE ledger[l].bought + ledger[l].adjusted - ledger[l].sold]
Lifecycle == INSTANCE LotLifecycle WITH Untracked <- Null
ImplementsLifecycle == Lifecycle!Spec

\* The stops of an open lot are those of its present reference cost and framework.
StopsFollowReference ==
    \A l \in rows :
        holdings[l].exitDate = Null =>
            holdings[l].stop = [reference |-> holdings[l].reference,
                                framework |-> holdings[l].framework]

\* Stops part from their row only when a holding-framework that read the
\* reference cost before it changed writes after the change: no other command,
\* and no other order, leaves an open lot with stops of another cost or framework.
StopsTornOnlyByOvertaken ==
    [][\A l \in rows' :
          LET torn(row) == row.stop # [reference |-> row.reference, framework |-> row.framework]
          IN  holdings'[l].exitDate = Null /\ torn(holdings'[l]) =>
                \/ l \in rows /\ torn(holdings[l])
                \/ \E p \in Procs :
                      /\ pc[p] = "framework" /\ pc'[p] = "idle"
                      /\ seen[p].lot = l /\ seen[p].reference # holdings[l].reference]_vars

\* What is left of a lot that is not in the table was put there by a command
\* that had read the lot while it existed; removal itself leaves nothing.
OrphansOnlyByOvertaken ==
    [][\A l \in Lots \ rows' :
          ledger'[l] # NoEvents \/ children'[l] # {} \/ retros'[l] # 0 =>
            \/ l \notin rows /\ (ledger[l] # NoEvents \/ children[l] # {} \/ retros[l] # 0)
            \/ \E p \in Procs : pc[p] # "idle" /\ pc'[p] = "idle" /\ seen[p].lot = l]_vars

\* No lot is closed on a day before its last purchase: the cash flows of a
\* lifecycle end with its exit.
CashFlowOrder ==
    \A l \in rows :
        holdings[l].exitDate # Null =>
            \A b \in ledger[l].buyDays : b <= holdings[l].exitDate
=============================================================================
