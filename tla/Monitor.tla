------------------------------- MODULE Monitor -------------------------------
(***************************************************************************)
(* monitor-snapshot (commands_monitor.py): one read transaction over the   *)
(* open holdings, their theses, alerts, tiers and stored fundamentals, one *)
(* batch of quotes, the account's risk policy and the Research cards give  *)
(* a snapshot: what is missing (gaps), what needs a look (escalations) and *)
(* four statuses.  The snapshot is printed only if it satisfies its        *)
(* contract (monitor_contract.py).                                         *)
(*                                                                         *)
(* The command writes nothing, so it is a function of the stored           *)
(* fundamentals, which the commands of Fundamentals change, and of its     *)
(* inputs: what parts with modules of their own or the outside supply.     *)
(* What is written after the read transaction is not seen.                 *)
(*                                                                         *)
(* A code has one position; a second open row of a code, which only an old *)
(* database has, reads like the first.  A position has at most one         *)
(* condition and one open alert.  Prices and stops are percent of the      *)
(* purchase, shares and account value small integers.                      *)
(***************************************************************************)
EXTENDS Fundamentals

CONSTANTS
    MaxOddInputs,   \* bound: how far inputs and stored facts together are from the ordinary
    InputsWithin,   \* what a snapshot may read, by how odd it is
    PositionLimit   \* max_position_risk_pct

ASSUME MonitorAssumption ==
    /\ MaxOddInputs \in Nat /\ PositionLimit \in Nat \ {0} /\ IsFiniteSet(Codes)
    /\ None \notin Codes \cup {"over_budget", "within_budget"}

\* What is read about one code.
Position == [
    held : BOOLEAN, named : BOOLEAN, readable : BOOLEAN,  \* readable: its fundamentals are JSON
    framework : Opt(Frameworks), sure : BOOLEAN, shares : Opt(Nat), reference : Opt(Nat),
    stop1 : Opt(Nat), stop2 : Opt(Nat),
    tier1 : Opt({"pending", "completed", "exempted"}), laterTiers : BOOLEAN,
    path : Opt({"A", "B", "C"}), target : Opt(Nat), exemption : BOOLEAN,
    alert : {"none", "open", "due", "undatable"},
    theses : 0..2, conditions : 0..1, valid : BOOLEAN, exits : BOOLEAN,
    state : {"not_triggered", "pending", "watch", "triggered"},
    review : {"later", "due", "undatable"},
    quote : {"fresh", "stale", "untimed", "none"},
    price : Nat, close : Opt(Nat), industry : Opt(Int),
    card : {"none", "valid", "to review"}]

\* What is read about the account.  unscoped: a policy is there but its account is
\* not confirmed; twin: a code with a second open row.
Account == [
    value : Opt(Nat), unscoped : BOOLEAN, portfolioLimit : Nat,
    industries : {"complete", "stale", "invalid", "unavailable"},
    research : {"ok", "unavailable", "not_configured"}, twin : Opt(Codes)]

ASSUME InputsAssumption ==
    \A k \in 0..MaxOddInputs : \A in \in InputsWithin[k] :
        in.account \in Account /\ in.positions \in [Codes -> Position]

Held(in) == {c \in Codes : in.positions[c].held}
Rows(in, S) == Cardinality(S) + (IF in.account.twin \in S THEN 1 ELSE 0)

-----------------------------------------------------------------------------
\* Prices.  The batch has no word about trading or a market snapshot, and the
\* industry means need the industry map.
Quoted(p) == p.quote = "fresh"
Close(p) == IF p.quote = "none" THEN None ELSE p.close
Industry(in, p) == IF in.account.industries = "complete" THEN p.industry ELSE None
Reached(p, line) == Quoted(p) /\ line # None /\ p.price <= line

\* In percent of the close: at most -3, and at most 2 less than the industry.
DailyDrop(p) == Quoted(p) /\ Close(p) # None /\ 100 * (p.price - p.close) <= -3 * p.close
Underperforms(in, p) ==
    /\ Quoted(p) /\ Close(p) # None /\ Industry(in, p) # None
    /\ 100 * (p.price - p.close) <= (p.industry - 2) * p.close

\* calculate_position_risk
Sized(in, c) == in.positions[c].shares # None /\ in.account.twin # c
MarketValue(in, c) ==
    LET p == in.positions[c]
    IN  IF Quoted(p) /\ Sized(in, c) THEN p.price * p.shares ELSE None
StopRisk(in, c) ==
    LET p == in.positions[c]
    IN  IF MarketValue(in, c) = None \/ p.stop2 = None THEN None
        ELSE IF p.price > p.stop2 THEN (p.price - p.stop2) * p.shares ELSE 0
\* The denominator of the budget.
RiskValue(in) == IF in.account.unscoped THEN None ELSE in.account.value

-----------------------------------------------------------------------------
\* Tiers: which price target applies, and what is wrong with the stored state.
Tiered(p) == p.path # None \/ p.framework \in {"A", "E", "F"}
TierBroken(p) ==
    \/ p.tier1 = None \/ ~p.laterTiers \/ (p.path # None /\ p.exemption)
    \/ p.path = "A"
    \/ p.path = "B" /\ p.target = None
TierTarget(p) == IF p.path = "B" THEN p.target
                 ELSE IF p.path # "A" /\ p.tier1 = "pending" THEN 25 ELSE None
TierGap(p) ==
    Tiered(p) /\ (TierBroken(p) \/ (TierTarget(p) # None /\ p.reference = None))
TierReached(p) ==
    /\ Tiered(p) /\ ~TierGap(p) /\ TierTarget(p) # None /\ Quoted(p)
    /\ 100 * p.price >= p.reference * (100 + TierTarget(p))

\* _l3_view
Versioned(p) == p.theses = 1 /\ p.conditions = 1
L3Gap(p) == ~Versioned(p) \/ ~p.valid \/ p.review = "undatable"
\* Mutant: a condition that waits to be verified counts as resolved.
L3Unresolved_Pending(p) == L3Gap(p)
L3Unresolved(p) == L3Gap(p) \/ p.state = "pending"
\* Only a valid condition may ask for a trade; the others ask for a look.
L3Trades(p) == Versioned(p) /\ p.state = "triggered" /\ p.valid /\ p.exits

\* The stored gates, when there is a row that is readable and not expired.
GateStatus(c, p) ==
    IF rows[c] = None THEN "incomplete"
    ELSE IF Expired(c) \/ ~p.readable THEN "incomplete"
    ELSE Aggregate(rows[c].regulatory.status, rows[c].roe.status, rows[c].cash.status)
RowExpired(c) == IF rows[c] = None THEN FALSE ELSE Expired(c)

-----------------------------------------------------------------------------
\* data_gaps of one code, by field.
Missing(in, c) ==
    LET p == in.positions[c]
    IN  {field \in {"shares", "framework", "stop_loss_15", "stop_loss_20", "quote", "stop_risk",
                    "previous_close", "industry_change_pct", "p3_liquidity_gate", "tier",
                    "alert.review_due", "l3", "governance_gates", "active_holding"} :
            CASE field = "shares" -> p.shares = None
              [] field = "framework" -> p.framework = None \/ ~p.sure
              [] field = "stop_loss_15" -> p.stop1 = None
              [] field = "stop_loss_20" -> p.stop2 = None
              [] field = "quote" -> ~Quoted(p)
              [] field = "stop_risk" -> StopRisk(in, c) = None
              [] field = "previous_close" -> Close(p) = None
              [] field = "industry_change_pct" -> Quoted(p) /\ Industry(in, p) = None
              [] field = "p3_liquidity_gate" -> Reached(p, p.stop2)
              [] field = "tier" -> TierGap(p)
              [] field = "alert.review_due" -> p.alert = "undatable"
              [] field = "l3" -> L3Gap(p)
              [] field = "governance_gates" ->
                     ~p.readable \/ RowExpired(c) \/ GateStatus(c, p) = "incomplete"
              [] OTHER -> in.account.twin = c}

\* The industries are read for holdings only.
IndustryStatus(in) == IF Held(in) = {} THEN "not_applicable" ELSE in.account.industries
Degraded(in) == IndustryStatus(in) \in {"stale", "invalid", "unavailable"}
AccountMissing(in) ==
    {field \in {"portfolio_value", "account_scope", "industry_context"} :
        CASE field = "portfolio_value" -> in.account.value = None
          [] field = "account_scope" -> in.account.unscoped
          [] OTHER -> Degraded(in)}
Gaps(in) == {<<None, field>> : field \in AccountMissing(in)}
            \cup UNION {{<<c, field>> : field \in Missing(in, c)} : c \in Held(in)}

\* A stale quote and a doubled position have a status of their own instead of "partial".
Partial(in, gaps) ==
    \/ \E gap \in gaps : gap[2] \notin {"quote", "active_holding"}
    \/ \E c \in Held(in) :
           in.positions[c].quote \in {"untimed", "none"} \/ L3Unresolved(in.positions[c])
Stale(in) ==
    \/ IndustryStatus(in) = "stale"
    \/ \E c \in Held(in) : in.positions[c].quote = "stale" \/ RowExpired(c)
Conflicted(in) == in.account.twin \in Held(in)

-----------------------------------------------------------------------------
\* risk_budget.assess: a breach counts even while the total is not known.
Total(amount) == MapThenSumSet(LAMBDA c : amount[c], DOMAIN amount)
KnownRisk(in) ==
    Total([c \in Held(in) |-> IF StopRisk(in, c) = None THEN 0 ELSE StopRisk(in, c)])
RiskTotal(in) == IF \E c \in Held(in) : StopRisk(in, c) = None THEN None ELSE KnownRisk(in)
Breaches(in) ==
    IF RiskValue(in) = None THEN {}
    ELSE {c \in Held(in) : IF StopRisk(in, c) = None THEN FALSE
                           ELSE 100 * StopRisk(in, c) > PositionLimit * RiskValue(in)}
         \cup (IF 100 * KnownRisk(in) > in.account.portfolioLimit * RiskValue(in)
               THEN {None} ELSE {})
Budget(in) == IF Breaches(in) # {} THEN "over_budget"
              ELSE IF RiskTotal(in) # None /\ RiskValue(in) # None THEN "within_budget" ELSE None

\* escalations of one code, by reason.
Reasons(in, c) ==
    LET p == in.positions[c]
    IN  {reason \in {"data_conflict", "quote_gap", "price_stop_2", "price_stop_1", "daily_drop",
                     "relative_underperformance", "tier_review_due", "alert_review_due",
                     "l3_candidate", "l3_review_due", "l3_watch", "governance_gate"} :
            CASE reason = "data_conflict" -> in.account.twin = c
              [] reason = "quote_gap" -> ~Quoted(p)
              [] reason = "price_stop_2" -> Reached(p, p.stop2)
              [] reason = "price_stop_1" -> Reached(p, p.stop1) /\ ~Reached(p, p.stop2)
              [] reason = "daily_drop" -> DailyDrop(p)
              [] reason = "relative_underperformance" -> Underperforms(in, p)
              [] reason = "tier_review_due" -> TierGap(p) \/ TierReached(p)
              [] reason = "alert_review_due" -> p.alert = "due"
              [] reason = "l3_candidate" ->
                     L3Unresolved(p) \/ (p.conditions = 1 /\ p.state = "triggered")
              [] reason = "l3_review_due" -> Versioned(p) /\ p.review = "due"
              [] reason = "l3_watch" -> p.conditions = 1 /\ p.state = "watch"
              [] OTHER -> GateStatus(c, p) # "clear"}
Escalations(in) ==
    (UNION {{<<c, reason>> : reason \in Reasons(in, c)} : c \in Held(in)})
    \cup {<<c, "risk_budget_exceeded">> : c \in Breaches(in)}
    \cup (IF RiskValue(in) = None THEN {<<None, "denominator_missing">>} ELSE {})
\* Whose escalations name a trade.  P3 never has enough to let a stop line ask for it.
Trades(in) == {c \in Held(in) : L3Trades(in.positions[c])}
TradeEscalations(in) ==
    Trades(in) \cup {c \in Held(in) : Reached(in.positions[c], in.positions[c].stop2)}

\* build_monitor_snapshot, without the cards of Research.
Combined(in) ==
    LET active == Rows(in, Held(in))
        priced == Rows(in, {c \in Held(in) : Quoted(in.positions[c])})
        valued == Cardinality({c \in Held(in) : MarketValue(in, c) # None})
        budget == Budget(in)
        gaps == Gaps(in)
        escalations == Escalations(in)
        data == IF active > 0 /\ priced = 0 /\ ~Stale(in) /\ ~Conflicted(in) THEN "unavailable"
                ELSE IF Conflicted(in) THEN "conflicted"
                ELSE IF Stale(in) THEN "stale"
                ELSE IF Partial(in, gaps) THEN "partial" ELSE "complete"
        valuation == IF valued = active THEN "exact"
                     ELSE IF valued > 0 THEN "priced_positions_lower_bound" ELSE "unavailable"
        review == IF data \in {"stale", "unavailable", "conflicted"} THEN "blocked"
                  ELSE IF data = "partial" \/ escalations # {} \/ budget = None
                  THEN "review_required" ELSE "cleared"
        action == IF Trades(in) # {} /\ data = "complete" THEN "trade_candidate"
                  ELSE IF review # "cleared" THEN "review_candidate" ELSE "no_action"
    IN  [data |-> data, valuation |-> valuation, review |-> review, action |-> action,
         budget |-> budget, priced |-> priced, active |-> active,
         gaps |-> gaps, escalations |-> escalations,
         clean |-> /\ data = "complete" /\ valuation = "exact" /\ review = "cleared"
                   /\ action = "no_action" /\ budget = "within_budget" /\ priced = active
                   /\ escalations = {} /\ gaps = {}]

\* fetch_cards and _with_research: a card of a holding that is to be reviewed ends the
\* clean fast path.
Pending(in) == IF in.account.research # "ok" THEN {}
               ELSE {c \in Held(in) : in.positions[c].card = "to review"}
Reviewed(in, s) ==
    [s EXCEPT !.escalations = @ \cup {<<c, "research_thesis_review">> : c \in Pending(in)},
              !.review = IF @ = "cleared" THEN "review_required" ELSE @,
              !.action = IF @ = "no_action" THEN "review_candidate" ELSE @]
\* Mutant: the stop reason of the fast path survives.
WithResearch_KeepsClean(in, s) == IF Pending(in) = {} THEN s ELSE Reviewed(in, s)
WithResearch(in, s) ==
    IF Pending(in) = {} THEN s ELSE [Reviewed(in, s) EXCEPT !.clean = FALSE]
Snapshot(in) == WithResearch(in, Combined(in))

-----------------------------------------------------------------------------
\* validate_monitor_snapshot, the parts that relate fields.
Of(s, reason) == {e[1] : e \in {x \in s.escalations : x[2] = reason}}
AccountOk(in, s) ==
    /\ s.budget # None => in.account.value # None
    /\ s.budget = "within_budget" => RiskTotal(in) # None /\ RiskValue(in) # None
    /\ in.account.unscoped => s.budget = None
CoverageOk(s) == s.priced <= s.active
HoldingsOk(in, s) ==
    \A c \in Held(in) :
        /\ in.positions[c].named /\ in.positions[c].framework # None
        /\ s.budget = "within_budget" =>
               MarketValue(in, c) # None /\ StopRisk(in, c) # None /\ RiskValue(in) # None
ThesisOk(in, s) ==
    /\ Of(s, "research_thesis_review") = Pending(in)
    /\ Pending(in) # {} => s.review # "cleared"
BudgetOk(in, s) ==
    LET over == Of(s, "risk_budget_exceeded")
        at(c) == IF StopRisk(in, c) = None THEN FALSE ELSE StopRisk(in, c) > 0
    IN  /\ over \subseteq Held(in) \cup {None}
        /\ over # {} => s.budget = "over_budget" /\ KnownRisk(in) > 0
        /\ \A c \in over : \E d \in Held(in) : (c = None \/ d = c) /\ at(d)
        /\ s.budget = "over_budget" =>
               over # {} /\ s.review # "cleared" /\ s.action # "no_action" /\ ~s.clean
        /\ Held(in) # {} /\ s.budget = None => s.review # "cleared" /\ s.action # "no_action"
ActionOk(in, s) ==
    /\ s.action = "no_action" \/ s.review = "cleared" => s.clean
    /\ s.action = "no_action" => s.data = "complete"
    /\ s.action = "trade_candidate" => TradeEscalations(in) # {}
    /\ Degraded(in) => <<None, "industry_context">> \in s.gaps
CleanOk(in, s) ==
    s.clean =>
        /\ s.data = "complete" /\ s.valuation = "exact" /\ s.review = "cleared"
        /\ s.action = "no_action" /\ s.escalations = {} /\ s.gaps = {} /\ s.priced = s.active
        /\ s.budget = "within_budget" /\ in.account.value # None
        /\ \A c \in Held(in) :
               LET p == in.positions[c]
               IN  Quoted(p) /\ p.price > 0 /\ p.stop2 # None /\ p.shares # None
                   /\ MarketValue(in, c) # None /\ StopRisk(in, c) # None
ValidSnapshot(in, s) ==
    /\ AccountOk(in, s) /\ CoverageOk(s) /\ HoldingsOk(in, s) /\ ThesisOk(in, s)
    /\ BudgetOk(in, s) /\ ActionOk(in, s) /\ CleanOk(in, s)

NextInputs == IF MaxOddInputs - Odd \in 0..MaxOddInputs THEN InputsWithin[MaxOddInputs - Odd] ELSE {}

-----------------------------------------------------------------------------
\* build_monitor_snapshot and validate_monitor_snapshot were written apart, and a
\* snapshot that fails its contract is not printed at all.  Only a holding without
\* a name or a framework makes the contract refuse a snapshot, whatever else is
\* missing, stale, doubled, over budget or to be reviewed.
Anonymous(in) ==
    \E c \in Held(in) : ~in.positions[c].named \/ in.positions[c].framework = None
OnlyNamelessRefused ==
    \A in \in NextInputs : ValidSnapshot(in, Snapshot(in)) \/ Anonymous(in)

\* A clean snapshot ends the day's work without a look, so it must rest on facts
\* throughout: every position is sized, quoted today above its stops, and judged on
\* an unexpired row with a clean record, kept returns and earned cash; its thesis is
\* verified, nothing is due, no card waits, and the risk fits both limits.  A trade
\* is proposed only where one thesis has a complete condition for it that was
\* triggered, and never while any position of the account lacks a quote of today, a
\* size, a stop, a verified condition or a decided judgement (clean_fast_gate and
\* action_status).
AtRest(in, c) ==
    LET p == in.positions[c]
    IN  /\ p.framework # None /\ p.sure /\ p.shares # None
        /\ p.quote = "fresh" /\ p.stop1 # None /\ p.stop2 # None
        /\ p.price > p.stop1 /\ p.price > p.stop2
        /\ p.theses = 1 /\ p.conditions = 1 /\ p.valid /\ p.state = "not_triggered"
        /\ p.review = "later" /\ p.alert \in {"none", "open"}
        /\ ~(in.account.research = "ok" /\ p.card = "to review")
        /\ rows[c] # None /\ rows[c].written + Ttl >= today /\ p.readable
        /\ rows[c].evidence # None /\ CleanRecord(rows[c].evidence)
        /\ KeepsReturns(rows[c].facts) /\ EarnsCash(rows[c].facts)
        /\ 100 * (p.price - p.stop2) * p.shares <= PositionLimit * in.account.value
AllAtRest(in) ==
    /\ in.account.value # None /\ ~in.account.unscoped /\ in.account.twin \notin Held(in)
    /\ Held(in) = {} \/ in.account.industries = "complete"
    /\ \A c \in Held(in) : AtRest(in, c)
    /\ 100 * Total([c \in Held(in) |-> (in.positions[c].price - in.positions[c].stop2)
                                       * in.positions[c].shares])
           <= in.account.portfolioLimit * in.account.value
Decided(in, c) ==
    LET p == in.positions[c]
        breached == "blocked" \in {rows[c].regulatory.status, rows[c].roe.status, rows[c].cash.status}
    IN  /\ p.quote = "fresh" /\ p.shares # None /\ p.stop2 # None /\ p.price > p.stop2
        /\ p.state # "pending"
        /\ rows[c] # None /\ rows[c].written + Ttl >= today
        /\ breached \/ (/\ rows[c].evidence # None /\ CleanRecord(rows[c].evidence)
                        /\ KeepsReturns(rows[c].facts) /\ EarnsCash(rows[c].facts))
TradeCalled(in) ==
    /\ \E c \in Held(in) :
           LET p == in.positions[c]
           IN  p.theses = 1 /\ p.conditions = 1 /\ p.valid /\ p.exits /\ p.state = "triggered"
    /\ in.account.value # None /\ in.account.twin \notin Held(in)
    /\ \A c \in Held(in) : Decided(in, c)
ConclusionIsEarned ==
    \A in \in NextInputs :
        LET s == Snapshot(in)
        IN  /\ s.clean => AllAtRest(in)
            /\ s.action = "trade_candidate" => TradeCalled(in)
=============================================================================
