------------------------------ MODULE RiskGates ------------------------------
(***************************************************************************)
(* The risk gates (risk_gates.py): pure functions from facts to a verdict. *)
(* The regulatory gate (P0) judges supplied evidence under the dated rule  *)
(* of a board, the ROE gate (P1) and the cash flow gate (P2) judge the     *)
(* statements, and the three verdicts aggregate into one.  The liquidity   *)
(* gate (P3) is part of Deferral.                                          *)
(*                                                                         *)
(* A fact is None when it is missing.  A list of sources is known by its   *)
(* class: "official", "mirror" (of company-filed statements), "other" or   *)
(* "none".  Amounts are small integers that keep every threshold and its   *)
(* boundary.  Caller-supplied verdicts (_provided_check) cannot come in    *)
(* through a command of the runtime: regulatory_evidence_gate refuses      *)
(* them and the fetcher never writes any, so they are left out.            *)
(***************************************************************************)
EXTENDS Integers, FiniteSets

CONSTANTS
    None,           \* a missing fact
    RuleReviewAfter \* last day on which the configured rules count as reviewed

\* FRAMEWORKS, by their letters, and the boards.  The exchange in Beijing has no
\* dividend red line.
Frameworks == {"A", "B", "C", "D", "E", "F"}
Boards == {"SSE main", "SSE star", "SZSE main", "SZSE chinext", "BSE"}

ASSUME NoneAssumption == None \notin Int \cup Frameworks \cup Boards
ASSUME ReviewAssumption == RuleReviewAfter \in Int

Opt(S) == S \cup {None}

Statuses == {"clear", "blocked", "incomplete", "review_required", "not_applicable"}
Sources == {"official", "mirror", "other", "none"}
Official(sources) == sources = "official"
OfficialOrMirror(sources) == sources \in {"official", "mirror"}

-----------------------------------------------------------------------------
\* REGULATORY_RULES.
Shenzhen == {"SZSE main", "SZSE chinext"}
DividendAmount(board) == IF board \in {"SSE main", "SZSE main"} THEN 5 ELSE 3
\* A ratio of 0.30.
DividendRatioMet(dividends, profit) == 10 * dividends >= 3 * profit
\* evaluate_rule_freshness; the metadata of the configured rules is valid.
RuleCurrent(board, day) == board # None /\ day <= RuleReviewAfter

\* The facts of P0.  board is the rule that the stated exchange and board name;
\* stated is FALSE when they are left to the prefix of the code.
Evidence == [
    listing : Opt({"normal", "flagged"}),
    financial : Opt({"clean", "qualified"}),
    control : Opt({"clean", "adverse", "undisclosed"}),
    note : BOOLEAN,                        \* going concern, emphasis, misstatement
    probe : Opt({"none", "company", "person", "person with impact"}),
    stated : BOOLEAN, board : Opt(Boards),
    profit : Opt(Int), parentProfit : Opt(Int), groupProfit : Opt(Int),
    dividends : Opt(Int), meanProfit : Opt(Int), exempt : BOOLEAN,
    sources : Sources, dated : BOOLEAN]
ASSUME EvidenceAssumption == None \notin Evidence

\* _base_check: a verdict needs a date and official sources.
Checked(status, f) ==
    IF status \in {"clear", "blocked"} /\ ~(f.dated /\ Official(f.sources))
    THEN "incomplete" ELSE status

ListingRisk(f) ==
    Checked(CASE f.listing = "flagged" -> "blocked"
              [] f.listing = "normal" -> "clear"
              [] OTHER -> "incomplete", f)

AuditOpinion(f) ==
    Checked(IF f.financial = "qualified" \/ f.control \in {"adverse", "undisclosed"}
            THEN "blocked"
            ELSE IF ~f.note /\ f.financial = "clean" /\ f.control = "clean"
            THEN "clear" ELSE "incomplete", f)

Investigation(f) ==
    Checked(CASE f.probe \in {"company", "person with impact"} -> "blocked"
              [] f.probe = "none" -> "clear"
              [] OTHER -> "incomplete", f)

DividendCompliance(f, board) ==
    LET preconditions == {f.profit, f.parentProfit}
                         \cup (IF board \in Shenzhen THEN {f.groupProfit} ELSE {})
        met == DividendRatioMet(f.dividends, f.meanProfit)
               \/ f.dividends >= DividendAmount(board) \/ f.exempt
    IN  Checked(IF board = None THEN "incomplete"
                ELSE IF board = "BSE" THEN "not_applicable"
                ELSE IF None \in preconditions THEN "incomplete"
                ELSE IF \E x \in preconditions : x <= 0 THEN "not_applicable"
                ELSE IF None \in {f.dividends, f.meanProfit} THEN "incomplete"
                ELSE IF met THEN "clear" ELSE "blocked", f)

\* regulatory_gate; candidate is the board that the prefix of the code suggests.
RegulatoryGate(f, candidate, day) ==
    LET board == IF f.stated THEN f.board ELSE candidate
        checks == {ListingRisk(f), AuditOpinion(f), Investigation(f),
                   DividendCompliance(f, board)}
        proven == f.stated /\ f.dated /\ Official(f.sources) /\ RuleCurrent(board, day)
    IN  [status |-> IF "blocked" \in checks THEN "blocked"
                    ELSE IF "incomplete" \in checks \/ ~proven THEN "incomplete"
                    ELSE "clear",
         checks |-> checks, ruled |-> board # None,
         sources |-> f.sources, dated |-> f.dated]

-----------------------------------------------------------------------------
\* What a fetch finds: the facts of P1 and P2, from the statements of one company.
\* meanRoe needs five years.  No adapter supplies the dividends paid, so the
\* coverage is what a review states.
Statement == [
    roe : Opt(Int), meanRoe : Opt(Int), cfo : Opt(Int), capex : Opt(Int),
    roeSources : Sources, roeDated : BOOLEAN,
    cashSources : Sources, cashDated : BOOLEAN,
    financial : BOOLEAN,                   \* the industry is banking or the like
    business : BOOLEAN]                    \* every ordinary field has a value

\* ROE in the twelve months against the mean of five years; at least 0.75 of it.
RoeGate(f) ==
    LET judged == IF f.roe = None THEN "incomplete"
                  ELSE IF f.roe < 0 THEN "blocked"
                  ELSE IF f.meanRoe = None THEN "incomplete"
                  ELSE IF f.meanRoe <= 0 THEN "incomplete"
                  ELSE IF 4 * f.roe < 3 * f.meanRoe THEN "blocked" ELSE "clear"
        proven == f.roeDated /\ OfficialOrMirror(f.roeSources)
    IN  [status |-> IF judged \in {"clear", "blocked"} /\ ~proven
                    THEN "incomplete" ELSE judged,
         sources |-> f.roeSources, dated |-> f.roeDated]

\* A review of capital expenditure beyond the cash flow, supplied by hand; fits:
\* the type (and for C and D the stage of the cycle) is one that may exceed it.
Review == [complete : BOOLEAN, sources : Sources, fits : BOOLEAN,
           coverage : Opt(Int),            \* C and D, in percent of the dividends
           roe : Opt(Int)]                 \* A, in percent

CycleReview(review) ==
    IF review = None THEN "review_required"
    ELSE IF ~review.complete \/ ~Official(review.sources) \/ review.coverage = None
    THEN "incomplete"
    ELSE IF ~review.fits \/ review.coverage < 100 THEN "blocked" ELSE "clear"

\* The expansion exception of A: ROE of 15, capital expenditure up to 1.25 of the flow.
ExpansionReview(review, f) ==
    IF review = None THEN "blocked"
    ELSE IF ~review.complete \/ ~OfficialOrMirror(review.sources) \/ review.roe = None
    THEN "incomplete"
    ELSE IF ~review.fits \/ review.roe < 15 \/ 4 * f.capex > 5 * f.cfo
    THEN "blocked" ELSE "clear"

\* cash_flow_gate; framework is None where none is known yet.
CashReasons == {"financial", "input", "no cash", "covered", "framework", "review", "capex", "source"}
CashGate(f, framework, review) ==
    LET proven == f.cashDated /\ OfficialOrMirror(f.cashSources)
        spent == f.capex > f.cfo
        verdict(status, reason) ==
            [status |-> status, reason |-> reason,
             sources |-> f.cashSources, dated |-> f.cashDated]
    IN  IF framework = "B" \/ f.financial THEN verdict("not_applicable", "financial")
        ELSE IF None \in {f.cfo, f.capex} \/ ~proven THEN verdict("incomplete", "input")
        ELSE IF f.cfo <= 0 THEN verdict("blocked", "no cash")
        ELSE IF ~spent THEN verdict("clear", "covered")
        ELSE IF framework = None THEN verdict("incomplete", "framework")
        ELSE IF framework \in {"C", "D"} THEN verdict(CycleReview(review), "review")
        ELSE IF framework = "A" THEN verdict(ExpansionReview(review, f), "review")
        ELSE verdict("blocked", "capex")

-----------------------------------------------------------------------------
\* aggregate_fundamentals_gates over the statuses that a row stores.
Aggregate(regulatory, roe, cash) ==
    IF "blocked" \in {regulatory, roe, cash} THEN "blocked"
    ELSE IF regulatory = "clear" /\ roe = "clear" /\ cash \in {"clear", "not_applicable"}
    THEN "clear" ELSE "incomplete"

\* A gate that leaves nothing to be done.
Complete(status) == status \in {"clear", "not_applicable"}
=============================================================================
