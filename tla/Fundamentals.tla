----------------------------- MODULE Fundamentals -----------------------------
(***************************************************************************)
(* The stored fundamentals as evidence for a decision: what a-stock-fetch  *)
(* derives from the statements (fetcher.py), what the store accepts        *)
(* (store.py), how supplied regulatory evidence is judged, kept and judged *)
(* again on a later fetch, and what score-fundamentals makes of a row      *)
(* (commands_analysis.py).                                                 *)
(*                                                                         *)
(* The commands' database steps are single write transactions, so each     *)
(* command is one action here; ResearchCache models their interleavings    *)
(* and Fetcher the provider calls.  Verdicts given by hand, in a row that  *)
(* set stores or in the overrides of score-fundamentals, rest on no facts  *)
(* and are left out; the reviews among the overrides are not.              *)
(*                                                                         *)
(* Facts come from sets that the instance chooses, ordered by how odd they *)
(* are; what is stored is at most MaxOdd away from the ordinary.           *)
(* score-fundamentals, and a fetch that ends without an annual period or   *)
(* with a payload that the store refuses, write nothing.                   *)
(***************************************************************************)
EXTENDS RiskGates, FiniteSetsExt

CONSTANTS
    Codes,
    Candidate,   \* the board that the prefix of each code suggests
    Ttl,         \* days until a row expires
    ReportDay,   \* the day on which the next annual report is out
    MaxDay,      \* bound: days
    MaxOdd,      \* bound: how far from the ordinary the stored facts are together
    EvidenceWithin, StatementsWithin, \* what may come in, by how odd it is
    Reviews      \* reviews of capital expenditure that may be supplied

ASSUME FundamentalsAssumption ==
    /\ Candidate \in [Codes -> Opt(Boards)]
    /\ Ttl \in Nat /\ MaxDay \in Nat /\ MaxOdd \in Nat /\ ReportDay \in Nat
    /\ EvidenceWithin \in [0..MaxOdd -> SUBSET Evidence]
    /\ StatementsWithin \in [0..MaxOdd -> SUBSET Statement]
    /\ None \in Reviews /\ Reviews \subseteq Opt(Review)

VARIABLES
    today,
    rows     \* stock_fundamentals: by code, what is stored, or None

vars == <<today, rows>>

-----------------------------------------------------------------------------
\* The payload of a row.  "business" stands for its ordinary fields; reasons and
\* missing are the fields that null_reasons and field_provenance call missing.
Gates == {"regulatory_gate", "roe_structural_gate", "cash_flow_gate"}
Fields == Gates \cup {"business"}
Lacking(p) ==
    {name \in Fields :
        CASE name = "regulatory_gate" -> ~Complete(p.regulatory.status)
          [] name = "roe_structural_gate" -> ~Complete(p.roe.status)
          [] name = "cash_flow_gate" -> ~Complete(p.cash.status)
          [] OTHER -> ~p.facts.business}

\* validate_gate_payload, as far as a gate of the runtime could fail it.
ValidGate(gate, allowed, trusted) ==
    /\ gate.status \in allowed
    /\ gate.sources # "none" /\ gate.dated
    /\ Complete(gate.status) => gate.sources \in trusted
ValidPayload(p) ==
    /\ ValidGate(p.regulatory, {"clear", "blocked", "incomplete"}, {"official"})
    /\ p.regulatory.ruled
    /\ p.regulatory.status = "clear" => p.regulatory.checks \subseteq {"clear", "not_applicable"}
    /\ ValidGate(p.roe, {"clear", "blocked", "incomplete"}, {"official", "mirror"})
    /\ ValidGate(p.cash, Statuses, {"official", "mirror"})
    /\ p.missing = Lacking(p) /\ p.reasons = Lacking(p)

\* _cache_gate_defaults.  Without evidence P0 stays incomplete; a gate without
\* sources or date is given the quote's.
NoEvidence ==
    [listing |-> None, financial |-> None, control |-> None, note |-> FALSE, probe |-> None,
     stated |-> FALSE, board |-> None, profit |-> None, parentProfit |-> None,
     groupProfit |-> None, dividends |-> None, meanProfit |-> None, exempt |-> FALSE,
     sources |-> "other", dated |-> TRUE]
Defaulted(gate) == [gate EXCEPT !.sources = IF @ = "none" THEN "other" ELSE @, !.dated = TRUE]
Judged(c, e) == RegulatoryGate(e, Candidate[c], today)
DefaultRegulatory(c) == [Defaulted(Judged(c, NoEvidence)) EXCEPT !.ruled = TRUE]
\* Mutant: a bank whose cash flow statement is missing passes without a source.
CashDefault_Trusting(gate) == Defaulted(gate)
CashDefault(gate) ==
    IF gate.status = "not_applicable" /\ ~OfficialOrMirror(gate.sources)
    THEN [Defaulted(gate) EXCEPT !.status = "incomplete", !.reason = "source"]
    ELSE Defaulted(gate)

\* The newest annual report, the period of a row.
Annual == IF today < ReportDay THEN 1 ELSE 2

\* _build_cache_payload
Payload(c, s) ==
    LET p == [period |-> Annual, facts |-> s, evidence |-> None,
              regulatory |-> DefaultRegulatory(c), roe |-> Defaulted(RoeGate(s)),
              cash |-> CashDefault(CashGate(s, None, None)), missing |-> {}, reasons |-> {},
              written |-> today]
    IN  [p EXCEPT !.missing = Lacking(p), !.reasons = Lacking(p)]

\* apply_regulatory_gate, and the evidence facts within the gate.
ApplyRegulatory(p, gate, e) ==
    LET clear == gate.status = "clear"
        mark(names) == IF clear THEN names \ {"regulatory_gate"} ELSE names \cup {"regulatory_gate"}
    IN  [p EXCEPT !.regulatory = gate, !.evidence = e,
                  !.missing = mark(@), !.reasons = mark(@)]

\* carry_forward_regulatory_gate: decided evidence of the same annual period is
\* judged again under the current rule.
\* Mutant: the old verdict is kept as it was.
CarryForward_Verdict(c, p) ==
    LET old == rows[c]
    IN  IF old = None THEN p
        ELSE IF old.evidence # None /\ old.period = p.period
                /\ old.regulatory.status \in {"clear", "blocked"}
        THEN ApplyRegulatory(p, old.regulatory, old.evidence) ELSE p
CarryForward(c, p) ==
    LET old == rows[c]
    IN  IF old = None THEN p
        ELSE IF old.evidence # None /\ old.period = p.period
                /\ old.regulatory.status \in {"clear", "blocked"}
        THEN ApplyRegulatory(p, Judged(c, old.evidence), old.evidence) ELSE p

-----------------------------------------------------------------------------
\* How far the stored facts are from the ordinary ones.
Oddity(fact, within) == Min({k \in 0..MaxOdd : fact \in within[k]})
OddStatement(c) ==
    IF rows[c] = None THEN 0 ELSE Oddity(rows[c].facts, StatementsWithin)
OddEvidence(c) ==
    IF rows[c] = None THEN 0
    ELSE IF rows[c].evidence = None THEN 0 ELSE Oddity(rows[c].evidence, EvidenceWithin)
Odd == MapThenSumSet(LAMBDA c : OddStatement(c) + OddEvidence(c), Codes)
UpTo(within, room) == UNION {within[k] : k \in {j \in 0..MaxOdd : j <= room}}
NextStatements(c) == UpTo(StatementsWithin, MaxOdd - (Odd - OddStatement(c)))
NextEvidence(c) == UpTo(EvidenceWithin, MaxOdd - (Odd - OddEvidence(c)))

Expired(c) == today > rows[c].written + Ttl

NextDay == today < MaxDay /\ today' = today + 1 /\ UNCHANGED rows

\* fetch.  The carried evidence and the validation belong to the write transaction.
Fetched(c, s) == CarryForward(c, Payload(c, s))
Fetch(c) ==
    \E s \in NextStatements(c) :
        /\ ValidPayload(Fetched(c, s))
        /\ rows' = [rows EXCEPT ![c] = Fetched(c, s)]
        /\ UNCHANGED today

\* regulatory-evidence, for the period of the row; the row's age does not change.
RegulatoryEvidence(c) ==
    /\ rows[c] # None
    /\ \E e \in NextEvidence(c) :
        LET p == ApplyRegulatory(rows[c], Judged(c, e), e)
        IN  ValidPayload(p) /\ rows' = [rows EXCEPT ![c] = p]
    /\ UNCHANGED today

\* cleanup deletes what has expired.
Cleanup ==
    /\ rows' = [c \in Codes |-> IF rows[c] = None THEN None
                                ELSE IF Expired(c) THEN None ELSE rows[c]]
    /\ UNCHANGED today

-----------------------------------------------------------------------------
\* _cash_gate_for_framework: the framework that a fetch lacks, or a review, is
\* brought to the facts that the stored gate carries.
\* Mutant: a review is believed without a look at the facts.
CashGateFor_Reviewed(p, framework, review) ==
    IF framework = "B" \/ p.cash.reason = "framework"
    THEN CashGate(p.facts, framework, review)
    ELSE IF review # None THEN [p.cash EXCEPT !.status = CycleReview(review)] ELSE p.cash
CashGateFor(p, framework, review) ==
    IF framework = "B" \/ p.cash.reason = "framework" \/ review # None
    THEN CashGate([p.facts EXCEPT !.cashSources = p.cash.sources, !.cashDated = p.cash.dated],
                  framework, review)
    ELSE p.cash

\* What score-fundamentals, which writes nothing, makes of an unexpired row: P0 and
\* P2 decide about the score, P1 about the total.
ScoreOf(p, framework, review) ==
    IF ~Complete(p.regulatory.status) \/ ~Complete(CashGateFor(p, framework, review).status)
    THEN "not formed"
    ELSE IF p.roe.status = "clear" THEN "total" ELSE "subtotal"

Init == today = 0 /\ rows = [c \in Codes |-> None]

Next ==
    \/ NextDay \/ Cleanup
    \/ \E c \in Codes : Fetch(c) \/ RegulatoryEvidence(c)

Spec == Init /\ [][Next]_vars

-----------------------------------------------------------------------------
Verdicts == {"clear", "blocked", "incomplete"}   \* of P0
Row == [
    period : Nat, written : Nat, facts : Statement, evidence : Opt(Evidence),
    regulatory : [status : Verdicts, checks : SUBSET Statuses, ruled : BOOLEAN,
                  sources : Sources, dated : BOOLEAN],
    roe : [status : Statuses, sources : Sources, dated : BOOLEAN],
    cash : [status : Statuses, reason : CashReasons, sources : Sources, dated : BOOLEAN],
    missing : SUBSET Fields, reasons : SUBSET Fields]
TypeOK == today \in 0..MaxDay /\ rows \in [Codes -> Opt(Row)]

\* What P0, P1 and P2 mean, said about the facts and not about the gates.
CleanRecord(e) ==
    /\ e.listing = "normal" /\ e.financial = "clean" /\ e.control = "clean" /\ ~e.note
    /\ e.probe = "none"
    /\ e.stated /\ e.board # None /\ e.dated /\ e.sources = "official"
    /\ \/ e.board = "BSE" \/ e.exempt
       \/ None \notin {e.profit, e.parentProfit}
          /\ \/ e.profit <= 0 \/ e.parentProfit <= 0
             \/ e.board \in Shenzhen /\ e.groupProfit # None /\ e.groupProfit <= 0
             \/ None \notin {e.dividends, e.meanProfit}
                /\ \/ 10 * e.dividends >= 3 * e.meanProfit
                   \/ e.dividends >= (IF e.board \in {"SSE main", "SZSE main"} THEN 5 ELSE 3)
KeepsReturns(s) ==
    /\ None \notin {s.roe, s.meanRoe} /\ s.roe >= 0 /\ 4 * s.roe >= 3 * s.meanRoe
    /\ s.roeDated /\ s.roeSources \in {"official", "mirror"}
HasCash(s) ==
    None \notin {s.cfo, s.capex} /\ s.cfo > 0 /\ s.cashSources \in {"official", "mirror"}
EarnsCash(s) == s.financial \/ (HasCash(s) /\ s.capex <= s.cfo /\ s.cashDated)

\* Nothing that fetch builds is refused by the store's own validation, whatever the
\* providers delivered and whatever evidence it carries on (_build_cache_payload,
\* validate_fundamentals_payload).
PayloadAccepted == \A c \in Codes : \A s \in NextStatements(c) : ValidPayload(Fetched(c, s))

\* A judgement that clears a stock rests on facts: official and dated evidence
\* without a breach under a rule that is not due for review, and statements that
\* meet both redlines (aggregate_fundamentals_gates over what a command stored).
Cleared(p) == Aggregate(p.regulatory.status, p.roe.status, p.cash.status) = "clear"
NoBreachClears ==
    [][\A c \in Codes :
          rows'[c] # None /\ rows'[c] # rows[c] =>
              (Cleared(rows'[c]) =>
                  /\ today <= RuleReviewAfter
                  /\ rows'[c].evidence # None /\ CleanRecord(rows'[c].evidence)
                  /\ KeepsReturns(rows'[c].facts) /\ EarnsCash(rows'[c].facts))]_vars

\* A total is formed only from a clean record, kept returns and a cash flow that
\* covers the expenditure, or a review that allows it (cmd_score_fundamentals).
\* The date of the cash flow statement is not part of it: see the README.
Allowed(s, framework, review) ==
    /\ review # None
    /\ review.complete /\ review.fits /\ OfficialOrMirror(review.sources)
    /\ \/ framework = "A" /\ review.roe >= 15 /\ 4 * s.capex <= 5 * s.cfo
       \/ framework \in {"C", "D"} /\ Official(review.sources) /\ review.coverage >= 100
ScoreIsEarned ==
    \A c \in Codes, framework \in Frameworks, review \in Reviews :
        rows[c] # None => (ScoreOf(rows[c], framework, review) = "total" =>
            LET s == rows[c].facts
            IN  /\ rows[c].evidence # None /\ CleanRecord(rows[c].evidence) /\ KeepsReturns(s)
                /\ \/ framework = "B" \/ s.financial
                   \/ HasCash(s) /\ (s.capex <= s.cfo \/ Allowed(s, framework, review)))
=============================================================================
