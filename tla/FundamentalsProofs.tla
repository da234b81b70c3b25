-------------------------- MODULE FundamentalsProofs --------------------------
(***************************************************************************)
(* What a judgement rests on, for all codes, facts, reviews and bounds.    *)
(* The gates are first read backwards, one lemma for each: from a verdict  *)
(* to the facts behind it.  The inductive invariant then says of every     *)
(* stored row that its verdicts still follow from the facts it stores; the *)
(* next part adds what the store's validation asks of a row.  Then come    *)
(* the snapshots that Monitor builds over the rows: they need the          *)
(* invariant, what the inputs of a snapshot are, and that a total is at    *)
(* least each of its amounts.  The last part goes back to where the facts  *)
(* come from: the calls of Fetcher, for any number of processes.           *)
(***************************************************************************)
EXTENDS Monitor, Fetcher, FiniteSetTheorems, WellFoundedInduction, TLAPS

-----------------------------------------------------------------------------
\* A check is clear only if its judgement is, on dated official evidence.
LEMMA CheckedClear ==
    ASSUME NEW status, NEW f, Checked(status, f) = "clear"
    PROVE  status = "clear" /\ f.dated /\ f.sources = "official"
  BY DEF Checked, Official

LEMMA ListingClear ==
    ASSUME NEW f \in Evidence, ListingRisk(f) \notin {"blocked", "incomplete"}
    PROVE  f.listing = "normal" /\ f.dated /\ f.sources = "official"
  BY CheckedClear, NoneAssumption DEF ListingRisk, Checked, Official, Evidence, Opt

LEMMA AuditClear ==
    ASSUME NEW f \in Evidence, AuditOpinion(f) \notin {"blocked", "incomplete"}
    PROVE  f.financial = "clean" /\ f.control = "clean" /\ ~f.note
  BY DEF AuditOpinion, Checked, Official, Evidence, Opt

LEMMA InvestigationClear ==
    ASSUME NEW f \in Evidence, Investigation(f) \notin {"blocked", "incomplete"}
    PROVE  f.probe = "none"
  BY NoneAssumption DEF Investigation, Checked, Official, Evidence, Opt

\* The part of a clean record that the dividend rule of the board asks for.
DividendsDue(f) ==
    \/ f.board = "BSE" \/ f.exempt
    \/ None \notin {f.profit, f.parentProfit}
       /\ \/ f.profit <= 0 \/ f.parentProfit <= 0
          \/ f.board \in Shenzhen /\ f.groupProfit # None /\ f.groupProfit <= 0
          \/ None \notin {f.dividends, f.meanProfit}
             /\ \/ 10 * f.dividends >= 3 * f.meanProfit
                \/ f.dividends >= (IF f.board \in {"SSE main", "SZSE main"} THEN 5 ELSE 3)

LEMMA DividendsClear ==
    ASSUME NEW f \in Evidence, DividendCompliance(f, f.board) \notin {"blocked", "incomplete"}
    PROVE  f.board # None /\ DividendsDue(f)
<1> DEFINE preconditions == {f.profit, f.parentProfit}
                            \cup (IF f.board \in Shenzhen THEN {f.groupProfit} ELSE {})
           met == DividendRatioMet(f.dividends, f.meanProfit)
                  \/ f.dividends >= DividendAmount(f.board) \/ f.exempt
           verdict == IF f.board = None THEN "incomplete"
                      ELSE IF f.board = "BSE" THEN "not_applicable"
                      ELSE IF None \in preconditions THEN "incomplete"
                      ELSE IF \E x \in preconditions : x <= 0 THEN "not_applicable"
                      ELSE IF None \in {f.dividends, f.meanProfit} THEN "incomplete"
                      ELSE IF met THEN "clear" ELSE "blocked"
<1>1. DividendCompliance(f, f.board) = Checked(verdict, f)
  BY DEF DividendCompliance
<1>2. verdict \notin {"blocked", "incomplete"}
  BY <1>1 DEF Checked
<1>3. f.board # None
  BY <1>2
<1>4. CASE f.board = "BSE"
  BY <1>3, <1>4 DEF DividendsDue
<1>5. CASE f.board # "BSE" /\ \E x \in preconditions : x <= 0
  <2>1. None \notin preconditions
    BY <1>2, <1>3, <1>5
  <2>2. \/ f.profit <= 0 \/ f.parentProfit <= 0
        \/ f.board \in Shenzhen /\ f.groupProfit # None /\ f.groupProfit <= 0
    BY <1>5, <2>1
  <2>3. None \notin {f.profit, f.parentProfit}
    BY <2>1
  <2> QED BY <1>3, <2>2, <2>3 DEF DividendsDue
<1>6. CASE f.board # "BSE" /\ ~\E x \in preconditions : x <= 0
  <2>1. None \notin preconditions /\ None \notin {f.dividends, f.meanProfit} /\ met
    BY <1>2, <1>3, <1>6
  <2>2. \/ 10 * f.dividends >= 3 * f.meanProfit \/ f.exempt
        \/ f.dividends >= (IF f.board \in {"SSE main", "SZSE main"} THEN 5 ELSE 3)
    BY <2>1 DEF DividendRatioMet, DividendAmount
  <2> QED BY <1>3, <2>1, <2>2 DEF DividendsDue
<1> QED BY <1>3, <1>4, <1>5, <1>6

\* The regulatory gate is clear only on a clean record and a current rule.
LEMMA RegulatoryClear ==
    ASSUME NEW f \in Evidence, NEW candidate, NEW day,
           RegulatoryGate(f, candidate, day).status = "clear"
    PROVE  CleanRecord(f) /\ day <= RuleReviewAfter
<1> DEFINE board == IF f.stated THEN f.board ELSE candidate
           checks == {ListingRisk(f), AuditOpinion(f), Investigation(f),
                      DividendCompliance(f, board)}
<1>1. /\ "blocked" \notin checks /\ "incomplete" \notin checks
      /\ f.stated /\ f.dated /\ Official(f.sources) /\ RuleCurrent(board, day)
  BY DEF RegulatoryGate
<1>2. board = f.board
  BY <1>1
<1>3. DividendCompliance(f, f.board) \notin {"blocked", "incomplete"}
  BY <1>1, <1>2
<1>4. f.board # None /\ DividendsDue(f)
  BY <1>3, DividendsClear
<1>5. ListingRisk(f) \notin {"blocked", "incomplete"}
      /\ AuditOpinion(f) \notin {"blocked", "incomplete"}
      /\ Investigation(f) \notin {"blocked", "incomplete"}
  BY <1>1
<1>6. /\ f.listing = "normal" /\ f.financial = "clean" /\ f.control = "clean" /\ ~f.note
      /\ f.probe = "none"
  BY <1>5, ListingClear, AuditClear, InvestigationClear
<1>7. CleanRecord(f)
  BY <1>1, <1>4, <1>6 DEF CleanRecord, DividendsDue, Official
<1> QED BY <1>1, <1>7 DEF RuleCurrent

LEMMA RoeClear ==
    ASSUME NEW f \in Statement, RoeGate(f).status = "clear"
    PROVE  KeepsReturns(f)
  BY DEF RoeGate, KeepsReturns, OfficialOrMirror, Statement, Opt

\* P2 leaves nothing to be done only for a bank, covered expenditure, or a review.
LEMMA CashComplete ==
    ASSUME NEW f \in Statement, NEW framework, NEW review, review \in Opt(Review),
           Complete(CashGate(f, framework, review).status)
    PROVE  \/ framework = "B" \/ f.financial
           \/ /\ HasCash(f) /\ f.cashDated
              /\ f.capex <= f.cfo \/ (framework # None /\ Allowed(f, framework, review))
<1>1. CASE framework = "B" \/ f.financial
  BY <1>1
<1>2. CASE framework # "B" /\ ~f.financial
  <2>1. None \notin {f.cfo, f.capex} /\ f.cashDated /\ OfficialOrMirror(f.cashSources)
    BY <1>2 DEF CashGate, Complete
  <2>2. f.cfo \in Int /\ f.capex \in Int
    BY <2>1 DEF Statement, Opt
  <2>3. f.cfo > 0
    BY <1>2, <2>1, <2>2 DEF CashGate, Complete
  <2>4. HasCash(f) /\ f.cashDated
    BY <2>1, <2>3 DEF HasCash, OfficialOrMirror
  <2>5. CASE f.capex <= f.cfo
    BY <2>4, <2>5
  <2>6. CASE f.capex > f.cfo
    <3>1. framework # None /\ framework \in {"A", "C", "D"}
      BY <1>2, <2>1, <2>2, <2>3, <2>6 DEF CashGate, Complete
    <3>2. CASE framework = "A"
      <4>1. Complete(ExpansionReview(review, f))
        BY <1>2, <2>1, <2>2, <2>3, <2>6, <3>1, <3>2 DEF CashGate
      <4>2. /\ review # None /\ review.complete /\ review.fits
            /\ OfficialOrMirror(review.sources) /\ review.roe # None
            /\ ~(review.roe < 15) /\ ~(4 * f.capex > 5 * f.cfo)
        BY <4>1 DEF ExpansionReview, Complete
      <4>3. review.roe \in Int
        BY <4>2 DEF Review, Opt
      <4> QED BY <2>2, <2>4, <3>1, <3>2, <4>2, <4>3 DEF Allowed
    <3>3. CASE framework \in {"C", "D"}
      <4>1. Complete(CycleReview(review))
        BY <1>2, <2>1, <2>2, <2>3, <2>6, <3>1, <3>3 DEF CashGate
      <4>2. /\ review # None /\ review.complete /\ review.fits
            /\ Official(review.sources) /\ review.coverage # None /\ ~(review.coverage < 100)
        BY <4>1 DEF CycleReview, Complete
      <4>3. review.coverage \in Int
        BY <4>2 DEF Review, Opt
      <4> QED BY <2>2, <2>4, <3>1, <3>3, <4>2, <4>3 DEF Allowed, Official, OfficialOrMirror
    <3> QED BY <3>1, <3>2, <3>3
  <2> QED BY <2>2, <2>5, <2>6
<1> QED BY <1>1, <1>2

-----------------------------------------------------------------------------
\* The invariant: what a row stores says of its facts, and the source and the date
\* that its cash flow gate shows.
Sound(p) ==
    /\ p.regulatory.status = "clear" => p.evidence # None /\ CleanRecord(p.evidence)
    /\ p.roe.status = "clear" => KeepsReturns(p.facts)
    /\ Complete(p.cash.status) => EarnsCash(p.facts)
    /\ p.cash.sources = (IF p.facts.cashSources = "none" THEN "other" ELSE p.facts.cashSources)
RowsSound == \A c \in Codes : rows[c] # None => Sound(rows[c])
Inv == TypeOK /\ RowsSound

LEMMA Inputs ==
    ASSUME NEW c \in Codes
    PROVE  NextStatements(c) \subseteq Statement /\ NextEvidence(c) \subseteq Evidence
  BY FundamentalsAssumption DEF NextStatements, NextEvidence, UpTo

Regulated == [status : Verdicts, checks : SUBSET Statuses, ruled : BOOLEAN,
              sources : Sources, dated : BOOLEAN]

LEMMA JudgedType ==
    ASSUME NEW c \in Codes, NEW e \in Evidence
    PROVE  Judged(c, e) \in Regulated
<1> DEFINE board == IF e.stated THEN e.board ELSE Candidate[c]
<1>1. ListingRisk(e) \in Statuses /\ AuditOpinion(e) \in Statuses
      /\ Investigation(e) \in Statuses /\ DividendCompliance(e, board) \in Statuses
  BY DEF ListingRisk, AuditOpinion, Investigation, DividendCompliance, Checked, Statuses
<1>2. e.sources \in Sources /\ e.dated \in BOOLEAN
  BY DEF Evidence
<1> HIDE DEF board
<1> QED BY <1>1, <1>2 DEF Judged, RegulatoryGate, Regulated, Verdicts, board

LEMMA NoEvidenceJudged ==
    NoEvidence \in Evidence /\ (\A c \in Codes : Judged(c, NoEvidence).status # "clear")
  BY DEF NoEvidence, Evidence, Judged, RegulatoryGate, Opt, Sources

\* What a fetch derives from statements alone.
LEMMA PayloadSound ==
    ASSUME TypeOK, NEW c \in Codes, NEW s \in Statement
    PROVE  Payload(c, s) \in Row /\ Sound(Payload(c, s))
<1> DEFINE roe == Defaulted(RoeGate(s))
           found == CashGate(s, None, None)
           cash == CashDefault(found)
<1>1. DefaultRegulatory(c) \in Regulated /\ DefaultRegulatory(c).status # "clear"
  BY NoEvidenceJudged, JudgedType DEF DefaultRegulatory, Defaulted, Regulated, Sources
<1>2. /\ roe \in [status : Statuses, sources : Sources, dated : BOOLEAN]
      /\ roe.status = "clear" => KeepsReturns(s)
  <2>1. RoeGate(s) \in [status : Statuses, sources : Sources, dated : BOOLEAN]
    BY DEF RoeGate, Statement, Statuses
  <2>2. roe.status = RoeGate(s).status
    BY <2>1 DEF Defaulted
  <2> QED BY <2>1, <2>2, RoeClear DEF Defaulted, Sources
<1>3. /\ found \in [status : Statuses, reason : CashReasons, sources : Sources, dated : BOOLEAN]
      /\ found.sources = s.cashSources
  <2> DEFINE verdict(status, reason) ==
                 [status |-> status, reason |-> reason,
                  sources |-> s.cashSources, dated |-> s.cashDated]
  <2>1. \/ found = verdict("not_applicable", "financial")
        \/ found = verdict("incomplete", "input") \/ found = verdict("blocked", "no cash")
        \/ found = verdict("clear", "covered") \/ found = verdict("incomplete", "framework")
    BY NoneAssumption DEF CashGate
  <2>2. s.cashSources \in Sources /\ s.cashDated \in BOOLEAN
    BY DEF Statement
  <2>3. PICK status \in Statuses, reason \in CashReasons : found = verdict(status, reason)
    BY <2>1, Zenon DEF Statuses, CashReasons
  <2> HIDE DEF found
  <2> QED BY <2>2, <2>3
<1>4. /\ cash \in [status : Statuses, reason : CashReasons, sources : Sources, dated : BOOLEAN]
      /\ Complete(cash.status) => Complete(found.status)
      /\ cash.sources = (IF s.cashSources = "none" THEN "other" ELSE s.cashSources)
  <2> HIDE DEF found
  <2>1. /\ Defaulted(found) \in [status : Statuses, reason : CashReasons, sources : Sources, dated : BOOLEAN]
        /\ Defaulted(found).status = found.status
        /\ Defaulted(found).sources = (IF s.cashSources = "none" THEN "other" ELSE s.cashSources)
    BY <1>3 DEF Defaulted, Sources
  <2>2. \/ cash = Defaulted(found)
        \/ cash = [Defaulted(found) EXCEPT !.status = "incomplete", !.reason = "source"]
    BY DEF CashDefault
  <2> HIDE DEF cash
  <2> QED BY <2>1, <2>2 DEF Complete, Statuses, CashReasons
<1>5. Complete(found.status) => EarnsCash(s)
  <2>1. None \in Opt(Review) /\ None # "B"
    BY NoneAssumption DEF Opt, Frameworks
  <2>2. SUFFICES ASSUME Complete(found.status) PROVE EarnsCash(s)
    OBVIOUS
  <2>3. \/ None = "B" \/ s.financial
        \/ /\ HasCash(s) /\ s.cashDated
           /\ s.capex <= s.cfo \/ (None # None /\ Allowed(s, None, None))
    BY <2>1, <2>2, CashComplete
  <2> QED BY <2>1, <2>3 DEF EarnsCash
<1> HIDE DEF roe, found, cash
<1> DEFINE p == [period |-> Annual, facts |-> s, evidence |-> None,
                 regulatory |-> DefaultRegulatory(c), roe |-> roe, cash |-> cash,
                 missing |-> {}, reasons |-> {}, written |-> today]
<1>6. Lacking(p) \in SUBSET Fields /\ Annual \in Nat /\ today \in Nat
  <2>1. Lacking(p) \subseteq Fields
    BY DEF Lacking
  <2>2. Annual \in Nat /\ today \in Nat
    BY FundamentalsAssumption DEF Annual, TypeOK
  <2> QED BY <2>1, <2>2
<1>7. p \in [period : Nat, written : Nat, facts : Statement, evidence : Opt(Evidence),
             regulatory : Regulated,
             roe : [status : Statuses, sources : Sources, dated : BOOLEAN],
             cash : [status : Statuses, reason : CashReasons, sources : Sources, dated : BOOLEAN],
             missing : SUBSET Fields, reasons : SUBSET Fields]
  BY <1>1, <1>2, <1>4, <1>6 DEF Opt
<1>8. Payload(c, s) = [p EXCEPT !.missing = Lacking(p), !.reasons = Lacking(p)]
  BY DEF Payload, roe, cash, found
<1>9. Payload(c, s) \in Row
  BY <1>6, <1>7, <1>8 DEF Row, Regulated
<1>10. /\ Payload(c, s).regulatory = DefaultRegulatory(c) /\ Payload(c, s).roe = roe
       /\ Payload(c, s).cash = cash /\ Payload(c, s).facts = s
  BY <1>8
<1> QED BY <1>1, <1>2, <1>4, <1>5, <1>9, <1>10 DEF Sound

\* What a command stores: a sound row, and if its record is clean today's rule says so.
Stored(p) ==
    /\ p \in Row /\ Sound(p)
    /\ p.regulatory.status = "clear" => today <= RuleReviewAfter

LEMMA ApplyStored ==
    ASSUME TypeOK, NEW c \in Codes, NEW e \in Evidence, NEW p \in Row, Sound(p)
    PROVE  Stored(ApplyRegulatory(p, Judged(c, e), e))
<1> DEFINE gate == Judged(c, e)
           q == ApplyRegulatory(p, gate, e)
           mark(names) == IF gate.status = "clear" THEN names \ {"regulatory_gate"}
                          ELSE names \cup {"regulatory_gate"}
<1>1. gate \in Regulated
  BY JudgedType
<1>2. gate.status = "clear" => CleanRecord(e) /\ today <= RuleReviewAfter
  BY RegulatoryClear DEF Judged
<1>3. e # None
  BY EvidenceAssumption
<1> HIDE DEF gate
<1>4. mark(p.missing) \subseteq Fields /\ mark(p.reasons) \subseteq Fields
  BY DEF Row, Fields, Gates
<1>5. q = [p EXCEPT !.regulatory = gate, !.evidence = e,
                    !.missing = mark(p.missing), !.reasons = mark(p.reasons)]
  BY DEF ApplyRegulatory, Row
<1> HIDE DEF mark, q
<1>6. q \in Row
  BY <1>1, <1>4, <1>5 DEF Row, Regulated, Opt
<1>7. /\ q.regulatory = gate /\ q.evidence = e /\ q.facts = p.facts
      /\ q.roe = p.roe /\ q.cash = p.cash
  BY <1>5 DEF Row
<1>8. Sound(q)
  BY <1>2, <1>3, <1>7 DEF Sound
<1> QED BY <1>2, <1>6, <1>7, <1>8 DEF Stored, q, gate

LEMMA FetchedStored ==
    ASSUME Inv, NEW c \in Codes, NEW s \in Statement
    PROVE  Stored(Fetched(c, s))
<1> DEFINE p == Payload(c, s)
<1>1. p \in Row /\ Sound(p)
  BY PayloadSound DEF Inv
<1>2. p.regulatory.status # "clear"
  BY NoEvidenceJudged, JudgedType DEF Payload, DefaultRegulatory, Defaulted, Regulated
<1>3. Stored(p)
  BY <1>1, <1>2 DEF Stored
<1> HIDE DEF p
<1>4. CASE Fetched(c, s) = p
  BY <1>3, <1>4
<1>5. CASE Fetched(c, s) # p
  <2>1. /\ rows[c] # None /\ rows[c].evidence # None
        /\ Fetched(c, s) = ApplyRegulatory(p, Judged(c, rows[c].evidence), rows[c].evidence)
    BY <1>5 DEF Fetched, CarryForward, p
  <2>2. rows[c].evidence \in Evidence
    BY <2>1 DEF Inv, TypeOK, Opt, Row
  <2> QED BY <1>1, <2>1, <2>2, ApplyStored DEF Inv
<1> QED BY <1>4, <1>5

\* Every step that changes a row stores one of the above or deletes it.
LEMMA StepStores ==
    ASSUME Inv, Next, NEW c \in Codes, rows'[c] # rows[c], rows'[c] # None
    PROVE  Stored(rows'[c])
<1>1. CASE NextDay
  BY <1>1 DEF NextDay
<1>2. CASE Cleanup
  BY <1>2 DEF Cleanup
<1>3. CASE \E d \in Codes : Fetch(d)
  <2>1. PICK d \in Codes : Fetch(d)
    BY <1>3
  <2>2. PICK s \in NextStatements(d) : rows' = [rows EXCEPT ![d] = Fetched(d, s)]
    BY <2>1 DEF Fetch
  <2>3. d = c /\ rows'[c] = Fetched(c, s)
    BY <2>2 DEF Inv, TypeOK
  <2> QED BY <2>2, <2>3, Inputs, FetchedStored
<1>4. CASE \E d \in Codes : RegulatoryEvidence(d)
  <2>1. PICK d \in Codes : RegulatoryEvidence(d)
    BY <1>4
  <2>2. PICK e \in NextEvidence(d) :
            rows' = [rows EXCEPT ![d] = ApplyRegulatory(rows[d], Judged(d, e), e)]
    BY <2>1 DEF RegulatoryEvidence
  <2>3. d = c /\ rows'[c] = ApplyRegulatory(rows[c], Judged(c, e), e)
    BY <2>2 DEF Inv, TypeOK
  <2>4. rows[c] \in Row /\ Sound(rows[c])
    BY <2>1, <2>3 DEF Inv, TypeOK, RowsSound, RegulatoryEvidence, Opt
  <2> QED BY <2>2, <2>3, <2>4, Inputs, ApplyStored DEF Inv
<1> QED BY <1>1, <1>2, <1>3, <1>4 DEF Next

\* The rows that a store of this code holds are typed, and sound.
THEOREM FundamentalsSound == Spec => []Inv
<1>1. Init => Inv
  BY FundamentalsAssumption DEF Init, Inv, TypeOK, RowsSound, Opt
<1>2. Inv /\ [Next]_vars => Inv'
  <2> SUFFICES ASSUME Inv, [Next]_vars PROVE Inv'
    OBVIOUS
  <2>1. CASE UNCHANGED vars
    BY <2>1 DEF vars, Inv, TypeOK, RowsSound
  <2>2. CASE Next
    <3>1. ASSUME NEW c \in Codes, rows'[c] # None
          PROVE  rows'[c] \in Row /\ Sound(rows'[c])
      <4>1. CASE rows'[c] = rows[c]
        BY <3>1, <4>1 DEF Inv, TypeOK, RowsSound, Opt
      <4>2. CASE rows'[c] # rows[c]
        BY <2>2, <3>1, <4>2, StepStores DEF Stored
      <4> QED BY <4>1, <4>2
    <3>2. today' \in 0..MaxDay
      BY <2>2, FundamentalsAssumption
      DEF Next, NextDay, Cleanup, Fetch, RegulatoryEvidence, Inv, TypeOK
    <3>3. rows' = [c \in Codes |-> rows'[c]]
      BY <2>2 DEF Next, NextDay, Cleanup, Fetch, RegulatoryEvidence, Inv, TypeOK
    <3>4. TypeOK'
      BY <3>1, <3>2, <3>3 DEF TypeOK, Opt
    <3> QED BY <3>1, <3>4 DEF Inv, RowsSound
  <2> QED BY <2>1, <2>2
<1> QED BY <1>1, <1>2, PTL DEF Spec

\* Whatever a command stores clears a stock only on facts.
THEOREM BreachesNeverClear == Spec => NoBreachClears
<1>1. ASSUME Inv, [Next]_vars
      PROVE  [\A c \in Codes :
                 rows'[c] # None /\ rows'[c] # rows[c] =>
                     (Cleared(rows'[c]) =>
                         /\ today <= RuleReviewAfter
                         /\ rows'[c].evidence # None /\ CleanRecord(rows'[c].evidence)
                         /\ KeepsReturns(rows'[c].facts) /\ EarnsCash(rows'[c].facts))]_vars
  <2> SUFFICES ASSUME Next, NEW c \in Codes, rows'[c] # None, rows'[c] # rows[c],
                      Cleared(rows'[c])
               PROVE  /\ today <= RuleReviewAfter
                      /\ rows'[c].evidence # None /\ CleanRecord(rows'[c].evidence)
                      /\ KeepsReturns(rows'[c].facts) /\ EarnsCash(rows'[c].facts)
    BY <1>1
  <2>1. Stored(rows'[c])
    BY <1>1, StepStores
  <2>2. /\ rows'[c].regulatory.status = "clear" /\ rows'[c].roe.status = "clear"
        /\ Complete(rows'[c].cash.status)
    BY DEF Cleared, Aggregate, Complete
  <2> QED BY <2>1, <2>2 DEF Stored, Sound
<1> QED BY <1>1, FundamentalsSound, PTL DEF Spec, NoBreachClears

\* The same holds of the totals that score-fundamentals forms from a stored row.
THEOREM ScoresAreEarned == Spec => []ScoreIsEarned
<1>1. Inv => ScoreIsEarned
  <2> SUFFICES ASSUME Inv, NEW c \in Codes, NEW framework \in Frameworks, NEW review \in Reviews,
                      rows[c] # None, ScoreOf(rows[c], framework, review) = "total"
               PROVE  LET s == rows[c].facts
                      IN  /\ rows[c].evidence # None /\ CleanRecord(rows[c].evidence)
                          /\ KeepsReturns(s)
                          /\ \/ framework = "B" \/ s.financial
                             \/ HasCash(s) /\ (s.capex <= s.cfo \/ Allowed(s, framework, review))
    BY DEF ScoreIsEarned
  <2> DEFINE p == rows[c]
             s == p.facts
             brought == [s EXCEPT !.cashSources = p.cash.sources, !.cashDated = p.cash.dated]
  <2>1. p \in Row /\ Sound(p)
    BY DEF Inv, TypeOK, RowsSound, Opt
  <2>2. /\ Complete(p.regulatory.status) /\ Complete(CashGateFor(p, framework, review).status)
        /\ p.roe.status = "clear"
    BY DEF ScoreOf
  <2>3. p.regulatory.status = "clear"
    BY <2>1, <2>2 DEF Row, Verdicts, Complete
  <2>4. p.evidence # None /\ CleanRecord(p.evidence) /\ KeepsReturns(s)
    BY <2>1, <2>2, <2>3 DEF Sound
  <2>5. CASE framework = "B" \/ p.cash.reason = "framework" \/ review # None
    <3>1. Complete(CashGate(brought, framework, review).status)
      BY <2>2, <2>5 DEF CashGateFor
    <3>2. s \in Statement /\ p.cash.sources \in Sources /\ p.cash.dated \in BOOLEAN
      BY <2>1 DEF Row
    <3> HIDE DEF s
    <3>3. brought \in Statement
      BY <3>2 DEF Statement
    <3>4. /\ brought.cfo = s.cfo /\ brought.capex = s.capex /\ brought.financial = s.financial
          /\ brought.cashSources = p.cash.sources
      BY <3>2 DEF Statement
    <3>5. review \in Opt(Review)
      BY FundamentalsAssumption
    <3> HIDE DEF brought
    <3>6. \/ framework = "B" \/ brought.financial
          \/ /\ HasCash(brought) /\ brought.cashDated
             /\ brought.capex <= brought.cfo
                \/ (framework # None /\ Allowed(brought, framework, review))
      BY <3>1, <3>3, <3>5, CashComplete
    <3>7. HasCash(brought) => HasCash(s)
      BY <2>1, <3>4 DEF HasCash, Sound, s
    <3>8. Allowed(brought, framework, review) => Allowed(s, framework, review)
      BY <3>4 DEF Allowed
    <3> QED BY <2>4, <3>4, <3>6, <3>7, <3>8 DEF s
  <2>6. CASE ~(framework = "B" \/ p.cash.reason = "framework" \/ review # None)
    <3>1. Complete(p.cash.status)
      BY <2>2, <2>6 DEF CashGateFor
    <3> QED BY <2>1, <2>4, <3>1 DEF Sound, EarnsCash
  <2> QED BY <2>5, <2>6
<1> QED BY <1>1, FundamentalsSound, PTL
-----------------------------------------------------------------------------
(* What a fetch builds passes the validation of the store. *)

\* The part of a judgement that depends on the evidence alone, not on the day.
Traced(c, p) ==
    p.evidence # None =>
        /\ p.regulatory.sources = p.evidence.sources
        /\ p.regulatory.dated = p.evidence.dated
        /\ p.regulatory.ruled = ((IF p.evidence.stated THEN p.evidence.board
                                  ELSE Candidate[c]) # None)
ValidInv == Inv /\ \A c \in Codes : rows[c] # None => ValidPayload(rows[c]) /\ Traced(c, rows[c])

\* A gate that validate_fundamentals_payload accepts as regulatory_gate.
ValidRegulatory(gate) ==
    /\ ValidGate(gate, {"clear", "blocked", "incomplete"}, {"official"})
    /\ gate.ruled
    /\ gate.status = "clear" => gate.checks \subseteq {"clear", "not_applicable"}

LEMMA ChecksOfClear ==
    ASSUME NEW c \in Codes, NEW e \in Evidence, Judged(c, e).status = "clear"
    PROVE  e.sources = "official" /\ Judged(c, e).checks \subseteq {"clear", "not_applicable"}
<1> DEFINE board == IF e.stated THEN e.board ELSE Candidate[c]
           checks == {ListingRisk(e), AuditOpinion(e), Investigation(e),
                      DividendCompliance(e, board)}
<1>1. Judged(c, e).checks = checks
  BY DEF Judged, RegulatoryGate
<1>2. "blocked" \notin checks /\ "incomplete" \notin checks /\ Official(e.sources)
  BY DEF Judged, RegulatoryGate
<1>3. checks \subseteq {"clear", "blocked", "incomplete", "not_applicable"}
  BY DEF ListingRisk, AuditOpinion, Investigation, DividendCompliance, Checked
<1> HIDE DEF checks, board
<1> QED BY <1>1, <1>2, <1>3 DEF Official

\* apply_regulatory_gate keeps a valid payload valid.
LEMMA ApplyValid ==
    ASSUME NEW p \in Row, NEW e, NEW gate, gate \in Regulated,
           ValidPayload(p), ValidRegulatory(gate)
    PROVE  ValidPayload(ApplyRegulatory(p, gate, e))
<1> DEFINE q == ApplyRegulatory(p, gate, e)
           mark(names) == IF gate.status = "clear" THEN names \ {"regulatory_gate"}
                          ELSE names \cup {"regulatory_gate"}
<1>1. q = [p EXCEPT !.regulatory = gate, !.evidence = e,
                    !.missing = mark(p.missing), !.reasons = mark(p.reasons)]
  BY DEF ApplyRegulatory
<1>2. /\ q.regulatory = gate /\ q.roe = p.roe /\ q.cash = p.cash /\ q.facts = p.facts
      /\ q.missing = mark(p.missing) /\ q.reasons = mark(p.reasons)
  BY <1>1 DEF Row
<1>3. gate.status \in Verdicts
  BY DEF Regulated
<1> HIDE DEF q, mark
<1>4. Lacking(q) = mark(Lacking(p))
  BY <1>2, <1>3 DEF Lacking, mark, Complete, Fields, Gates, Verdicts
<1>5. p.missing = Lacking(p) /\ p.reasons = Lacking(p)
  BY DEF ValidPayload
<1> QED BY <1>2, <1>4, <1>5 DEF ValidPayload, ValidRegulatory, q

\* _build_cache_payload without evidence.
LEMMA PayloadValid ==
    ASSUME TypeOK, NEW c \in Codes, NEW s \in Statement
    PROVE  ValidPayload(Payload(c, s)) /\ Payload(c, s).evidence = None
<1> DEFINE roe == Defaulted(RoeGate(s))
           found == CashGate(s, None, None)
           cash == CashDefault(found)
           p == [period |-> Annual, facts |-> s, evidence |-> None,
                 regulatory |-> DefaultRegulatory(c), roe |-> roe, cash |-> cash,
                 missing |-> {}, reasons |-> {}, written |-> today]
           q == Payload(c, s)
<1>1. ValidRegulatory(DefaultRegulatory(c))
  <2>1. Judged(c, NoEvidence) \in Regulated /\ Judged(c, NoEvidence).status # "clear"
    BY NoEvidenceJudged, JudgedType
  <2>2. Judged(c, NoEvidence).sources = "other"
    BY DEF Judged, RegulatoryGate, NoEvidence
  <2>3. DefaultRegulatory(c) = [Judged(c, NoEvidence) EXCEPT
            !.sources = "other", !.dated = TRUE, !.ruled = TRUE]
    BY <2>1, <2>2 DEF DefaultRegulatory, Defaulted, Regulated
  <2> QED BY <2>1, <2>3 DEF ValidRegulatory, ValidGate, Complete, Regulated, Verdicts
<1>2. ValidGate(roe, {"clear", "blocked", "incomplete"}, {"official", "mirror"})
  BY DEF RoeGate, Defaulted, ValidGate, Complete, OfficialOrMirror, Statement, Sources
<1>3. ValidGate(cash, Statuses, {"official", "mirror"})
  <2> DEFINE verdict(status, reason) ==
                 [status |-> status, reason |-> reason,
                  sources |-> s.cashSources, dated |-> s.cashDated]
  <2>1. \/ found = verdict("not_applicable", "financial")
        \/ found = verdict("incomplete", "input") \/ found = verdict("blocked", "no cash")
        \/ found = verdict("clear", "covered") /\ OfficialOrMirror(s.cashSources)
        \/ found = verdict("incomplete", "framework")
    BY NoneAssumption DEF CashGate
  <2>2. s.cashSources \in Sources /\ s.cashDated \in BOOLEAN
    BY DEF Statement
  <2> DEFINE sources == IF s.cashSources = "none" THEN "other" ELSE s.cashSources
  <2>3. PICK status \in Statuses, reason \in CashReasons :
            /\ found = verdict(status, reason)
            /\ status = "clear" => OfficialOrMirror(s.cashSources)
    BY <2>1, Zenon DEF Statuses, CashReasons
  <2> HIDE DEF found
  <2>4. /\ Defaulted(found).status = status /\ Defaulted(found).sources = sources
        /\ Defaulted(found).dated = TRUE
        /\ found.status = status /\ found.sources = s.cashSources
        /\ Defaulted(found) \in [status : Statuses, reason : CashReasons, sources : Sources,
                                 dated : BOOLEAN]
    <3>1. found \in [status : Statuses, reason : CashReasons, sources : Sources, dated : BOOLEAN]
          /\ found.status = status /\ found.sources = s.cashSources
      BY <2>2, <2>3
    <3> QED BY <3>1 DEF Defaulted, Sources
  <2>5. /\ cash.status \in {status, "incomplete"} /\ cash.sources = sources /\ cash.dated
        /\ cash.status = "not_applicable" => OfficialOrMirror(s.cashSources)
    BY <2>3, <2>4 DEF CashDefault
  <2> HIDE DEF cash
  <2>6. sources # "none"
    BY <2>2 DEF Sources
  <2>7. Complete(cash.status) => OfficialOrMirror(s.cashSources)
    BY <2>3, <2>5 DEF Complete
  <2>8. OfficialOrMirror(s.cashSources) => sources \in {"official", "mirror"}
    BY DEF OfficialOrMirror
  <2> HIDE DEF sources
  <2>9. cash.status \in Statuses
    BY <2>5 DEF Statuses
  <2> QED BY <2>5, <2>6, <2>7, <2>8, <2>9 DEF ValidGate
<1> HIDE DEF roe, found, cash
<1>4. q = [p EXCEPT !.missing = Lacking(p), !.reasons = Lacking(p)]
  BY DEF Payload, roe, cash, found
<1>5. /\ q.regulatory = p.regulatory /\ q.roe = roe /\ q.cash = cash /\ q.facts = s
      /\ q.missing = Lacking(p) /\ q.reasons = Lacking(p) /\ q.evidence = None
      /\ p.regulatory = DefaultRegulatory(c) /\ p.roe = roe /\ p.cash = cash /\ p.facts = s
  BY <1>4
<1> HIDE DEF p, q
<1>6. Lacking(q) = Lacking(p)
  BY <1>5 DEF Lacking
<1> QED BY <1>1, <1>2, <1>3, <1>5, <1>6 DEF ValidPayload, ValidRegulatory, q

LEMMA JudgedTraced ==
    ASSUME NEW c \in Codes, NEW e \in Evidence, NEW p \in Row
    PROVE  Traced(c, ApplyRegulatory(p, Judged(c, e), e))
<1>1. /\ Judged(c, e).sources = e.sources /\ Judged(c, e).dated = e.dated
      /\ Judged(c, e).ruled = ((IF e.stated THEN e.board ELSE Candidate[c]) # None)
  BY DEF Judged, RegulatoryGate
<1>2. /\ ApplyRegulatory(p, Judged(c, e), e).regulatory = Judged(c, e)
      /\ ApplyRegulatory(p, Judged(c, e), e).evidence = e
  BY DEF ApplyRegulatory, Row
<1> QED BY <1>1, <1>2 DEF Traced

LEMMA FetchedValid ==
    ASSUME ValidInv, NEW c \in Codes, NEW s \in Statement
    PROVE  ValidPayload(Fetched(c, s)) /\ Traced(c, Fetched(c, s))
<1> DEFINE p == Payload(c, s)
<1>1. p \in Row /\ ValidPayload(p) /\ p.evidence = None
  BY PayloadSound, PayloadValid DEF ValidInv, Inv
<1> HIDE DEF p
<1>2. CASE Fetched(c, s) = p
  BY <1>1, <1>2 DEF Traced
<1>3. CASE Fetched(c, s) # p
  <2> DEFINE e == rows[c].evidence
             gate == Judged(c, e)
  <2>1. /\ rows[c] # None /\ e # None
        /\ Fetched(c, s) = ApplyRegulatory(p, gate, e)
    BY <1>3 DEF Fetched, CarryForward, p
  <2>2. rows[c] \in Row /\ e \in Evidence
    BY <2>1 DEF ValidInv, Inv, TypeOK, Opt, Row
  <2>3. ValidPayload(rows[c]) /\ Traced(c, rows[c])
    BY <2>1 DEF ValidInv
  <2>4. /\ gate.sources = e.sources /\ gate.dated = e.dated
        /\ gate.ruled = ((IF e.stated THEN e.board ELSE Candidate[c]) # None)
    BY DEF Judged, RegulatoryGate
  <2>5. gate \in Regulated
    BY <2>2, JudgedType
  <2>6. gate.status = "clear" =>
            e.sources = "official" /\ gate.checks \subseteq {"clear", "not_applicable"}
    BY <2>2, ChecksOfClear
  <2>7. e.sources # "none" /\ e.dated /\ gate.ruled
    BY <2>1, <2>3, <2>4 DEF ValidPayload, ValidGate, Traced
  <2> HIDE DEF gate
  <2>8. ValidRegulatory(gate)
    BY <2>4, <2>5, <2>6, <2>7 DEF ValidRegulatory, ValidGate, Complete, Regulated, Verdicts
  <2> QED BY <1>1, <2>1, <2>2, <2>5, <2>8, ApplyValid, JudgedTraced DEF gate
<1> QED BY <1>2, <1>3

\* No fetch is refused by the store's own validation.
THEOREM PayloadsAreAccepted == Spec => []PayloadAccepted
<1>1. Init => ValidInv
  BY FundamentalsAssumption DEF Init, ValidInv, Inv, TypeOK, RowsSound, Opt
<1>2. ASSUME ValidInv, Inv', [Next]_vars PROVE ValidInv'
  <2> SUFFICES ASSUME NEW c \in Codes, rows'[c] # None
               PROVE  ValidPayload(rows'[c]) /\ Traced(c, rows'[c])
    BY <1>2 DEF ValidInv
  <2>1. CASE rows'[c] = rows[c]
    BY <1>2, <2>1 DEF ValidInv
  <2>2. CASE rows'[c] # rows[c] /\ \E d \in Codes : Fetch(d)
    <3>1. PICK d \in Codes : Fetch(d)
      BY <2>2
    <3>2. PICK s \in NextStatements(d) : rows' = [rows EXCEPT ![d] = Fetched(d, s)]
      BY <3>1 DEF Fetch
    <3>3. d = c /\ rows'[c] = Fetched(c, s)
      BY <1>2, <2>2, <3>2 DEF ValidInv, Inv, TypeOK
    <3> QED BY <1>2, <3>2, <3>3, Inputs, FetchedValid
  <2>3. CASE rows'[c] # rows[c] /\ \E d \in Codes : RegulatoryEvidence(d)
    <3>1. PICK d \in Codes : RegulatoryEvidence(d)
      BY <2>3
    <3>2. PICK e \in NextEvidence(d) :
              /\ ValidPayload(ApplyRegulatory(rows[d], Judged(d, e), e))
              /\ rows' = [rows EXCEPT ![d] = ApplyRegulatory(rows[d], Judged(d, e), e)]
      BY <3>1 DEF RegulatoryEvidence
    <3>3. d = c /\ rows'[c] = ApplyRegulatory(rows[c], Judged(c, e), e)
      BY <1>2, <2>3, <3>2 DEF ValidInv, Inv, TypeOK
    <3>4. rows[c] \in Row /\ e \in Evidence
      BY <1>2, <3>1, <3>2, <3>3, Inputs DEF ValidInv, Inv, TypeOK, RegulatoryEvidence, Opt
    <3> QED BY <3>2, <3>3, <3>4, JudgedTraced
  <2>4. CASE NextDay \/ Cleanup \/ UNCHANGED vars
    BY <2>1, <2>4 DEF NextDay, Cleanup, vars
  <2> QED BY <1>2, <2>1, <2>2, <2>3, <2>4 DEF Next
<1>3. ValidInv => PayloadAccepted
  BY Inputs, FetchedValid DEF PayloadAccepted
<1> QED BY <1>1, <1>2, <1>3, FundamentalsSound, PTL DEF Spec
-----------------------------------------------------------------------------
(* What a monitor snapshot sums up.  The fold that Total stands for is a   *)
(* recursive function on the subsets of a finite set; that there is such a *)
(* function, and what its values are at least, is shown by a minimal       *)
(* counterexample.                                                         *)

\* A family of subsets of a finite set has a minimal member.
LEMMA MinimalSubset ==
    ASSUME NEW S, IsFiniteSet(S), NEW F \in SUBSET SUBSET S, F # {}
    PROVE  \E A \in F : \A B \in F : B \subseteq A => B = A
<1>1. IsWellFoundedOn(StrictSubsetOrdering(S), SUBSET S)
  <2>1. IsWellFoundedOn(StrictSubsetOrdering(S), FiniteSubsetsOf(S))
    BY FS_StrictSubsetOrderingWellFounded, Zenon
  <2>2. FiniteSubsetsOf(S) = SUBSET S
    BY FS_FiniteSubsetsOfFinite, Zenon
  <2> QED BY <2>1, <2>2, Zenon
<1>2. PICK A \in F : \A B \in F : ~(<<B, A>> \in StrictSubsetOrdering(S))
  BY <1>1, WFMin, Zenon
<1> QED BY <1>2 DEF StrictSubsetOrdering

\* A set that holds 0, and with each number the next one, holds them all.
LEMMA NatCovered ==
    ASSUME NEW R \in SUBSET Nat, 0 \in R, \A n \in R : n + 1 \in R
    PROVE  R = Nat
<1> SUFFICES ASSUME Nat \ R # {} PROVE FALSE
  OBVIOUS
<1> DEFINE Less == OpToRel(<, Nat)
<1>1. \A k, m \in Nat : k < m => <<k, m>> \in Less
  BY DEF OpToRel
<1>2. IsWellFoundedOn(Less, Nat)
  BY NatLessThanWellFounded, Zenon
<1> HIDE DEF Less
<1>3. PICK m \in Nat \ R : \A k \in Nat \ R : ~(<<k, m>> \in Less)
  BY <1>2, WFMin, Zenon
<1>4. m \in Nat /\ m # 0 /\ m - 1 \in Nat /\ m - 1 < m
  OBVIOUS
<1>5. m - 1 \in R
  BY <1>1, <1>3, <1>4
<1>6. (m - 1) + 1 \in R
  BY <1>5
<1> QED BY <1>4, <1>6

\* g sums the amounts f over each set of F, one member after the other.
Adds(f, F, g) ==
    g = [s \in F |-> IF s = {} THEN 0
                     ELSE f[CHOOSE x \in s : TRUE] + g[s \ {CHOOSE x \in s : TRUE}]]

LEMMA TotalIs ==
    ASSUME NEW S, NEW f \in [S -> Nat], \E g : Adds(f, SUBSET S, g)
    PROVE  \E g : Adds(f, SUBSET S, g) /\ Total(f) = g[S]
<1>1. DOMAIN f = S
  OBVIOUS
<1> DEFINE g == CHOOSE g : Adds(f, SUBSET S, g)
<1>2. Adds(f, SUBSET S, g)
  BY Zenon
<1>3. Total(f) = g[S]
  BY <1>1 DEF Total, MapThenSumSet, MapThenFoldSet, Adds
<1> QED BY <1>2, <1>3

\* The sums of the sets of at most n members give those of at most n + 1.
UpToSize(S, n) == {s \in SUBSET S : Cardinality(s) <= n}

LEMMA AddsExists ==
    ASSUME NEW S, IsFiniteSet(S), NEW f
    PROVE  \E g : Adds(f, SUBSET S, g)
<1> DEFINE Reach == {n \in Nat : \E g : Adds(f, UpToSize(S, n), g)}
<1>1. \A s \in SUBSET S : IsFiniteSet(s) /\ Cardinality(s) \in Nat
  BY FS_Subset, FS_CardinalityType
<1>2. 0 \in Reach
  <2> DEFINE g == [s \in UpToSize(S, 0) |-> 0]
  <2>1. \A s \in UpToSize(S, 0) : s = {}
    BY <1>1, FS_EmptySet DEF UpToSize
  <2>2. Adds(f, UpToSize(S, 0), g)
    BY <2>1 DEF Adds
  <2> QED BY <2>2
<1>3. ASSUME NEW n \in Reach PROVE n + 1 \in Reach
  <2> PICK g : Adds(f, UpToSize(S, n), g)
    OBVIOUS
  <2> DEFINE first(s) == CHOOSE x \in s : TRUE
             h == [s \in UpToSize(S, n + 1) |->
                       IF s = {} THEN 0 ELSE f[first(s)] + g[s \ {first(s)}]]
  <2>1. ASSUME NEW s \in UpToSize(S, n + 1), s # {}
        PROVE  h[s \ {first(s)}] = g[s \ {first(s)}]
    <3>1. first(s) \in s
      BY <2>1
    <3> DEFINE t == s \ {first(s)}
    <3> HIDE DEF first
    <3>2. t \in UpToSize(S, n)
      <4>1. /\ s \in SUBSET S /\ IsFiniteSet(s)
            /\ Cardinality(s) \in Nat /\ Cardinality(s) <= n + 1
        BY <1>1 DEF UpToSize
      <4>2. Cardinality(t) = Cardinality(s) - 1
        BY <3>1, <4>1, FS_RemoveElement, Zenon
      <4> QED BY <4>1, <4>2 DEF UpToSize
    <3>3. t \in UpToSize(S, n + 1)
      BY <1>1, <3>2 DEF UpToSize
    <3>4. g[t] = IF t = {} THEN 0 ELSE f[first(t)] + g[t \ {first(t)}]
      BY <3>2 DEF Adds, first
    <3> QED BY <3>3, <3>4
  <2>2. h = [s \in UpToSize(S, n + 1) |->
                 IF s = {} THEN 0 ELSE f[first(s)] + h[s \ {first(s)}]]
    <3>1. \A s \in UpToSize(S, n + 1) :
              h[s] = IF s = {} THEN 0 ELSE f[first(s)] + h[s \ {first(s)}]
      <4> TAKE s \in UpToSize(S, n + 1)
      <4>1. h[s] = IF s = {} THEN 0 ELSE f[first(s)] + g[s \ {first(s)}]
        OBVIOUS
      <4> HIDE DEF h, first
      <4> QED BY <2>1, <4>1
    <3> QED BY <3>1
  <2>3. Adds(f, UpToSize(S, n + 1), h)
    <3> HIDE DEF h
    <3> QED BY <2>2 DEF Adds
  <2> QED BY <2>3
<1>4. Reach = Nat
  <2> HIDE DEF Reach
  <2>1. Reach \in SUBSET Nat
    BY DEF Reach
  <2> QED BY <1>2, <1>3, <2>1, NatCovered
<1>5. Cardinality(S) \in Nat /\ UpToSize(S, Cardinality(S)) = SUBSET S
  BY FS_Subset, FS_CardinalityType DEF UpToSize
<1>6. Cardinality(S) \in Reach
  BY <1>4, <1>5
<1> QED BY <1>5, <1>6

\* A total is at least each of the amounts, and positive only if one of them is.
LEMMA TotalBounds ==
    ASSUME NEW S, IsFiniteSet(S), NEW f \in [S -> Nat]
    PROVE  /\ Total(f) \in Nat
           /\ \A c \in S : f[c] <= Total(f)
           /\ Total(f) > 0 => \E c \in S : f[c] > 0
<1>1. PICK g : Adds(f, SUBSET S, g) /\ Total(f) = g[S]
  BY AddsExists, TotalIs
<1> DEFINE Good(s) == /\ g[s] \in Nat
                      /\ \A c \in s : f[c] <= g[s]
                      /\ g[s] > 0 => \E c \in s : f[c] > 0
           Bad == {s \in SUBSET S : ~Good(s)}
<1>2. Bad = {}
  <2>1. SUFFICES ASSUME Bad # {} PROVE FALSE
    OBVIOUS
  <2>2. PICK s \in Bad : \A t \in Bad : t \subseteq s => t = s
    <3> HIDE DEF Bad
    <3>1. Bad \in SUBSET SUBSET S
      BY DEF Bad
    <3> QED BY <2>1, <3>1, MinimalSubset
  <2> DEFINE x == CHOOSE x \in s : TRUE
             t == s \ {x}
  <2>3. g[s] = IF s = {} THEN 0 ELSE f[x] + g[t]
    BY <1>1 DEF Adds
  <2>4. s # {}
    BY <2>3
  <2>5. x \in s /\ f[x] \in Nat
    BY <2>4
  <2>6. Good(t)
    BY <2>2, <2>5
  <2>7. g[s] = f[x] + g[t]
    BY <2>3, <2>4
  <2>8. \A c \in t : f[c] \in Nat
    OBVIOUS
  <2> HIDE DEF x
  <2>9. Good(s)
    BY <2>5, <2>6, <2>7, <2>8
  <2> QED BY <2>9
<1> QED BY <1>1, <1>2

-----------------------------------------------------------------------------
(* What a monitor snapshot concludes, one lemma for each thing that the    *)
(* snapshot or its contract reads off another.                             *)

Typed(in) == in.account \in Account /\ in.positions \in [Codes -> Position]

\* What a snapshot may read is typed.
LEMMA InputsTyped ==
    ASSUME NEW in \in NextInputs
    PROVE  Typed(in)
  BY InputsAssumption DEF NextInputs, Typed

\* A holding without a gap, field by field.
LEMMA NothingMissing ==
    ASSUME NEW in, NEW c, Missing(in, c) = {}
    PROVE  LET p == in.positions[c]
           IN  /\ p.shares # None /\ p.framework # None /\ p.sure
               /\ p.stop1 # None /\ p.stop2 # None
               /\ Quoted(p) /\ StopRisk(in, c) # None /\ Close(p) # None
               /\ Industry(in, p) # None
               /\ ~Reached(p, p.stop2) /\ ~TierGap(p) /\ p.alert # "undatable" /\ ~L3Gap(p)
               /\ p.readable /\ ~RowExpired(c) /\ GateStatus(c, p) # "incomplete"
               /\ in.account.twin # c
  BY DEF Missing

\* ... and one without a reason to look at it.
LEMMA NoReason ==
    ASSUME NEW in, NEW c, Reasons(in, c) = {}
    PROVE  LET p == in.positions[c]
           IN  /\ in.account.twin # c /\ Quoted(p)
               /\ ~Reached(p, p.stop2) /\ ~(Reached(p, p.stop1) /\ ~Reached(p, p.stop2))
               /\ p.alert # "due" /\ ~L3Unresolved(p)
               /\ ~(p.conditions = 1 /\ p.state = "triggered")
               /\ ~(Versioned(p) /\ p.review = "due") /\ ~(p.conditions = 1 /\ p.state = "watch")
               /\ GateStatus(c, p) = "clear"
  BY DEF Reasons

\* The parts of a combined snapshot.
LEMMA CombinedParts ==
    ASSUME NEW in
    PROVE  LET s == Combined(in)
           IN  /\ s.gaps = Gaps(in) /\ s.escalations = Escalations(in) /\ s.budget = Budget(in)
               /\ s.active = Rows(in, Held(in))
               /\ s.priced = Rows(in, {c \in Held(in) : Quoted(in.positions[c])})
  BY DEF Combined

\* The data status that a clean snapshot and a trade both ask for.
DataComplete(in) == ~Stale(in) /\ ~Conflicted(in) /\ ~Partial(in, Gaps(in))

\* What each status of the combined snapshot is decided by.
LEMMA CombinedDecides ==
    ASSUME NEW in
    PROVE  LET s == Combined(in)
           IN  /\ s.data \in {"unavailable", "conflicted", "stale", "partial", "complete"}
               /\ s.data = "complete" => DataComplete(in)
               /\ s.review \in {"blocked", "review_required", "cleared"}
               /\ s.review = "cleared" =>
                      /\ s.data = "complete" /\ Escalations(in) = {} /\ Budget(in) # None
               /\ s.action \in {"trade_candidate", "review_candidate", "no_action"}
               /\ s.action = "trade_candidate" => Trades(in) # {} /\ s.data = "complete"
               /\ s.action = "no_action" <=>
                      s.review = "cleared" /\ ~(Trades(in) # {} /\ s.data = "complete")
               /\ s.clean <=> (/\ s.data = "complete" /\ s.valuation = "exact"
                               /\ s.review = "cleared" /\ s.action = "no_action" /\ s.budget = "within_budget"
                               /\ s.priced = s.active /\ s.escalations = {} /\ s.gaps = {})
               /\ s.valuation = "exact" <=>
                      Cardinality({c \in Held(in) : MarketValue(in, c) # None}) = s.active
  BY DEF Combined, DataComplete

\* A waiting card changes the escalations, the review, the action and the fast path.
LEMMA SnapshotIs ==
    ASSUME NEW in
    PROVE  LET s == Snapshot(in)
           IN  /\ Pending(in) = {} => s = Combined(in)
               /\ Pending(in) # {} =>
                      /\ ~s.clean
                      /\ s.data = Combined(in).data /\ s.valuation = Combined(in).valuation
                      /\ s.budget = Combined(in).budget /\ s.gaps = Combined(in).gaps
                      /\ s.priced = Combined(in).priced /\ s.active = Combined(in).active
                      /\ s.escalations = Combined(in).escalations
                                          \cup {<<c, "research_thesis_review">> : c \in Pending(in)}
                      /\ s.review = (IF Combined(in).review = "cleared" THEN "review_required"
                                     ELSE Combined(in).review)
                      /\ s.action = (IF Combined(in).action = "no_action" THEN "review_candidate"
                                     ELSE Combined(in).action)
<1> DEFINE t == Combined(in)
<1>1. t = [data |-> t.data, valuation |-> t.valuation, review |-> t.review, action |-> t.action,
           budget |-> t.budget, priced |-> t.priced, active |-> t.active,
           gaps |-> t.gaps, escalations |-> t.escalations, clean |-> t.clean]
  BY DEF Combined
<1> HIDE DEF t
<1> QED BY <1>1 DEF t, Snapshot, WithResearch, Reviewed

\* Complete data leave no gap, neither of a holding nor of the account.
LEMMA CompleteData ==
    ASSUME NEW in, Typed(in), DataComplete(in)
    PROVE  /\ AccountMissing(in) = {} /\ \A c \in Held(in) : Missing(in, c) = {}
           /\ in.account.twin \notin Held(in)
           /\ \A c \in Held(in) : ~L3Unresolved(in.positions[c])
<1>1. \A gap \in Gaps(in) : gap[2] \in {"quote", "active_holding"}
  BY DEF DataComplete, Partial
<1>2. ASSUME NEW field \in AccountMissing(in) PROVE FALSE
  <2>1. <<None, field>> \in Gaps(in)
    BY DEF Gaps
  <2>2. field \in {"portfolio_value", "account_scope", "industry_context"}
    BY DEF AccountMissing
  <2> QED BY <1>1, <2>1, <2>2
<1>3. ASSUME NEW c \in Held(in), NEW field \in Missing(in, c) PROVE FALSE
  <2>1. <<c, field>> \in Gaps(in)
    BY DEF Gaps
  <2>2. field \in {"quote", "active_holding"}
    BY <1>1, <2>1
  <2>3. in.positions[c] \in Position
    BY DEF Typed, Held
  <2>4. Quoted(in.positions[c])
    BY <2>3 DEF DataComplete, Partial, Stale, Position, Quoted
  <2>5. in.account.twin # c
    BY DEF DataComplete, Conflicted
  <2>6. "quote" \notin Missing(in, c)
    BY <2>4 DEF Missing
  <2>7. "active_holding" \notin Missing(in, c)
    BY <2>5 DEF Missing
  <2> QED BY <2>2, <2>6, <2>7
<1> QED BY <1>2, <1>3 DEF DataComplete, Conflicted, Partial

\* An account without a gap.
LEMMA NothingMissingAccount ==
    ASSUME NEW in, Typed(in), AccountMissing(in) = {}
    PROVE  /\ in.account.value \in Nat /\ in.account.value # None /\ ~in.account.unscoped
           /\ Held(in) # {} => in.account.industries = "complete"
<1>1. in.account.value # None /\ ~in.account.unscoped /\ ~Degraded(in)
  BY DEF AccountMissing
<1> QED BY <1>1 DEF Degraded, IndustryStatus, Typed, Account, Opt

\* The stored row behind a gate status.
LEMMA GateRow ==
    ASSUME Inv, NEW c \in Codes, NEW p, GateStatus(c, p) # "incomplete"
    PROVE  /\ rows[c] # None /\ rows[c].written + Ttl >= today /\ p.readable
           /\ \/ "blocked" \in {rows[c].regulatory.status, rows[c].roe.status, rows[c].cash.status}
                 /\ GateStatus(c, p) # "clear"
              \/ /\ rows[c].evidence # None /\ CleanRecord(rows[c].evidence)
                 /\ KeepsReturns(rows[c].facts) /\ EarnsCash(rows[c].facts)
<1>1. rows[c] # None /\ ~Expired(c) /\ p.readable
  BY DEF GateStatus
<1>2. rows[c] \in Row /\ Sound(rows[c]) /\ today \in Int /\ Ttl \in Int
  BY <1>1, FundamentalsAssumption DEF Inv, TypeOK, RowsSound, Opt
<1>3. rows[c].written + Ttl >= today
  BY <1>1, <1>2 DEF Expired, Row
<1>4. GateStatus(c, p) =
          Aggregate(rows[c].regulatory.status, rows[c].roe.status, rows[c].cash.status)
  BY <1>1 DEF GateStatus
<1>5. \/ "blocked" \in {rows[c].regulatory.status, rows[c].roe.status, rows[c].cash.status}
         /\ GateStatus(c, p) # "clear"
      \/ rows[c].regulatory.status = "clear" /\ rows[c].roe.status = "clear"
         /\ Complete(rows[c].cash.status)
  BY <1>4 DEF Aggregate, Complete
<1> QED BY <1>1, <1>2, <1>3, <1>5 DEF Sound

\* The risk of a holding whose data are complete.
LEMMA SizedRisk ==
    ASSUME NEW in, Typed(in), NEW c \in Held(in), Missing(in, c) = {}
    PROVE  LET p == in.positions[c]
           IN  /\ p.price \in Nat /\ p.stop2 \in Nat /\ p.shares \in Nat /\ p.stop1 \in Nat
               /\ p.price > p.stop2 /\ StopRisk(in, c) = (p.price - p.stop2) * p.shares
               /\ StopRisk(in, c) \in Nat /\ StopRisk(in, c) # None
<1> DEFINE p == in.positions[c]
<1>1. p \in Position
  BY DEF Typed, Held
<1>2. /\ p.shares # None /\ p.stop2 # None /\ p.stop1 # None /\ Quoted(p)
      /\ StopRisk(in, c) # None /\ ~Reached(p, p.stop2)
  BY NothingMissing
<1>3. p.price \in Nat /\ p.stop2 \in Nat /\ p.shares \in Nat /\ p.stop1 \in Nat
  BY <1>1, <1>2 DEF Position, Opt
<1>4. p.price > p.stop2
  BY <1>2, <1>3 DEF Reached
<1>5. StopRisk(in, c) = (p.price - p.stop2) * p.shares
  BY <1>2, <1>4 DEF StopRisk
<1>6. (p.price - p.stop2) * p.shares \in Nat
  BY <1>3, <1>4
<1> QED BY <1>2, <1>3, <1>4, <1>5, <1>6

LEMMA HeldFinite == \A in : Held(in) \subseteq Codes /\ IsFiniteSet(Held(in))
  BY MonitorAssumption, FS_Subset DEF Held

\* A clean snapshot: every holding is at rest, and so is the sum of their risks.
LEMMA CleanRests ==
    ASSUME Inv, NEW in, Typed(in), Snapshot(in).clean
    PROVE  AllAtRest(in)
<1>1. /\ Pending(in) = {} /\ DataComplete(in)
      /\ Escalations(in) = {} /\ Budget(in) = "within_budget"
  <2>1. Pending(in) = {} /\ Snapshot(in) = Combined(in)
    BY SnapshotIs
  <2>2. /\ Combined(in).data = "complete" /\ Combined(in).escalations = {}
        /\ Combined(in).budget = "within_budget"
    BY <2>1, CombinedDecides
  <2> QED BY <2>1, <2>2, CombinedDecides, CombinedParts
<1>2. /\ AccountMissing(in) = {} /\ \A c \in Held(in) : Missing(in, c) = {}
      /\ in.account.twin \notin Held(in)
  BY <1>1, CompleteData
<1>3. /\ in.account.value \in Nat /\ in.account.value # None /\ ~in.account.unscoped
      /\ Held(in) # {} => in.account.industries = "complete"
  BY <1>2, NothingMissingAccount
<1>4. RiskValue(in) = in.account.value
  BY <1>3 DEF RiskValue
<1>5. Breaches(in) = {}
  BY <1>1 DEF Budget
<1>6. ASSUME NEW c \in Held(in) PROVE Reasons(in, c) = {}
  <2>1. {<<c, reason>> : reason \in Reasons(in, c)} \subseteq Escalations(in)
    BY DEF Escalations
  <2> QED BY <1>1, <2>1
<1>7. ASSUME NEW c \in Held(in) PROVE AtRest(in, c)
  <2> DEFINE p == in.positions[c]
  <2>1. p \in Position /\ c \in Codes
    BY DEF Typed, Held
  <2>2. Missing(in, c) = {} /\ Reasons(in, c) = {}
    BY <1>2, <1>6
  <2>3. /\ p.shares # None /\ p.framework # None /\ p.sure /\ p.stop1 # None /\ p.stop2 # None
        /\ Quoted(p) /\ p.alert # "undatable"
    BY <2>2, NothingMissing
  <2>4. /\ ~Reached(p, p.stop2) /\ ~Reached(p, p.stop1) /\ p.alert # "due" /\ ~L3Unresolved(p)
        /\ ~(p.conditions = 1 /\ p.state = "triggered")
        /\ ~(Versioned(p) /\ p.review = "due") /\ ~(p.conditions = 1 /\ p.state = "watch")
        /\ GateStatus(c, p) = "clear"
    BY <2>2, NoReason
  <2>5. /\ p.theses = 1 /\ p.conditions = 1 /\ p.valid /\ p.state = "not_triggered"
        /\ p.review = "later"
    BY <2>1, <2>4 DEF L3Unresolved, L3Gap, Versioned, Position
  <2>6. p.quote = "fresh" /\ p.alert \in {"none", "open"}
    BY <2>1, <2>3, <2>4 DEF Quoted, Position
  <2>7. /\ p.price \in Nat /\ p.stop2 \in Nat /\ p.shares \in Nat /\ p.stop1 \in Nat
        /\ p.price > p.stop2 /\ StopRisk(in, c) = (p.price - p.stop2) * p.shares
        /\ StopRisk(in, c) \in Nat /\ StopRisk(in, c) # None
    BY <2>2, SizedRisk
  <2>8. p.price > p.stop1
    BY <2>3, <2>4, <2>7 DEF Reached
  <2>9. ~(in.account.research = "ok" /\ p.card = "to review")
    BY <1>1 DEF Pending
  <2>10. /\ rows[c] # None /\ rows[c].written + Ttl >= today /\ p.readable
         /\ rows[c].evidence # None /\ CleanRecord(rows[c].evidence)
         /\ KeepsReturns(rows[c].facts) /\ EarnsCash(rows[c].facts)
    BY <2>1, <2>4, GateRow
  <2>11. 100 * StopRisk(in, c) <= PositionLimit * RiskValue(in)
    <3>1. ~(100 * StopRisk(in, c) > PositionLimit * RiskValue(in))
      BY <1>3, <1>4, <1>5, <2>7 DEF Breaches
    <3>2. PositionLimit * RiskValue(in) \in Int
      BY <1>3, <1>4, MonitorAssumption
    <3> QED BY <2>7, <3>1, <3>2
  <2>12. 100 * (p.price - p.stop2) * p.shares = 100 * StopRisk(in, c)
    BY <2>7
  <2> QED BY <1>4, <2>3, <2>5, <2>6, <2>7, <2>8, <2>9, <2>10, <2>11, <2>12 DEF AtRest
<1>8. 100 * Total([c \in Held(in) |-> (in.positions[c].price - in.positions[c].stop2)
                                      * in.positions[c].shares])
          <= in.account.portfolioLimit * in.account.value
  <2> DEFINE risk == [c \in Held(in) |-> (in.positions[c].price - in.positions[c].stop2)
                                         * in.positions[c].shares]
             known == [c \in Held(in) |-> IF StopRisk(in, c) = None THEN 0 ELSE StopRisk(in, c)]
  <2>1. \A c \in Held(in) : known[c] = risk[c] /\ known[c] \in Nat
    BY <1>2, SizedRisk
  <2>2. known = risk /\ known \in [Held(in) -> Nat]
    BY <2>1
  <2>3. KnownRisk(in) = Total(risk)
    BY <2>2 DEF KnownRisk
  <2> HIDE DEF risk, known
  <2>4. Total(risk) \in Nat
    BY <2>2, HeldFinite, TotalBounds
  <2>5. ~(100 * KnownRisk(in) > in.account.portfolioLimit * RiskValue(in))
    BY <1>3, <1>4, <1>5 DEF Breaches
  <2>6. in.account.portfolioLimit * in.account.value \in Int
    BY <1>3 DEF Typed, Account
  <2> QED BY <1>4, <2>3, <2>4, <2>5, <2>6 DEF risk
<1> QED BY <1>2, <1>3, <1>7, <1>8 DEF AllAtRest

\* A proposed trade: it was called for, and every holding is decided.
LEMMA TradeRests ==
    ASSUME Inv, NEW in, Typed(in), Snapshot(in).action = "trade_candidate"
    PROVE  TradeCalled(in)
<1>1. Combined(in).action = "trade_candidate"
  BY SnapshotIs
<1>2. Trades(in) # {} /\ DataComplete(in)
  BY <1>1, CombinedDecides
<1>3. /\ AccountMissing(in) = {} /\ \A c \in Held(in) : Missing(in, c) = {}
      /\ in.account.twin \notin Held(in) /\ \A c \in Held(in) : ~L3Unresolved(in.positions[c])
  BY <1>2, CompleteData
<1>4. in.account.value # None
  BY <1>3, NothingMissingAccount
<1>5. \E c \in Held(in) : L3Trades(in.positions[c])
  BY <1>2 DEF Trades
<1>6. ASSUME NEW c \in Held(in) PROVE Decided(in, c)
  <2> DEFINE p == in.positions[c]
  <2>1. c \in Codes /\ Missing(in, c) = {}
    BY <1>3 DEF Held
  <2>2. /\ p.shares # None /\ p.stop2 # None /\ Quoted(p) /\ GateStatus(c, p) # "incomplete"
    BY <2>1, NothingMissing
  <2>3. p.price > p.stop2
    BY <2>1, SizedRisk
  <2>4. p.state # "pending"
    BY <1>3 DEF L3Unresolved
  <2>5. /\ rows[c] # None /\ rows[c].written + Ttl >= today
        /\ \/ "blocked" \in {rows[c].regulatory.status, rows[c].roe.status, rows[c].cash.status}
           \/ /\ rows[c].evidence # None /\ CleanRecord(rows[c].evidence)
              /\ KeepsReturns(rows[c].facts) /\ EarnsCash(rows[c].facts)
    BY <2>1, <2>2, GateRow
  <2> QED BY <2>2, <2>3, <2>4, <2>5 DEF Decided, Quoted
<1>7. \E c \in Held(in) :
          LET p == in.positions[c]
          IN  p.theses = 1 /\ p.conditions = 1 /\ p.valid /\ p.exits /\ p.state = "triggered"
  BY <1>5 DEF L3Trades, Versioned
<1> QED BY <1>3, <1>4, <1>6, <1>7 DEF TradeCalled

\* Whatever is stored and whatever a snapshot reads, a clean one and a proposed trade
\* rest on facts (clean_fast_gate and action_status of build_monitor_snapshot).
THEOREM ConclusionsAreEarned == Spec => []ConclusionIsEarned
<1>1. Inv => ConclusionIsEarned
  BY InputsTyped, CleanRests, TradeRests DEF ConclusionIsEarned
<1> QED BY <1>1, FundamentalsSound, PTL

\* Which holdings and which limits the budget finds breached.
LEMMA BudgetIs ==
    ASSUME NEW in, Typed(in)
    PROVE  /\ Budget(in) \in {"over_budget", "within_budget", None}
           /\ Budget(in) = "over_budget" <=> Breaches(in) # {}
           /\ Budget(in) = "within_budget" =>
                  RiskValue(in) # None /\ \A c \in Held(in) : StopRisk(in, c) # None
           /\ Budget(in) # None => RiskValue(in) # None
           /\ Budget(in) = "within_budget" => RiskTotal(in) # None
<1>1. Budget(in) = "within_budget" => RiskTotal(in) # None /\ RiskValue(in) # None
  BY MonitorAssumption DEF Budget
<1>2. RiskTotal(in) # None => \A c \in Held(in) : StopRisk(in, c) # None
  BY DEF RiskTotal
<1>3. RiskValue(in) = None => Breaches(in) = {}
  BY DEF Breaches
<1> QED BY <1>1, <1>2, <1>3, MonitorAssumption DEF Budget

\* A risk that is known is a number.
LEMMA RiskTyped ==
    ASSUME NEW in, Typed(in), NEW c \in Held(in)
    PROVE  StopRisk(in, c) \in Opt(Nat)
<1> DEFINE p == in.positions[c]
<1>1. p \in Position
  BY DEF Typed, Held
<1>2. SUFFICES ASSUME StopRisk(in, c) # None PROVE StopRisk(in, c) \in Nat
  BY DEF Opt
<1>3. p.stop2 # None /\ MarketValue(in, c) # None
  BY <1>2 DEF StopRisk
<1>4. p.shares # None
  BY <1>3 DEF MarketValue, Sized
<1>5. p.price \in Nat /\ p.stop2 \in Nat /\ p.shares \in Nat
  BY <1>1, <1>3, <1>4 DEF Position, Opt
<1>6. p.price > p.stop2 => (p.price - p.stop2) * p.shares \in Nat
  BY <1>5
<1> QED BY <1>3, <1>6 DEF StopRisk

\* A breach has a positive risk behind it.
LEMMA BreachHasRisk ==
    ASSUME NEW in, Typed(in), NEW c \in Breaches(in)
    PROVE  /\ c \in Held(in) \cup {None} /\ KnownRisk(in) > 0
           /\ \E d \in Held(in) : /\ c = None \/ d = c
                                 /\ StopRisk(in, d) # None /\ StopRisk(in, d) > 0
<1> DEFINE known == [d \in Held(in) |-> IF StopRisk(in, d) = None THEN 0 ELSE StopRisk(in, d)]
<1>1. known \in [Held(in) -> Nat]
  BY RiskTyped DEF Opt
<1>2. KnownRisk(in) = Total(known)
  BY DEF KnownRisk
<1> HIDE DEF known
<1>3. /\ KnownRisk(in) \in Nat /\ \A d \in Held(in) : known[d] <= KnownRisk(in)
      /\ KnownRisk(in) > 0 => \E d \in Held(in) : known[d] > 0
  BY <1>1, <1>2, HeldFinite, TotalBounds
<1>4. \A d \in Held(in) : known[d] > 0 => StopRisk(in, d) # None /\ StopRisk(in, d) > 0
  BY DEF known
<1>5. RiskValue(in) # None
  BY DEF Breaches
<1>6. RiskValue(in) \in Nat /\ in.account.portfolioLimit \in Nat /\ PositionLimit \in Nat
  BY <1>5, MonitorAssumption DEF RiskValue, Typed, Account, Opt
<1>7. PositionLimit * RiskValue(in) \in Nat /\ in.account.portfolioLimit * RiskValue(in) \in Nat
  BY <1>6
<1>8. CASE /\ c \in Held(in) /\ StopRisk(in, c) # None
           /\ 100 * StopRisk(in, c) > PositionLimit * RiskValue(in)
  <2>1. StopRisk(in, c) \in Nat
    BY <1>8, RiskTyped DEF Opt
  <2>2. StopRisk(in, c) > 0
    BY <1>7, <1>8, <2>1
  <2>3. known[c] = StopRisk(in, c)
    BY <1>8 DEF known
  <2> QED BY <1>3, <1>8, <2>1, <2>2, <2>3
<1>9. CASE c = None /\ 100 * KnownRisk(in) > in.account.portfolioLimit * RiskValue(in)
  <2>1. KnownRisk(in) > 0
    BY <1>3, <1>7, <1>9
  <2> QED BY <1>3, <1>4, <1>9, <2>1
<1> QED BY <1>5, <1>8, <1>9 DEF Breaches

\* The two reasons that the contract counts are those that the snapshot gave.
LEMMA EscalationsOf ==
    ASSUME NEW in
    PROVE  LET s == Snapshot(in)
           IN  /\ Of(s, "research_thesis_review") = Pending(in)
               /\ Of(s, "risk_budget_exceeded") = Breaches(in)
<1> DEFINE s == Snapshot(in)
           due == {<<c, "research_thesis_review">> : c \in Pending(in)}
<1>1. s.escalations = Escalations(in) \cup due
  BY SnapshotIs, CombinedParts
<1>2. \A c \in Held(in) : \A reason \in Reasons(in, c) :
          reason \notin {"research_thesis_review", "risk_budget_exceeded"}
  BY DEF Reasons
<1> DEFINE over == {<<c, "risk_budget_exceeded">> : c \in Breaches(in)}
           found == UNION {{<<c, reason>> : reason \in Reasons(in, c)} : c \in Held(in)}
           lost == IF RiskValue(in) = None THEN {<<None, "denominator_missing">>} ELSE {}
<1>3. Escalations(in) = found \cup over \cup lost
  BY DEF Escalations
<1>4. \A e \in found \cup lost : e[2] \notin {"research_thesis_review", "risk_budget_exceeded"}
  <2>1. ASSUME NEW e \in found PROVE e[2] \notin {"research_thesis_review", "risk_budget_exceeded"}
    <3>1. PICK c \in Held(in) : \E reason \in Reasons(in, c) : e = <<c, reason>>
      OBVIOUS
    <3> QED BY <1>2, <3>1
  <2> QED BY <2>1
<1>5. /\ \A e \in over : e[2] = "risk_budget_exceeded" /\ e[1] \in Breaches(in)
      /\ \A c \in Breaches(in) : <<c, "risk_budget_exceeded">> \in over
  OBVIOUS
<1>6. /\ \A e \in due : e[2] = "research_thesis_review" /\ e[1] \in Pending(in)
      /\ \A c \in Pending(in) : <<c, "research_thesis_review">> \in due
  OBVIOUS
<1> HIDE DEF s, over, found, lost, due
<1>7. ASSUME NEW x, x \in Of(s, "research_thesis_review") PROVE x \in Pending(in)
  <2>1. PICK e \in s.escalations : e[2] = "research_thesis_review" /\ x = e[1]
    BY <1>7 DEF Of
  <2> QED BY <1>1, <1>3, <1>4, <1>5, <1>6, <2>1
<1>8. ASSUME NEW x, x \in Of(s, "risk_budget_exceeded") PROVE x \in Breaches(in)
  <2>1. PICK e \in s.escalations : e[2] = "risk_budget_exceeded" /\ x = e[1]
    BY <1>8 DEF Of
  <2> QED BY <1>1, <1>3, <1>4, <1>5, <1>6, <2>1
<1>9. ASSUME NEW c \in Pending(in) PROVE c \in Of(s, "research_thesis_review")
  <2>1. <<c, "research_thesis_review">> \in s.escalations
    BY <1>1, <1>6
  <2> QED BY <2>1 DEF Of
<1>10. ASSUME NEW c \in Breaches(in) PROVE c \in Of(s, "risk_budget_exceeded")
  <2>1. <<c, "risk_budget_exceeded">> \in s.escalations
    BY <1>1, <1>3, <1>5
  <2> QED BY <2>1 DEF Of
<1> QED BY <1>7, <1>8, <1>9, <1>10 DEF s

\* A snapshot that leaves nothing to review is clean: validated as such, it is so built.
LEMMA ClearedIsClean ==
    ASSUME NEW in, Typed(in), Combined(in).review = "cleared"
    PROVE  Combined(in).clean
<1> DEFINE t == Combined(in)
<1>1. /\ t.data = "complete" /\ DataComplete(in) /\ Escalations(in) = {} /\ Budget(in) # None
      /\ t.escalations = {}
  BY CombinedDecides, CombinedParts
<1>2. /\ AccountMissing(in) = {} /\ \A c \in Held(in) : Missing(in, c) = {}
      /\ in.account.twin \notin Held(in)
  BY <1>1, CompleteData
<1>3. t.gaps = {}
  <2>1. \A e \in Gaps(in) : FALSE
    BY <1>2 DEF Gaps
  <2> QED BY <2>1, CombinedParts
<1>4. t.budget = "within_budget"
  <2>1. {<<c, "risk_budget_exceeded">> : c \in Breaches(in)} \subseteq Escalations(in)
    BY DEF Escalations
  <2>2. Breaches(in) = {}
    BY <1>1, <2>1
  <2> QED BY <1>1, <2>2, BudgetIs, CombinedParts
<1>5. t.action = "no_action"
  <2>1. ASSUME NEW c \in Trades(in) PROVE FALSE
    <3>1. c \in Held(in) /\ in.positions[c].conditions = 1 /\ in.positions[c].state = "triggered"
      BY DEF Trades, L3Trades, Versioned
    <3>2. "l3_candidate" \in Reasons(in, c)
      BY <3>1 DEF Reasons
    <3>3. <<c, "l3_candidate">> \in Escalations(in)
      BY <3>1, <3>2 DEF Escalations
    <3> QED BY <1>1, <3>3
  <2> QED BY <2>1, CombinedDecides
<1>6. t.active = Cardinality(Held(in))
  <2>1. Cardinality(Held(in)) \in Nat
    BY HeldFinite, FS_CardinalityType
  <2>2. Rows(in, Held(in)) = Cardinality(Held(in))
    BY <1>2, <2>1 DEF Rows
  <2> QED BY <2>2, CombinedParts
<1>7. t.priced = t.active
  <2>1. {c \in Held(in) : Quoted(in.positions[c])} = Held(in)
    BY <1>2, NothingMissing
  <2> QED BY <2>1, CombinedParts
<1>8. t.valuation = "exact"
  <2>1. {c \in Held(in) : MarketValue(in, c) # None} = Held(in)
    BY <1>2, NothingMissing DEF StopRisk
  <2> QED BY <1>6, <2>1, CombinedDecides
<1> HIDE DEF t
<1>9. t.clean <=> (/\ t.data = "complete" /\ t.valuation = "exact" /\ t.review = "cleared"
                   /\ t.action = "no_action" /\ t.budget = "within_budget"
                   /\ t.priced = t.active /\ t.escalations = {} /\ t.gaps = {})
  BY CombinedDecides DEF t
<1> QED BY <1>1, <1>3, <1>4, <1>5, <1>7, <1>8, <1>9 DEF t

\* The contract's parts about the account, the coverage, the holdings and the cards.
LEMMA PartsHold ==
    ASSUME NEW in, Typed(in), ~Anonymous(in)
    PROVE  LET s == Snapshot(in)
           IN  AccountOk(in, s) /\ CoverageOk(s) /\ HoldingsOk(in, s) /\ ThesisOk(in, s)
<1> DEFINE s == Snapshot(in)
<1>1. /\ s.budget = Budget(in) /\ s.active = Rows(in, Held(in))
      /\ s.priced = Rows(in, {c \in Held(in) : Quoted(in.positions[c])})
  BY SnapshotIs, CombinedParts
<1>2. Pending(in) # {} => s.review # "cleared"
  BY SnapshotIs
<1>3. Of(s, "research_thesis_review") = Pending(in)
  BY EscalationsOf
<1> HIDE DEF s
<1>4. AccountOk(in, s)
  <2>1. RiskValue(in) # None => in.account.value # None /\ ~in.account.unscoped
    BY DEF RiskValue
  <2> QED BY <1>1, <2>1, BudgetIs DEF AccountOk
<1>5. CoverageOk(s)
  <2> DEFINE priced == {c \in Held(in) : Quoted(in.positions[c])}
  <2>1. priced \subseteq Held(in)
    OBVIOUS
  <2>2. /\ Cardinality(priced) <= Cardinality(Held(in))
        /\ Cardinality(priced) \in Nat /\ Cardinality(Held(in)) \in Nat
    BY <2>1, HeldFinite, FS_Subset, FS_CardinalityType
  <2> HIDE DEF priced
  <2>3. Rows(in, priced) <= Rows(in, Held(in))
    BY <2>1, <2>2 DEF Rows
  <2> QED BY <1>1, <2>3 DEF CoverageOk, priced
<1>6. HoldingsOk(in, s)
  <2>1. ASSUME NEW c \in Held(in), StopRisk(in, c) # None PROVE MarketValue(in, c) # None
    BY <2>1 DEF StopRisk
  <2> QED BY <1>1, <2>1, BudgetIs DEF HoldingsOk, Anonymous
<1>7. ThesisOk(in, s)
  BY <1>2, <1>3 DEF ThesisOk
<1> QED BY <1>4, <1>5, <1>6, <1>7 DEF s

\* ... and about the budget, the action and the clean fast path.
LEMMA ConclusionsHold ==
    ASSUME NEW in, Typed(in)
    PROVE  LET s == Snapshot(in)
           IN  BudgetOk(in, s) /\ ActionOk(in, s) /\ CleanOk(in, s)
<1> DEFINE s == Snapshot(in)
           t == Combined(in)
<1>1. /\ s.budget = Budget(in) /\ s.gaps = Gaps(in) /\ s.data = t.data /\ t.budget = Budget(in)
      /\ t.gaps = Gaps(in) /\ t.escalations = Escalations(in)
  BY SnapshotIs, CombinedParts
<1>2. Of(s, "risk_budget_exceeded") = Breaches(in)
  BY EscalationsOf
<1>3. Pending(in) # {} => s.review # "cleared" /\ s.action # "no_action" /\ ~s.clean
  BY SnapshotIs
<1>4. Pending(in) = {} => s = t
  BY SnapshotIs
<1>5. s.action = "trade_candidate" => t.action = "trade_candidate"
  BY SnapshotIs
<1>6. /\ t.review = "cleared" => /\ t.data = "complete" /\ Escalations(in) = {} /\ Budget(in) # None
                                /\ t.clean
      /\ t.action = "no_action" => t.review = "cleared"
      /\ t.action = "trade_candidate" => Trades(in) # {}
      /\ t.clean => /\ t.data = "complete" /\ t.valuation = "exact" /\ t.review = "cleared"
                    /\ t.action = "no_action" /\ t.budget = "within_budget"
                    /\ t.priced = t.active /\ t.escalations = {} /\ t.gaps = {}
                    /\ DataComplete(in)
  BY CombinedDecides, ClearedIsClean
<1>7. {<<c, "risk_budget_exceeded">> : c \in Breaches(in)} \subseteq Escalations(in)
  BY DEF Escalations
<1> HIDE DEF s, t
<1>8. BudgetOk(in, s)
  <2>1. \A c \in Breaches(in) :
            /\ c \in Held(in) \cup {None} /\ KnownRisk(in) > 0
            /\ \E d \in Held(in) : /\ c = None \/ d = c
                                  /\ StopRisk(in, d) # None /\ StopRisk(in, d) > 0
    BY BreachHasRisk
  <2>2. Budget(in) = "over_budget" <=> Breaches(in) # {}
    BY BudgetIs
  <2>3. Breaches(in) # {} \/ Budget(in) = None =>
            s.review # "cleared" /\ s.action # "no_action" /\ ~s.clean
    <3>1. Breaches(in) # {} => Escalations(in) # {}
      BY <1>7
    <3> QED BY <1>3, <1>4, <1>6, <3>1
  <2> QED BY <1>1, <1>2, <2>1, <2>2, <2>3 DEF BudgetOk
<1>9. ActionOk(in, s)
  <2>1. s.action = "no_action" \/ s.review = "cleared" => s.clean
    BY <1>3, <1>4, <1>6
  <2>2. s.action = "no_action" => s.data = "complete"
    BY <1>1, <1>3, <1>4, <1>6
  <2>3. s.action = "trade_candidate" => TradeEscalations(in) # {}
    BY <1>5, <1>6 DEF TradeEscalations
  <2>4. Degraded(in) => <<None, "industry_context">> \in s.gaps
    <3>1. Degraded(in) => "industry_context" \in AccountMissing(in)
      BY DEF AccountMissing
    <3> QED BY <1>1, <3>1 DEF Gaps
  <2> QED BY <2>1, <2>2, <2>3, <2>4 DEF ActionOk
<1>10. CleanOk(in, s)
  <2> SUFFICES ASSUME s.clean PROVE CleanOk(in, s)
    BY DEF CleanOk
  <2>1. s = t /\ DataComplete(in)
    BY <1>3, <1>4, <1>6
  <2>2. AccountMissing(in) = {} /\ \A c \in Held(in) : Missing(in, c) = {}
    BY <2>1, CompleteData
  <2>3. in.account.value # None
    BY <2>2, NothingMissingAccount
  <2>4. ASSUME NEW c \in Held(in)
        PROVE  LET p == in.positions[c]
               IN  Quoted(p) /\ p.price > 0 /\ p.stop2 # None /\ p.shares # None
                   /\ MarketValue(in, c) # None /\ StopRisk(in, c) # None
    <3>1. /\ Quoted(in.positions[c]) /\ in.positions[c].stop2 # None
          /\ in.positions[c].shares # None /\ StopRisk(in, c) # None
      BY <2>2, NothingMissing
    <3>2. MarketValue(in, c) # None
      BY <3>1 DEF StopRisk
    <3>3. in.positions[c].price > 0
      BY <2>2, SizedRisk
    <3> QED BY <3>1, <3>2, <3>3
  <2> QED BY <1>1, <1>6, <2>1, <2>3, <2>4 DEF CleanOk
<1> QED BY <1>8, <1>9, <1>10 DEF s

\* ... and what build_monitor_snapshot returns is refused by validate_monitor_snapshot
\* only for a holding without a name or a framework.
THEOREM SnapshotsAreAccepted == Spec => []OnlyNamelessRefused
<1>1. Inv => OnlyNamelessRefused
  BY InputsTyped, PartsHold, ConclusionsHold DEF OnlyNamelessRefused, ValidSnapshot
<1> QED BY <1>1, FundamentalsSound, PTL
-----------------------------------------------------------------------------
(* What is fetched: the calls that the facts of a row come from.  Fetcher  *)
(* shares neither constants nor state with the modules above.              *)
USE FetcherAssumption

\* An answer and a result are of the code that the process is at, and there is an
\* answer, or a wait for one, only in a step that calls.
OwnAnswers ==
    \A p \in Procs :
        /\ waiting[p] \/ answer[p] # Null => code[p] # Null /\ Steps[step[p]] \in Calls
        /\ answer[p] \in {code[p], "error", Null}
        /\ code[p] # Null => \A s \in Calls : results[p][s] \in {code[p], Null}
FetchInv == FetcherTypeOK /\ OwnAnswers /\ RowsAreOfOneCode

LEMMA StepsAre ==
    /\ Len(Steps) = 9 /\ Steps[1] = "calendar" /\ Steps[2] = "quote"
    /\ Steps[4] = "industry" /\ Steps[8] = "bond" /\ Steps[9] = "store"
    /\ \A i \in 1..9 : /\ Steps[i] = "bond" => i = 8
                       /\ Steps[i] = "quote" => i = 2
                       /\ Steps[i] = "industry" => i = 4
                       /\ Steps[i] \in Calls => i < 9
    /\ "quote" \notin Calls /\ "store" \notin Calls /\ "financials" \in Calls
  BY DEF Steps, Calls

\* What the two ways to leave a step do to the process that leaves it.
LEMMA EndTyped ==
    ASSUME FetchInv, NEW p \in Procs, NEW how \in {"ok", "failed"},
           EndFetch(p, how), ~waiting[p], code[p] # Null
    PROVE  /\ code' \in [Procs -> Batch \cup {Null}] /\ todo' \in [Procs -> SUBSET Batch]
           /\ step' \in [Procs -> 1..9] /\ try' \in [Procs -> 1..Tries]
           /\ answer' \in [Procs -> Batch \cup {"error", Null}]
           /\ summary' \in [Procs -> [Batch -> {"ok", "failed", Null}]]
           /\ code'[p] = Null /\ answer'[p] = Null
           /\ \A q \in Procs \ {p} :
                  code'[q] = code[q] /\ step'[q] = step[q] /\ answer'[q] = answer[q]
           /\ \A q \in Procs, c \in Batch :
                  summary'[q][c] # summary[q][c] => q = p /\ c = code[p] /\ summary'[q][c] = how
<1>1. /\ code' = [code EXCEPT ![p] = Null]
      /\ step' = [step EXCEPT ![p] = 1] /\ try' = [try EXCEPT ![p] = 1]
      /\ answer' = [answer EXCEPT ![p] = Null]
      /\ summary' = [summary EXCEPT ![p][code[p]] = how]
      /\ todo' = todo
  BY DEF EndFetch
<1>2. code[p] \in Batch /\ 1 \in 1..9 /\ 1 \in 1..Tries
  BY DEF FetchInv, FetcherTypeOK
<1>3. summary \in [Procs -> [Batch -> {"ok", "failed", Null}]]
  BY DEF FetchInv, FetcherTypeOK
<1>4. /\ summary' \in [Procs -> [Batch -> {"ok", "failed", Null}]]
      /\ \A q \in Procs, c \in Batch :
             summary'[q][c] # summary[q][c] => q = p /\ c = code[p] /\ summary'[q][c] = how
  BY <1>1, <1>2, <1>3
<1> QED BY <1>1, <1>2, <1>4, StepsAre DEF FetchInv, FetcherTypeOK

LEMMA GoesOnTyped ==
    ASSUME FetchInv, NEW p \in Procs, GoOn(p), step[p] < 9
    PROVE  /\ step' \in [Procs -> 1..9] /\ try' \in [Procs -> 1..Tries]
           /\ answer' \in [Procs -> Batch \cup {"error", Null}]
           /\ answer'[p] = Null
           /\ \A q \in Procs \ {p} : step'[q] = step[q] /\ answer'[q] = answer[q]
<1>1. step[p] \in 1..9 /\ 1 \in 1..Tries
  BY StepsAre DEF FetchInv, FetcherTypeOK
<1>2. step[p] + 1 \in 1..9
  BY <1>1
<1> QED BY <1>1, <1>2, StepsAre DEF GoOn, FetchInv, FetcherTypeOK

\* The steps of a call, and the start of a fetch.
LEMMA CallStep ==
    ASSUME FetchInv, NEW p \in Procs,
           \/ StartFetch(p) \/ StartCall(p) \/ ChildAnswers(p) \/ ChildEnds(p)
           \/ Answered(p) \/ TimedOut(p) \/ Retry(p)
    PROVE  FetchInv' /\ cached' = cached /\ summary' = summary
<1> USE DEF FetchInv, FetcherTypeOK
<1>1. cached' = cached /\ summary' = summary
  BY DEF StartFetch, StartCall, ChildAnswers, ChildEnds, Answered, TimedOut, Retry
<1>2. CASE StartFetch(p)
  <2>1. PICK c \in todo[p] :
            /\ code[p] = Null
            /\ code' = [code EXCEPT ![p] = c] /\ todo' = [todo EXCEPT ![p] = @ \ {c}]
            /\ results' = [results EXCEPT ![p] = NoResults]
            /\ UNCHANGED <<clock, cached, bond, call, industry, summary>>
    BY <1>2 DEF StartFetch, Outside
  <2>2. NoResults \in [Calls -> Batch \cup {Null}] /\ \A s \in Calls : NoResults[s] = Null
    BY DEF NoResults
  <2>3. c \in Batch /\ c # Null
    OBVIOUS
  <2>4. FetcherTypeOK'
    BY <2>1, <2>2, <2>3 DEF call
  <2>5. OwnAnswers'
    BY <2>1, <2>2, <2>3, <2>4 DEF call, OwnAnswers
  <2> QED BY <1>1, <2>4, <2>5 DEF RowsAreOfOneCode
<1>3. CASE StartCall(p)
  <2>1. FetcherTypeOK'
    <3>1. \/ waiting' = [waiting EXCEPT ![p] = TRUE]
             /\ children' = [children EXCEPT ![p] = children[p] \cup {"working"}]
             /\ answer' = answer
          \/ answer' = [answer EXCEPT ![p] = "error"] /\ UNCHANGED <<waiting, children>>
      BY <1>3 DEF StartCall
    <3>2. /\ children \in [Procs -> SUBSET {"working", "answered"}]
          /\ children[p] \cup {"working"} \in SUBSET {"working", "answered"}
      OBVIOUS
    <3>3. children' \in [Procs -> SUBSET {"working", "answered"}]
      <4> DEFINE some == children[p] \cup {"working"}
                 States == SUBSET {"working", "answered"}
      <4>1. children' = children \/ children' = [children EXCEPT ![p] = some]
        BY <3>1
      <4>2. children \in [Procs -> States] /\ some \in States
        BY <3>2
      <4> HIDE DEF some, States
      <4>3. children' \in [Procs -> States]
        BY <4>1, <4>2
      <4> QED BY <4>3 DEF States
    <3>4. /\ waiting' \in [Procs -> BOOLEAN]
          /\ answer' \in [Procs -> Batch \cup {"error", Null}]
      BY <3>1
    <3> QED BY <1>1, <1>3, <3>3, <3>4 DEF StartCall
  <2>2. OwnAnswers'
    BY <1>3, <2>1 DEF StartCall, Outside, OwnAnswers
  <2> QED BY <1>1, <2>1, <2>2 DEF RowsAreOfOneCode
<1>4. CASE ChildAnswers(p)
  <2>1. code[p] \in Batch
    BY <1>4 DEF ChildAnswers, OwnAnswers
  <2>2. FetcherTypeOK'
    BY <1>4, <2>1 DEF ChildAnswers
  <2>3. OwnAnswers'
    BY <1>4, <2>1, <2>2 DEF ChildAnswers, OwnAnswers
  <2> QED BY <1>1, <2>2, <2>3 DEF RowsAreOfOneCode
<1>5. CASE ChildEnds(p) \/ Answered(p) \/ TimedOut(p)
  <2>1. FetcherTypeOK'
    <3>1. \/ children' = children \/ children' = [children EXCEPT ![p] = {}]
          \/ \E state : children' = [children EXCEPT ![p] = children[p] \ {state}]
      BY <1>5 DEF ChildEnds, Answered, TimedOut
    <3>2. /\ children \in [Procs -> SUBSET {"working", "answered"}]
          /\ \A state : children[p] \ {state} \in SUBSET {"working", "answered"}
      OBVIOUS
    <3>3. children' \in [Procs -> SUBSET {"working", "answered"}]
      <4> DEFINE States == SUBSET {"working", "answered"}
      <4>1. PICK some \in States : children' = children \/ children' = [children EXCEPT ![p] = some]
        BY <3>1, <3>2
      <4>2. children \in [Procs -> States]
        BY <3>2
      <4> HIDE DEF States
      <4>3. children' \in [Procs -> States]
        BY <4>1, <4>2
      <4> QED BY <4>3 DEF States
    <3>4. /\ waiting' \in [Procs -> BOOLEAN]
          /\ answer' \in [Procs -> Batch \cup {"error", Null}]
          /\ UNCHANGED <<clock, cached, bond, todo, code, step, try, results, industry, summary>>
      BY <1>5 DEF ChildEnds, Answered, TimedOut
    <3> QED BY <3>3, <3>4
  <2>2. OwnAnswers'
    BY <1>5, <2>1 DEF ChildEnds, Answered, TimedOut, OwnAnswers
  <2> QED BY <1>1, <2>1, <2>2 DEF RowsAreOfOneCode
<1>6. CASE Retry(p)
  <2>1. try[p] + 1 \in 1..Tries
    BY <1>6 DEF Retry, TriesOf
  <2>2. FetcherTypeOK'
    BY <1>6, <2>1 DEF Retry
  <2>3. OwnAnswers'
    BY <1>6, <2>2 DEF Retry, OwnAnswers
  <2> QED BY <1>1, <2>2, <2>3 DEF RowsAreOfOneCode
<1> QED BY <1>2, <1>3, <1>4, <1>5, <1>6

LEMMA StoreStep ==
    ASSUME FetchInv, NEW p \in Procs, Store(p)
    PROVE  FetchInv' /\ Noted
<1> DEFINE facts == {results[p][s] : s \in Calls} \ {Null}
<1>1. /\ code[p] \in Batch /\ code[p] # Null /\ Steps[step[p]] = "store"
      /\ UNCHANGED <<clock, bond, waiting, children, results, industry>>
  BY DEF Store, Is, FetchInv, FetcherTypeOK
<1>2. ~waiting[p]
  BY <1>1, StepsAre DEF FetchInv, OwnAnswers
<1>3. PICK how \in {"ok", "failed"} :
          /\ EndFetch(p, how)
          /\ how = "ok" => /\ results[p]["financials"] # Null
                           /\ cached' = [cached EXCEPT ![code[p]] = facts]
          /\ how = "failed" => cached' = cached
  BY DEF Store
<1>4. facts \subseteq {code[p]}
  BY <1>1 DEF FetchInv, OwnAnswers
<1>5. how = "ok" => results[p]["financials"] = code[p] /\ code[p] \in facts
  BY <1>1, <1>3, StepsAre DEF FetchInv, OwnAnswers
<1>6. /\ code' \in [Procs -> Batch \cup {Null}] /\ todo' \in [Procs -> SUBSET Batch]
      /\ step' \in [Procs -> 1..9] /\ try' \in [Procs -> 1..Tries]
      /\ answer' \in [Procs -> Batch \cup {"error", Null}]
      /\ summary' \in [Procs -> [Batch -> {"ok", "failed", Null}]]
      /\ code'[p] = Null /\ answer'[p] = Null
      /\ \A q \in Procs \ {p} :
             code'[q] = code[q] /\ step'[q] = step[q] /\ answer'[q] = answer[q]
      /\ \A q \in Procs, c \in Batch :
             summary'[q][c] # summary[q][c] => q = p /\ c = code[p] /\ summary'[q][c] = how
  BY <1>1, <1>2, <1>3, EndTyped
<1> HIDE DEF facts
<1>7. /\ cached' \in [Batch -> SUBSET Batch]
      /\ \A c \in Batch : cached'[c] \subseteq {c}
      /\ how = "ok" => cached'[code[p]] # {}
  <2>1. cached \in [Batch -> SUBSET Batch] /\ \A c \in Batch : cached[c] \subseteq {c}
    BY DEF FetchInv, FetcherTypeOK, RowsAreOfOneCode
  <2>2. facts \in SUBSET Batch
    BY <1>1, <1>4
  <2>3. CASE how = "failed"
    BY <1>3, <2>1, <2>3
  <2>4. CASE how = "ok"
    <3>1. cached' = [cached EXCEPT ![code[p]] = facts]
      BY <1>3, <2>4
    <3>2. cached'[code[p]] = facts /\ \A c \in Batch \ {code[p]} : cached'[c] = cached[c]
      BY <1>1, <2>1, <3>1
    <3>3. cached' \in [Batch -> SUBSET Batch]
      BY <2>1, <2>2, <3>1
    <3> QED BY <1>4, <1>5, <2>1, <2>4, <3>2, <3>3
  <2> QED BY <2>3, <2>4
<1>8. FetcherTypeOK'
  BY <1>1, <1>6, <1>7, StepsAre DEF FetchInv, FetcherTypeOK
<1>9. OwnAnswers'
  BY <1>1, <1>2, <1>6 DEF FetchInv, OwnAnswers
<1>10. Noted
  <2>1. CASE how = "failed"
    BY <1>3, <1>6, <2>1 DEF Noted
  <2>2. CASE how = "ok"
    <3>1. \A d \in Batch \ {code[p]} : cached'[d] = cached[d]
      BY <1>1, <1>3, <2>2 DEF FetchInv, FetcherTypeOK
    <3>2. summary'[p][code[p]] = "ok"
      <4>1. summary' = [summary EXCEPT ![p][code[p]] = "ok"]
        BY <1>3, <2>2 DEF EndFetch
      <4> QED BY <1>1, <4>1 DEF FetchInv, FetcherTypeOK
    <3>3. ASSUME NEW q \in Procs, NEW c \in Batch, summary'[q][c] # summary[q][c]
          PROVE  q = p /\ c = code[p] /\ summary'[q][c] = "ok"
      BY <1>6, <2>2, <3>3
    <3> QED BY <1>5, <1>7, <2>2, <3>1, <3>2, <3>3 DEF Noted
  <2> QED BY <2>1, <2>2
<1> QED BY <1>7, <1>8, <1>9, <1>10 DEF FetchInv, RowsAreOfOneCode

\* The other steps of a fetch: an answer is taken, a step passed over, or the fetch ends.
LEMMA PassStep ==
    ASSUME FetchInv, NEW p \in Procs,
           CallDone(p) \/ QuoteStep(p) \/ IndustryCached(p) \/ BondStep(p)
    PROVE  /\ FetchInv' /\ cached' = cached
           /\ \A q \in Procs, c \in Batch :
                  summary'[q][c] # summary[q][c] => summary'[q][c] = "failed"
<1>1. cached' = cached
  BY DEF CallDone, QuoteStep, IndustryCached, BondStep
<1>2. UNCHANGED <<clock, waiting, children>>
  BY DEF CallDone, QuoteStep, IndustryCached, BondStep
<1>3. /\ bond' \in (0..MaxTime) \cup {Null}
      /\ industry' \in [Procs -> {"unread", "none", "read"}]
  BY DEF CallDone, QuoteStep, IndustryCached, BondStep, FetchInv, FetcherTypeOK
<1>4. code[p] # Null /\ code[p] \in Batch /\ step[p] < 9 /\ step[p] \in 1..9 /\ ~waiting[p]
  <2>1. step[p] \in 1..9 /\ code[p] \in Batch \cup {Null}
    BY StepsAre DEF FetchInv, FetcherTypeOK
  <2>2. CASE CallDone(p)
    <3>1. answer[p] # Null /\ ~waiting[p]
      BY <2>2 DEF CallDone, Delivered, Failed
    <3> QED BY <2>1, <3>1, StepsAre DEF FetchInv, OwnAnswers
  <2>3. CASE QuoteStep(p)
    BY <2>1, <2>3, StepsAre DEF QuoteStep, Is, FetchInv, OwnAnswers
  <2>4. CASE IndustryCached(p) \/ BondStep(p)
    BY <2>1, <2>4, StepsAre DEF IndustryCached, BondStep, Is
  <2> QED BY <2>2, <2>3, <2>4
<1>5. /\ results' \in [Procs -> [Calls -> Batch \cup {Null}]]
      /\ \A q \in Procs : \A s \in Calls :
             results'[q][s] = results[q][s] \/ (q = p /\ results'[q][s] = code[p])
  <2>1. \/ results' = results
        \/ /\ Delivered(p)
           /\ results' = [results EXCEPT ![p][Steps[step[p]]] = answer[p]]
    BY DEF CallDone, QuoteStep, IndustryCached, BondStep
  <2>2. Delivered(p) => answer[p] = code[p] /\ answer[p] \in Batch
    BY DEF Delivered, FetchInv, OwnAnswers
  <2>3. results \in [Procs -> [Calls -> Batch \cup {Null}]]
    BY DEF FetchInv, FetcherTypeOK
  <2>4. CASE results' = results
    BY <2>3, <2>4
  <2>5. CASE Delivered(p) /\ results' = [results EXCEPT ![p][Steps[step[p]]] = answer[p]]
    <3>1. results' = [results EXCEPT ![p] = [results[p] EXCEPT ![Steps[step[p]]] = answer[p]]]
      BY <2>5
    <3>2. results[p] \in [Calls -> Batch \cup {Null}]
      BY <2>3
    <3> DEFINE taken == [results[p] EXCEPT ![Steps[step[p]]] = answer[p]]
    <3>3. /\ taken \in [Calls -> Batch \cup {Null}]
          /\ \A s \in Calls : taken[s] = results[p][s] \/ taken[s] = code[p]
      BY <2>2, <2>5, <3>2
    <3> HIDE DEF taken
    <3> QED BY <2>3, <3>1, <3>3 DEF taken
  <2> QED BY <2>1, <2>4, <2>5
<1>6. CASE EndFetch(p, "failed") /\ results' = results
  <2>1. /\ code' \in [Procs -> Batch \cup {Null}] /\ todo' \in [Procs -> SUBSET Batch]
        /\ step' \in [Procs -> 1..9] /\ try' \in [Procs -> 1..Tries]
        /\ answer' \in [Procs -> Batch \cup {"error", Null}]
        /\ summary' \in [Procs -> [Batch -> {"ok", "failed", Null}]]
        /\ code'[p] = Null /\ answer'[p] = Null
        /\ \A q \in Procs \ {p} :
               code'[q] = code[q] /\ step'[q] = step[q] /\ answer'[q] = answer[q]
        /\ \A q \in Procs, c \in Batch :
               summary'[q][c] # summary[q][c] => summary'[q][c] = "failed"
    BY <1>4, <1>6, EndTyped
  <2>2. FetcherTypeOK'
    BY <1>1, <1>2, <1>3, <1>5, <2>1, StepsAre DEF FetchInv, FetcherTypeOK
  <2>3. OwnAnswers'
    BY <1>2, <1>4, <1>6, <2>1 DEF FetchInv, OwnAnswers
  <2> QED BY <1>1, <2>1, <2>2, <2>3 DEF FetchInv, RowsAreOfOneCode
<1>7. CASE GoOn(p) /\ UNCHANGED <<todo, code, summary>>
  <2>1. /\ step' \in [Procs -> 1..9] /\ try' \in [Procs -> 1..Tries]
        /\ answer' \in [Procs -> Batch \cup {"error", Null}]
        /\ answer'[p] = Null
        /\ \A q \in Procs \ {p} : step'[q] = step[q] /\ answer'[q] = answer[q]
    BY <1>4, <1>7, GoesOnTyped
  <2>2. FetcherTypeOK'
    BY <1>1, <1>2, <1>3, <1>5, <1>7, <2>1, StepsAre DEF FetchInv, FetcherTypeOK
  <2>3. OwnAnswers'
    <3>1. /\ waiting' = waiting /\ code' = code /\ ~waiting[p]
      BY <1>2, <1>4, <1>7
    <3>2. \A q \in Procs : code[q] # Null => \A s \in Calls : results'[q][s] \in {code[q], Null}
      BY <1>5 DEF FetchInv, OwnAnswers
    <3> QED BY <2>1, <3>1, <3>2 DEF FetchInv, OwnAnswers
  <2> QED BY <1>1, <1>7, <2>2, <2>3 DEF FetchInv, RowsAreOfOneCode
<1> QED BY <1>6, <1>7 DEF CallDone, QuoteStep, IndustryCached, BondStep

LEMMA FetchInit == FetcherInit => FetchInv
<1> SUFFICES ASSUME FetcherInit PROVE FetchInv
  OBVIOUS
<1>1. FetcherTypeOK
  BY StepsAre DEF FetcherInit, FetcherTypeOK, NoResults
<1>2. OwnAnswers
  BY DEF FetcherInit, OwnAnswers
<1> QED BY <1>1, <1>2 DEF FetchInv, FetcherInit, RowsAreOfOneCode

LEMMA FetchStep ==
    ASSUME FetchInv, [FetcherNext]_fetcherVars
    PROVE  FetchInv' /\ [Noted]_fetcherVars
<1>1. CASE UNCHANGED fetcherVars
  BY <1>1 DEF fetcherVars, call, FetchInv, FetcherTypeOK, OwnAnswers, RowsAreOfOneCode
<1>2. CASE Tick
  <2>1. clock' \in 0..MaxTime
    BY <1>2 DEF Tick, FetchInv, FetcherTypeOK
  <2> QED
    BY <1>2, <2>1 DEF Tick, call, FetchInv, FetcherTypeOK, OwnAnswers, RowsAreOfOneCode, Noted
<1>3. CASE \E p \in Procs : Parent(p) \/ ChildAnswers(p) \/ ChildEnds(p)
  <2>1. PICK p \in Procs : Parent(p) \/ ChildAnswers(p) \/ ChildEnds(p)
    BY <1>3
  <2>2. CASE \/ StartFetch(p) \/ StartCall(p) \/ ChildAnswers(p) \/ ChildEnds(p)
             \/ Answered(p) \/ TimedOut(p) \/ Retry(p)
    <3>1. FetchInv' /\ cached' = cached /\ summary' = summary
      BY <2>2, CallStep
    <3> QED BY <3>1 DEF Noted
  <2>3. CASE CallDone(p) \/ QuoteStep(p) \/ IndustryCached(p) \/ BondStep(p)
    <3>1. /\ FetchInv' /\ cached' = cached
          /\ \A q \in Procs, c \in Batch :
                 summary'[q][c] # summary[q][c] => summary'[q][c] = "failed"
      BY <2>3, PassStep
    <3> QED BY <3>1 DEF Noted
  <2>4. CASE Store(p)
    BY <2>4, StoreStep
  <2> QED BY <2>1, <2>2, <2>3, <2>4 DEF Parent
<1> QED BY <1>1, <1>2, <1>3 DEF FetcherNext

\* No row holds an answer that was given for another code, however many processes fetch
\* the same codes and whatever their children do (timed_call, cmd_fetch).
THEOREM RowsAreFetchedForTheirCode == FetcherSpec => []RowsAreOfOneCode
<1>1. FetcherInit => FetchInv
  BY FetchInit
<1>2. FetchInv /\ [FetcherNext]_fetcherVars => FetchInv'
  BY FetchStep
<1>3. FetchInv => RowsAreOfOneCode
  BY DEF FetchInv
<1> QED BY <1>1, <1>2, <1>3, PTL DEF FetcherSpec

\* A fetch noted as done has replaced the row of its code and no other, with financials
\* of that code; one noted as failed has left all rows alone; and no row changes without
\* being noted (cmd_batch).
THEOREM SummariesAreTrue == FetcherSpec => SummaryIsTrue
<1>1. FetcherInit => FetchInv
  BY FetchInit
<1>2. FetchInv /\ [FetcherNext]_fetcherVars => FetchInv'
  BY FetchStep
<1>3. FetchInv /\ [FetcherNext]_fetcherVars => [Noted]_fetcherVars
  BY FetchStep
<1> QED BY <1>1, <1>2, <1>3, PTL DEF FetcherSpec, SummaryIsTrue
=============================================================================
