------------------------------ MODULE MCMonitor ------------------------------
(***************************************************************************)
(* Two codes.  The ordinary facts lie on the boundaries: dividends of just *)
(* 0.30, a return of just 0.75 of the mean, expenditure that just equals   *)
(* the cash flow, and a position whose risk is just the limit.  Everything *)
(* else that a fact can be is a step away from the ordinary, together with *)
(* the pairs of facts that only matter together.  A snapshot may read two  *)
(* odd inputs: two of one position or of the account, or one of each, or   *)
(* one of each code if it tells on the other.                              *)
(***************************************************************************)
EXTENDS Monitor, TLC

CONSTANTS c1, c2

Put(facts, x) == [facts EXCEPT ![x[1]] = x[2]]
Within(ordinary, odd, bound) ==
    [k \in 0..bound |-> IF k = 0 THEN {ordinary} ELSE {ordinary} \cup odd]

MCCandidate == [c \in Codes |-> "SSE main"]

GoodEvidence == [
    listing |-> "normal", financial |-> "clean", control |-> "clean", note |-> FALSE,
    probe |-> "none", stated |-> TRUE, board |-> "SSE main", profit |-> 10, parentProfit |-> 10,
    groupProfit |-> 10, dividends |-> 3, meanProfit |-> 10, exempt |-> FALSE,
    sources |-> "official", dated |-> TRUE]
OddEvidence1 == {
    <<"listing", "flagged">>, <<"listing", None>>, <<"financial", "qualified">>,
    <<"control", "adverse">>, <<"control", "undisclosed">>, <<"control", None>>, <<"note", TRUE>>,
    <<"probe", "company">>, <<"probe", "person">>, <<"probe", "person with impact">>,
    <<"stated", FALSE>>, <<"board", "SZSE chinext">>, <<"board", "BSE">>, <<"board", None>>,
    <<"profit", 0>>, <<"profit", None>>, <<"parentProfit", 0>>,
    <<"dividends", 2>>, <<"dividends", None>>, <<"meanProfit", 11>>, <<"exempt", TRUE>>,
    <<"sources", "other">>, <<"sources", "none">>, <<"dated", FALSE>>}
OddEvidence2 == {
    <<<<"listing", "flagged">>, <<"dated", FALSE>>>>,
    <<<<"listing", "flagged">>, <<"sources", "other">>>>,
    <<<<"dividends", 2>>, <<"exempt", TRUE>>>>,
    <<<<"dividends", 5>>, <<"meanProfit", 20>>>>,
    <<<<"board", "SZSE chinext">>, <<"groupProfit", 0>>>>,
    <<<<"board", "SZSE chinext">>, <<"groupProfit", None>>>>}
MCEvidenceWithin ==
    Within(GoodEvidence, {Put(GoodEvidence, x) : x \in OddEvidence1}
                         \cup {Put(Put(GoodEvidence, x[1]), x[2]) : x \in OddEvidence2}, MaxOdd)

GoodStatement == [
    roe |-> 12, meanRoe |-> 16, cfo |-> 8, capex |-> 8, roeSources |-> "mirror", roeDated |-> TRUE,
    cashSources |-> "mirror", cashDated |-> TRUE, financial |-> FALSE, business |-> TRUE]
OddStatement1 == {
    <<"roe", -1>>, <<"roe", 11>>, <<"roe", None>>, <<"meanRoe", 0>>, <<"meanRoe", None>>,
    <<"cfo", 0>>, <<"cfo", None>>, <<"capex", 9>>, <<"capex", 11>>, <<"capex", None>>,
    <<"roeSources", "none">>, <<"roeDated", FALSE>>, <<"cashSources", "none">>,
    <<"cashDated", FALSE>>, <<"financial", TRUE>>, <<"business", FALSE>>}
OddStatement2 == {
    <<<<"financial", TRUE>>, <<"cashSources", "none">>>>,
    <<<<"capex", 9>>, <<"cashSources", "none">>>>,
    <<<<"capex", 9>>, <<"roe", 11>>>>}
MCStatementsWithin ==
    Within(GoodStatement, {Put(GoodStatement, x) : x \in OddStatement1}
                          \cup {Put(Put(GoodStatement, x[1]), x[2]) : x \in OddStatement2}, MaxOdd)

GoodReview == [complete |-> TRUE, sources |-> "official", fits |-> TRUE, coverage |-> 100, roe |-> 15]
MCReviews == {None, GoodReview} \cup {Put(GoodReview, x) : x \in {
    <<"complete", FALSE>>, <<"sources", "mirror">>, <<"sources", "other">>, <<"fits", FALSE>>,
    <<"coverage", 99>>, <<"coverage", None>>, <<"roe", 14>>, <<"roe", None>>}}

-----------------------------------------------------------------------------
GoodPosition == [
    held |-> TRUE, named |-> TRUE, readable |-> TRUE, framework |-> "A", sure |-> TRUE,
    shares |-> 10, reference |-> 100, stop1 |-> 85, stop2 |-> 80, tier1 |-> "pending",
    laterTiers |-> TRUE, path |-> None, target |-> None, exemption |-> FALSE,
    alert |-> "none", theses |-> 1, conditions |-> 1, valid |-> TRUE, exits |-> TRUE,
    state |-> "not_triggered", review |-> "later", quote |-> "fresh", price |-> 100,
    close |-> 100, industry |-> 0, card |-> "valid"]
OddPosition == {
    <<"held", FALSE>>, <<"named", FALSE>>, <<"readable", FALSE>>,
    <<"framework", "C">>, <<"framework", None>>, <<"sure", FALSE>>, <<"shares", None>>,
    <<"reference", None>>, <<"stop1", None>>, <<"stop2", None>>, <<"tier1", "completed">>,
    <<"tier1", None>>, <<"laterTiers", FALSE>>, <<"path", "A">>, <<"path", "B">>, <<"path", "C">>,
    <<"target", 25>>, <<"exemption", TRUE>>, <<"alert", "open">>, <<"alert", "due">>,
    <<"alert", "undatable">>, <<"theses", 0>>, <<"theses", 2>>, <<"conditions", 0>>,
    <<"valid", FALSE>>, <<"exits", FALSE>>, <<"state", "pending">>, <<"state", "watch">>,
    <<"state", "triggered">>, <<"review", "due">>, <<"review", "undatable">>,
    <<"quote", "stale">>, <<"quote", "untimed">>, <<"quote", "none">>,
    <<"price", 80>>, <<"price", 85>>, <<"price", 97>>, <<"price", 125>>, <<"close", 103>>,
    <<"close", None>>, <<"industry", 2>>, <<"industry", None>>,
    <<"card", "none">>, <<"card", "to review">>}
GoodAccount == [value |-> 10000, unscoped |-> FALSE, portfolioLimit |-> 4,
                industries |-> "complete", research |-> "ok", twin |-> None]
OddAccount == {
    <<"value", None>>, <<"value", 9999>>, <<"value", 1000000>>, <<"unscoped", TRUE>>,
    <<"portfolioLimit", 3>>, <<"industries", "stale">>, <<"industries", "invalid">>,
    <<"industries", "unavailable">>, <<"research", "unavailable">>,
    <<"research", "not_configured">>} \cup {<<"twin", c>> : c \in Codes}

GoodInputs == [account |-> GoodAccount, positions |-> [c \in Codes |-> GoodPosition]]
AtAccount(in) == {[in EXCEPT !.account = Put(@, x)] : x \in OddAccount}
AtCode(in, c, odd) == {[in EXCEPT !.positions[c] = Put(@, x)] : x \in odd}
Once(c) == AtCode(GoodInputs, c, OddPosition)
AnyOnce == AtAccount(GoodInputs) \cup UNION {Once(c) : c \in Codes}
\* What makes a difference to another code: the totals and the worst status.
Telling == {<<"held", FALSE>>, <<"shares", None>>, <<"quote", "stale">>, <<"quote", "none">>,
            <<"price", 80>>, <<"price", 125>>, <<"state", "triggered">>}
Twice == UNION {AtAccount(in) : in \in AnyOnce}
         \cup UNION {UNION {AtCode(in, d, IF c = d THEN OddPosition ELSE Telling) : in \in Once(c)} :
                        c \in Codes, d \in Codes}
MCInputsWithin ==
    [k \in 0..2 |-> IF k = 0 THEN {GoodInputs} ELSE IF k = 1 THEN {GoodInputs} \cup AnyOnce
                    ELSE {GoodInputs} \cup AnyOnce \cup Twice]

Symmetry == Permutations(Codes)
=============================================================================
