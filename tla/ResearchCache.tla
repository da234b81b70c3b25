---------------------------- MODULE ResearchCache -----------------------------
(***************************************************************************)
(* The cached research of a stock: its fundamentals with the regulatory    *)
(* evidence, its quotes and its analyses by day (store.py,                 *)
(* commands_analysis.py, the flags of commands_monitor.py, cleanup and     *)
(* clear of commands_admin.py).                                            *)
(*                                                                         *)
(* The commands run in processes of their own.  fetch asks its providers   *)
(* first and stores later; set-analysis, set-score, set-score-breakdown    *)
(* and cleanup read in autocommit and write in a later transaction.  Each  *)
(* read and each transaction is an action; commands of one statement or    *)
(* one BEGIN IMMEDIATE transaction are one action.                         *)
(*                                                                         *)
(* One stock code.  Prices, texts and figures are left out; a score stands *)
(* for itself, a breakdown for its total, the evidence for what it says.   *)
(* Timestamps are readings of one clock that does not go back.             *)
(***************************************************************************)
EXTENDS Integers, FiniteSets

CONSTANTS
    Procs,       \* concurrent CLI processes
    Null,        \* SQL NULL, and a row that is absent
    Scores,      \* overall scores
    Flags,       \* red and yellow flags
    DayLength,   \* ticks of a day
    Ttl,         \* ttl_hours of the fundamentals
    AnalysisAge, \* age at which cleanup deletes an analysis (14 days)
    QuoteAge,    \* QUOTE_SNAPSHOT_MAX_AGE
    Retention,   \* QUOTE_SNAPSHOT_RETENTION_PER_CODE
    ReviewAfter, \* last tick at which the exchange's rule is current
    MaxTime,     \* bound: ticks
    MaxPeriod,   \* bound: annual reports
    MaxQuotes,   \* bound: rows ever inserted into quote_snapshots
    MaxCommands  \* bound: commands ever started

ASSUME CacheBounds ==
    /\ DayLength \in Nat \ {0} /\ Retention \in Nat \ {0}
    /\ Ttl \in Nat /\ AnalysisAge \in Nat /\ QuoteAge \in Nat /\ ReviewAfter \in Nat
    /\ MaxTime \in Nat /\ MaxPeriod \in Nat \ {0} /\ MaxQuotes \in Nat
    /\ MaxCommands \in Nat

Times == 0..MaxTime
Days == 0..(MaxTime \div DayLength)
Periods == 1..MaxPeriod
Opt(S) == S \cup {Null}

VARIABLES
    clock, published,  \* the time; the newest annual report the providers have
    fundamentals,      \* the row of stock_fundamentals
    analysis,          \* the rows of analysis_results, by day
    quotes, nextQuote, \* quote_snapshots, AUTOINCREMENT
    pc, seen,          \* where each process is, what it has read
    commands           \* commands started so far

cache == <<fundamentals, analysis, quotes, nextQuote>>
world == <<clock, published>>
vars == <<world, cache, pc, seen, commands>>

Verdicts == {"clear", "blocked", "incomplete"}
\* What the facts of the evidence amount to, before the rule is looked up.
Facts == {"clean", "breach", "unclear"}
Fundamentals == [updated: Times, period: Periods, facts: Opt(Facts), gate: Verdicts]
\* "open": no timing subtotal and no total, the form for an incomplete score.
Breakdowns == Scores \cup {"open"}
Analysis == [created: Times, status: {"complete", "incomplete"}, score: Opt(Scores),
             breakdown: Opt(Breakdowns), flags: SUBSET Flags]
Quote == [id: 1..MaxQuotes, fetched: Times]
ASSUME NullIsNoData ==
    /\ Null \notin Int \cup Breakdowns \cup Facts \cup Fundamentals \cup Analysis
    /\ "open" \notin Scores
Control == {"idle", "fetch_store", "quote_record", "analysis_read", "analysis_write",
            "score_write", "breakdown_write", "cleanup_delete", "cleanup_read",
            "cleanup_rows"}
Memory == [time: Opt(Times), period: Opt(Periods), score: Opt(Scores),
           breakdown: Opt(Breakdowns), day: Opt(Days), row: Opt(Analysis),
           old: [Days -> Opt(Times)]]
Forgotten == [time |-> Null, period |-> Null, score |-> Null, breakdown |-> Null,
              day |-> Null, row |-> Null, old |-> [d \in Days |-> Null]]

Today == clock \div DayLength

\* A command begins, goes on to its next step with what it knows, or is over.
Start(p, next, memory) ==
    /\ pc[p] = "idle" /\ commands < MaxCommands
    /\ commands' = commands + 1
    /\ pc' = [pc EXCEPT ![p] = next] /\ seen' = [seen EXCEPT ![p] = memory]
    /\ UNCHANGED world
Continue(p, here, next, memory) ==
    /\ pc[p] = here
    /\ pc' = [pc EXCEPT ![p] = next] /\ seen' = [seen EXCEPT ![p] = memory]
    /\ UNCHANGED <<world, commands>>
Finish(p, here) == Continue(p, here, "idle", Forgotten)
\* A command of one transaction.
AtOnce(p) == Start(p, "idle", Forgotten)

-----------------------------------------------------------------------------
(* Fundamentals and the regulatory evidence in them. *)

\* regulatory_gate: a breach blocks under any rule, nothing is clear under a rule
\* whose review is due.
Judge(facts) ==
    IF facts = "breach" THEN "blocked"
    ELSE IF facts = "clean" /\ clock <= ReviewAfter THEN "clear" ELSE "incomplete"

\* The evidence that a refresh for this period carries forward.
Effective(row) == row # Null /\ row.facts # Null /\ row.gate \in {"clear", "blocked"}
Carried(row, period) == Effective(row) /\ row.period = period

Refreshed(row, period) ==
    IF Carried(row, period)
    THEN [updated |-> clock, period |-> period, facts |-> row.facts, gate |-> Judge(row.facts)]
    ELSE [updated |-> clock, period |-> period, facts |-> Null, gate |-> "incomplete"]

FetchStart(p) ==
    /\ Start(p, "fetch_store", [Forgotten EXCEPT !.period = published])
    /\ UNCHANGED cache
\* Mutant: the old evidence is dropped, as before the specification of 2026-10-22.
FetchStore_Forgets(p) ==
    /\ Finish(p, "fetch_store")
    /\ fundamentals' = Refreshed(Null, seen[p].period)
    /\ UNCHANGED <<analysis, quotes, nextQuote>>
FetchStore(p) ==
    /\ Finish(p, "fetch_store")
    /\ fundamentals' = Refreshed(fundamentals, seen[p].period)
    /\ UNCHANGED <<analysis, quotes, nextQuote>>

\* set writes the caller's payload; it may hold a gate, but not evidence of this kind.
SetFundamentals(p, period, gate) ==
    /\ AtOnce(p)
    /\ fundamentals' = [updated |-> clock, period |-> period, facts |-> Null, gate |-> gate]
    /\ UNCHANGED <<analysis, quotes, nextQuote>>

\* regulatory-evidence judges and keeps the facts, and leaves updated_at alone.
RegulatoryEvidence(p, facts) ==
    /\ AtOnce(p) /\ fundamentals # Null
    /\ fundamentals' = [fundamentals EXCEPT !.facts = facts, !.gate = Judge(facts)]
    /\ UNCHANGED <<analysis, quotes, nextQuote>>

-----------------------------------------------------------------------------
(* Quotes. *)

Later(q, r) == q.fetched > r.fetched \/ (q.fetched = r.fetched /\ q.id > r.id)
\* Mutant: in the order of insertion.
Newest_ById(S) == {q \in S : Cardinality({r \in S : r.id > q.id}) < Retention}
Newest(S) == {q \in S : Cardinality({r \in S : Later(r, q)}) < Retention}
Quoted == \E q \in quotes : clock - q.fetched <= QuoteAge

QuoteFetch(p) ==
    /\ Start(p, "quote_record", [Forgotten EXCEPT !.time = clock])
    /\ UNCHANGED cache
QuoteRecord(p) ==
    /\ Finish(p, "quote_record") /\ nextQuote <= MaxQuotes
    /\ quotes' = Newest(quotes \cup {[id |-> nextQuote, fetched |-> seen[p].time]})
    /\ nextQuote' = nextQuote + 1
    /\ UNCHANGED <<fundamentals, analysis>>

-----------------------------------------------------------------------------
(* The analysis of a day, its score, its breakdown and its flags. *)

\* _validate_score_breakdown_schema
Matches(b, status, score) ==
    IF status = "incomplete" THEN b = "open"
    ELSE b \in Scores /\ score \in {Null, b}
\* A breakdown that a new status and score leave in contradiction.
Stale(row, status, score) ==
    row # Null /\ row.breakdown # Null /\ ~Matches(row.breakdown, status, score)

\* set-analysis: without a fresh quote it ends; then today's row, then the upsert.
AnalysisQuote(p, score) ==
    /\ Start(p, "analysis_read", [Forgotten EXCEPT !.score = score]) /\ Quoted
    /\ UNCHANGED cache
AnalysisRead(p) ==
    /\ Continue(p, "analysis_read", "analysis_write",
                [seen[p] EXCEPT !.day = Today, !.row = analysis[Today]])
    /\ UNCHANGED cache
\* Mutants: the row is replaced whole; the breakdown always stays.
AnalysisWrite_Replaces(p) ==
    /\ Finish(p, "analysis_write")
    /\ LET status == IF seen[p].score = Null THEN "incomplete" ELSE "complete"
       IN  analysis' = [analysis EXCEPT ![seen[p].day] =
               [created |-> clock, status |-> status, score |-> seen[p].score,
                breakdown |-> Null, flags |-> {}]]
    /\ UNCHANGED <<fundamentals, quotes, nextQuote>>
AnalysisWrite(p) ==
    /\ Finish(p, "analysis_write")
    /\ LET row == analysis[seen[p].day]
           status == IF seen[p].score = Null THEN "incomplete" ELSE "complete"
       IN  analysis' = [analysis EXCEPT ![seen[p].day] =
               [created |-> clock, status |-> status, score |-> seen[p].score,
                breakdown |-> IF row = Null \/ Stale(seen[p].row, status, seen[p].score)
                              THEN Null ELSE row.breakdown,
                flags |-> IF row = Null THEN {} ELSE row.flags]]
    /\ UNCHANGED <<fundamentals, quotes, nextQuote>>

\* set-score: refused for an incomplete row; a breakdown it contradicts goes.
ScoreRead(p, score) ==
    /\ analysis[Today] # Null => analysis[Today].status = "complete"
    /\ Start(p, "score_write", [Forgotten EXCEPT !.score = score, !.day = Today,
                                                 !.row = analysis[Today]])
    /\ UNCHANGED cache
\* Mutant: the breakdown stays.
ScoreWrite_KeepsBreakdown(p) ==
    /\ Finish(p, "score_write")
    /\ analysis' = [analysis EXCEPT ![seen[p].day] =
           IF @ = Null THEN Null ELSE [@ EXCEPT !.score = seen[p].score]]
    /\ UNCHANGED <<fundamentals, quotes, nextQuote>>
ScoreWrite(p) ==
    /\ Finish(p, "score_write")
    /\ LET now == analysis[seen[p].day]
           read == seen[p].row
           stale == read # Null /\ Stale(read, read.status, seen[p].score)
       IN  analysis' = [analysis EXCEPT ![seen[p].day] =
               IF now = Null THEN Null
               ELSE [now EXCEPT !.score = seen[p].score,
                                !.breakdown = IF stale THEN Null ELSE now.breakdown]]
    /\ UNCHANGED <<fundamentals, quotes, nextQuote>>

\* set-score-breakdown: checked against the row it read.
BreakdownRead(p, b) ==
    /\ analysis[Today] # Null /\ Matches(b, analysis[Today].status, analysis[Today].score)
    /\ Start(p, "breakdown_write", [Forgotten EXCEPT !.breakdown = b, !.day = Today,
                                                     !.row = analysis[Today]])
    /\ UNCHANGED cache
BreakdownWrite(p) ==
    /\ Finish(p, "breakdown_write")
    /\ analysis' = [analysis EXCEPT ![seen[p].day] =
           IF @ = Null THEN Null ELSE [@ EXCEPT !.breakdown = seen[p].breakdown]]
    /\ UNCHANGED <<fundamentals, quotes, nextQuote>>

SetFlag(p, flag) ==
    /\ AtOnce(p) /\ analysis[Today] # Null
    /\ analysis' = [analysis EXCEPT ![Today].flags = @ \cup {flag}]
    /\ UNCHANGED <<fundamentals, quotes, nextQuote>>
ClearFlag(p) ==
    /\ AtOnce(p) /\ analysis[Today] # Null
    /\ analysis' = [analysis EXCEPT ![Today].flags = {}]
    /\ UNCHANGED <<fundamentals, quotes, nextQuote>>

-----------------------------------------------------------------------------
(* Cleanup and clear. *)

Expired(row) == row # Null /\ clock - row.updated > Ttl
Old(row) == row # Null /\ row.created < clock - AnalysisAge

\* The first DELETE opens the transaction.  If the fundamentals have expired, that
\* comes before the analyses are read, otherwise after.
CleanupStocks(p) ==
    /\ IF Expired(fundamentals)
       THEN Start(p, "cleanup_delete", [Forgotten EXCEPT !.time = fundamentals.updated])
       ELSE Start(p, "cleanup_read", Forgotten)
    /\ UNCHANGED cache
\* Mutant: the row is deleted by its code alone.
CleanupDelete_ByCode(p) ==
    /\ Finish(p, "cleanup_delete")
    /\ fundamentals' = Null
    /\ analysis' = [d \in Days |-> IF Old(analysis[d]) THEN Null ELSE analysis[d]]
    /\ quotes' = Newest(quotes)
    /\ UNCHANGED nextQuote
CleanupDelete(p) ==
    /\ Finish(p, "cleanup_delete")
    /\ fundamentals' = IF fundamentals # Null /\ fundamentals.updated = seen[p].time
                       THEN Null ELSE fundamentals
    /\ analysis' = [d \in Days |-> IF Old(analysis[d]) THEN Null ELSE analysis[d]]
    /\ quotes' = Newest(quotes)
    /\ UNCHANGED nextQuote
CleanupRead(p) ==
    /\ Continue(p, "cleanup_read", "cleanup_rows",
                [seen[p] EXCEPT !.old =
                    [d \in Days |-> IF Old(analysis[d]) THEN analysis[d].created ELSE Null]])
    /\ UNCHANGED cache
CleanupRows(p) ==
    /\ Finish(p, "cleanup_rows")
    /\ analysis' = [d \in Days |-> IF analysis[d] # Null
                                      /\ analysis[d].created = seen[p].old[d]
                                   THEN Null ELSE analysis[d]]
    /\ quotes' = Newest(quotes)
    /\ UNCHANGED <<fundamentals, nextQuote>>

Clear(p) ==
    /\ AtOnce(p)
    /\ fundamentals' = Null /\ analysis' = [d \in Days |-> Null] /\ quotes' = {}
    /\ UNCHANGED nextQuote

-----------------------------------------------------------------------------

\* A process ends between its steps: what it would have written is lost.
GiveUp(p) ==
    /\ pc[p] # "idle" /\ Finish(p, pc[p])
    /\ UNCHANGED cache

Tick ==
    /\ clock < MaxTime /\ clock' = clock + 1
    /\ UNCHANGED <<published, cache, pc, seen, commands>>
Publish ==
    /\ published < MaxPeriod /\ published' = published + 1
    /\ UNCHANGED <<clock, cache, pc, seen, commands>>

\* Today's row of a release without decisions or scoring status, and fundamentals.
Init ==
    /\ clock = 0 /\ published = 1
    /\ fundamentals \in {Null, [updated |-> 0, period |-> 1, facts |-> Null,
                                gate |-> "incomplete"]}
    /\ \E score \in Opt(Scores), b \in Opt(Scores), row \in BOOLEAN :
          /\ b # Null => Matches(b, "complete", score)
          /\ analysis = [d \in Days |->
                IF row /\ d = 0
                THEN [created |-> 0, status |-> "complete", score |-> score, breakdown |-> b,
                      flags |-> {}]
                ELSE Null]
    /\ quotes = {} /\ nextQuote = 1
    /\ pc = [p \in Procs |-> "idle"] /\ seen = [p \in Procs |-> Forgotten] /\ commands = 0

Next ==
    \/ Tick \/ Publish
    \/ \E p \in Procs :
          \/ FetchStart(p) \/ FetchStore(p)
          \/ \E period \in Periods, gate \in Verdicts : SetFundamentals(p, period, gate)
          \/ \E facts \in Facts : RegulatoryEvidence(p, facts)
          \/ QuoteFetch(p) \/ QuoteRecord(p)
          \/ \E score \in Opt(Scores) : AnalysisQuote(p, score)
          \/ AnalysisRead(p) \/ AnalysisWrite(p)
          \/ \E score \in Scores : ScoreRead(p, score)
          \/ ScoreWrite(p)
          \/ \E b \in Breakdowns : BreakdownRead(p, b)
          \/ BreakdownWrite(p)
          \/ \E flag \in Flags : SetFlag(p, flag)
          \/ ClearFlag(p)
          \/ CleanupStocks(p) \/ CleanupDelete(p) \/ CleanupRead(p) \/ CleanupRows(p)
          \/ Clear(p) \/ GiveUp(p)

Spec == Init /\ [][Next]_vars

-----------------------------------------------------------------------------
(* Properties. *)

\* Types; in particular the quote table never outgrows its retention.
TypeOK ==
    /\ clock \in Times /\ published \in Periods
    /\ fundamentals \in Opt(Fundamentals)
    /\ analysis \in [Days -> Opt(Analysis)]
    /\ quotes \subseteq Quote /\ nextQuote \in 1..(MaxQuotes + 1)
    /\ Cardinality(quotes) <= Retention
    /\ pc \in [Procs -> Control] /\ seen \in [Procs -> Memory]
    /\ commands \in 0..MaxCommands

\* While the annual report is the same, evidence that counts goes only by a new entry
\* of the user: a refresh that began before it was recorded keeps it, a breach stays
\* blocked.
EvidenceSurvivesRefresh ==
    [][(/\ Effective(fundamentals) /\ fundamentals' # Null
        /\ fundamentals'.period = fundamentals.period)
       => \/ \E p \in Procs, period \in Periods, gate \in Verdicts :
                SetFundamentals(p, period, gate)
          \/ \E p \in Procs, facts \in Facts : RegulatoryEvidence(p, facts)
          \/ /\ fundamentals'.facts = fundamentals.facts
             /\ fundamentals.facts = "breach" => fundamentals'.gate = "blocked"]_vars

\* However late a quote is recorded, it displaces no newer one.
LatestNeverRegresses ==
    [][\A q \in quotes :
          (\E r \in quotes' : r.fetched >= q.fetched) \/ \E p \in Procs : Clear(p)]_vars

\* Status, score and breakdown of a row agree.
Agrees(row) ==
    row # Null =>
        /\ row.status = "incomplete" => row.score = Null
        /\ row.breakdown # Null => Matches(row.breakdown, row.status, row.score)

\* The three writers keep a row in agreement; only one whose row was changed after it
\* read it can break it.
OnlyRacesTear ==
    [][\A d \in Days :
          Agrees(analysis[d]) /\ ~Agrees(analysis'[d]) =>
              \E p \in Procs :
                  /\ pc[p] \in {"analysis_write", "score_write", "breakdown_write"}
                  /\ pc'[p] = "idle" /\ seen[p].day = d /\ seen[p].row # analysis[d]]_vars

\* No flag of a day is lost, whatever else is written to the row.
FlagsNotLost ==
    [][\A d \in Days :
          analysis[d] # Null /\ analysis'[d] # Null =>
              \/ analysis[d].flags \subseteq analysis'[d].flags
              \/ \E p \in Procs : ClearFlag(p)]_vars

\* cleanup deletes what has expired when it is deleted, not what had when it was read.
FreshSurvivesCleanup ==
    [][\/ \E p \in Procs : Clear(p)
       \/ /\ fundamentals # Null /\ fundamentals' = Null => Expired(fundamentals)
          /\ \A d \in Days :
                analysis[d] # Null /\ analysis'[d] = Null => Old(analysis[d])]_vars
=============================================================================
