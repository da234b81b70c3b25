------------------------- MODULE ResearchCacheProofs --------------------------
(***************************************************************************)
(* ResearchCache for any number of processes, scores, flags, days and      *)
(* commands and any retention.                                             *)
(*                                                                         *)
(* Beyond the types the invariant says what a command between two of its   *)
(* steps has read, that the quotes are finitely many, and that a breach    *)
(* is never recorded as anything but blocked.                              *)
(***************************************************************************)
EXTENDS ResearchCache, FiniteSetTheorems, WellFoundedInduction, TLAPS

USE CacheBounds, NullIsNoData

\* What a command waiting at a step has read.
Ready(here, memory) ==
    /\ here = "fetch_store" => memory.period \in Periods
    /\ here = "quote_record" => memory.time \in Times
    /\ here = "analysis_write" => memory.day \in Days
    /\ here = "score_write" =>
          /\ memory.day \in Days /\ memory.score \in Scores
          /\ memory.row # Null => memory.row.status = "complete"
    /\ here = "breakdown_write" =>
          /\ memory.day \in Days /\ memory.breakdown \in Breakdowns /\ memory.row # Null
          /\ Matches(memory.breakdown, memory.row.status, memory.row.score)
    /\ here = "cleanup_delete" => memory.time \in Times /\ clock - memory.time > Ttl
    /\ here = "cleanup_rows" =>
          \A d \in Days : memory.old[d] # Null => memory.old[d] < clock - AnalysisAge

AllReady == \A p \in Procs : Ready(pc[p], seen[p])

BreachBlocks == fundamentals # Null /\ fundamentals.facts = "breach"
                    => fundamentals.gate = "blocked"

IInv == TypeOK /\ IsFiniteSet(quotes) /\ AllReady /\ BreachBlocks

-----------------------------------------------------------------------------
(* The order of the quotes. *)

\* Later is a strict total order of quotes.
LEMMA LaterOrders ==
  ASSUME NEW q \in Quote, NEW r \in Quote, NEW s \in Quote
  PROVE  /\ ~Later(q, q)
         /\ Later(s, r) /\ Later(r, q) => Later(s, q)
         /\ q # r => Later(q, r) \/ Later(r, q)
         /\ Later(q, r) => ~Later(r, q) /\ q.fetched >= r.fetched
<1>1. /\ q.fetched \in Int /\ r.fetched \in Int /\ s.fetched \in Int
      /\ q.id \in Int /\ r.id \in Int /\ s.id \in Int
  BY DEF Quote, Times
<1>2. /\ q = [id |-> q.id, fetched |-> q.fetched]
      /\ r = [id |-> r.id, fetched |-> r.fetched]
  BY DEF Quote
<1> QED
  BY <1>1, <1>2 DEF Later

\* A family of subsets of a finite set has a minimal member.
LEMMA MinimalSubset ==
  ASSUME NEW S, IsFiniteSet(S), NEW F \in SUBSET SUBSET S, F # {}
  PROVE  \E A \in F : \A B \in F : B \subseteq A => B = A
<1>1. IsWellFoundedOn(StrictSubsetOrdering(S), SUBSET S)
  <2>1. IsWellFoundedOn(StrictSubsetOrdering(S), FiniteSubsetsOf(S))
    BY FS_StrictSubsetOrderingWellFounded, Zenon
  <2>2. FiniteSubsetsOf(S) = SUBSET S
    BY FS_FiniteSubsetsOfFinite, Zenon
  <2> QED
    BY <2>1, <2>2, Zenon
<1>2. PICK A \in F : \A B \in F : ~(<<B, A>> \in StrictSubsetOrdering(S))
  BY <1>1, WFMin, Zenon
<1> QED
  BY <1>2 DEF StrictSubsetOrdering

\* Finitely many quotes have a latest one.
LEMMA LatestExists ==
  ASSUME NEW S \in SUBSET Quote, IsFiniteSet(S), S # {}
  PROVE  \E q \in S : \A r \in S : ~Later(r, q)
<1> DEFINE After(q) == {r \in S : Later(r, q)}
           F == {After(q) : q \in S}
<1>1. F \in SUBSET SUBSET S /\ F # {}
  <2>1. \A q \in S : After(q) \in SUBSET S
    OBVIOUS
  <2>2. PICK q \in S : TRUE
    OBVIOUS
  <2>3. After(q) \in F
    OBVIOUS
  <2> QED
    BY <2>1, <2>3
<1>2. PICK A \in F : \A B \in F : B \subseteq A => B = A
  <2> HIDE DEF F
  <2> QED
    BY <1>1, MinimalSubset
<1>3. PICK q \in S : A = After(q)
  OBVIOUS
<1>4. ASSUME NEW r \in S, Later(r, q) PROVE FALSE
  <2>1. After(r) \subseteq After(q)
    BY <1>4, LaterOrders
  <2>2. After(r) = After(q)
    BY <1>2, <1>3, <2>1
  <2>3. r \in After(q) /\ r \notin After(r)
    BY <1>4, LaterOrders
  <2> QED
    BY <2>2, <2>3
<1> QED
  BY <1>4

\* ... and an earliest one.
LEMMA EarliestExists ==
  ASSUME NEW S \in SUBSET Quote, IsFiniteSet(S), S # {}
  PROVE  \E q \in S : \A r \in S \ {q} : Later(r, q)
<1> DEFINE Before(q) == {r \in S : Later(q, r)}
           F == {Before(q) : q \in S}
<1>1. F \in SUBSET SUBSET S /\ F # {}
  <2>1. \A q \in S : Before(q) \in SUBSET S
    OBVIOUS
  <2>2. PICK q \in S : TRUE
    OBVIOUS
  <2>3. Before(q) \in F
    OBVIOUS
  <2> QED
    BY <2>1, <2>3
<1>2. PICK A \in F : \A B \in F : B \subseteq A => B = A
  <2> HIDE DEF F
  <2> QED
    BY <1>1, MinimalSubset
<1>3. PICK q \in S : A = Before(q)
  OBVIOUS
<1>4. ASSUME NEW r \in S, Later(q, r) PROVE FALSE
  <2>1. Before(r) \subseteq Before(q)
    BY <1>4, LaterOrders
  <2>2. Before(r) = Before(q)
    BY <1>2, <1>3, <2>1
  <2>3. r \in Before(q) /\ r \notin Before(r)
    BY <1>4, LaterOrders
  <2> QED
    BY <2>2, <2>3
<1> QED
  BY <1>4, LaterOrders

\* Pruning keeps at most Retention quotes, and the latest among them.
LEMMA NewestKeeps ==
  ASSUME NEW S \in SUBSET Quote, IsFiniteSet(S)
  PROVE  /\ Newest(S) \subseteq S /\ IsFiniteSet(Newest(S))
         /\ Cardinality(Newest(S)) <= Retention
         /\ \A q \in S : \E r \in Newest(S) : r.fetched >= q.fetched
<1> DEFINE After(q) == {r \in S : Later(r, q)}
<1>1. Newest(S) \subseteq S /\ IsFiniteSet(Newest(S))
  BY FS_Subset DEF Newest
<1>2. \A q \in S : IsFiniteSet(After(q)) /\ Cardinality(After(q)) \in Nat
  BY FS_Subset, FS_CardinalityType
<1>3. Cardinality(Newest(S)) <= Retention
  <2>1. Cardinality(Newest(S)) \in Nat
    BY <1>1, FS_CardinalityType
  <2>2. CASE Newest(S) = {}
    BY <2>2, FS_EmptySet
  <2>3. CASE Newest(S) # {}
    <3>1. PICK q \in Newest(S) : \A r \in Newest(S) \ {q} : Later(r, q)
      BY <1>1, <2>3, EarliestExists
    <3>2. Newest(S) \ {q} \subseteq After(q)
      BY <1>1, <3>1
    <3>3. Cardinality(Newest(S) \ {q}) <= Cardinality(After(q))
      BY <1>1, <1>2, <3>2, FS_Subset
    <3>4. Cardinality(Newest(S) \ {q}) = Cardinality(Newest(S)) - 1
      BY <1>1, <3>1, FS_RemoveElement
    <3>5. Cardinality(After(q)) < Retention
      BY DEF Newest
    <3>6. Cardinality(After(q)) \in Nat
      BY <1>1, <1>2
    <3> QED
      BY <2>1, <3>3, <3>4, <3>5, <3>6
  <2> QED
    BY <2>2, <2>3
<1>4. ASSUME NEW q \in S PROVE \E r \in Newest(S) : r.fetched >= q.fetched
  <2>1. PICK r \in S : \A s \in S : ~Later(s, r)
    BY LatestExists
  <2>2. After(r) = {}
    BY <2>1
  <2>3. r \in Newest(S)
    BY <2>2, FS_EmptySet DEF Newest
  <2>4. r.fetched >= q.fetched
    BY <2>1, LaterOrders DEF Quote, Times
  <2> QED
    BY <2>3, <2>4
<1> QED
  BY <1>1, <1>3, <1>4

-----------------------------------------------------------------------------
(* Types of what the actions write. *)

\* The clock names a day of the table.
LEMMA TodayIsADay == clock \in Times => Today \in Days
<1> SUFFICES ASSUME clock \in Times PROVE Today \in Days
  OBVIOUS
<1>1. clock \in Nat /\ clock <= MaxTime
  BY DEF Times
<1>2. clock \div DayLength \in Nat /\ clock \div DayLength <= MaxTime \div DayLength
  BY <1>1
<1> QED
  BY <1>2 DEF Today, Days

LEMMA NullIsApart ==
  /\ Null \notin Times /\ Null \notin Periods /\ Null \notin Scores /\ Null \notin Days
  /\ Null \notin Breakdowns /\ Null \notin Fundamentals /\ Null \notin Analysis
  /\ Null \notin Facts
  /\ Forgotten \in Memory
  BY DEF Times, Periods, Days, Breakdowns, Forgotten, Memory, Opt

LEMMA JudgeIsAVerdict == \A facts : Judge(facts) \in Verdicts
  BY DEF Judge, Verdicts

LEMMA RefreshedIsTyped ==
  ASSUME clock \in Times, NEW period \in Periods, NEW row \in Opt(Fundamentals)
  PROVE  Refreshed(row, period) \in Fundamentals
<1>1. CASE Carried(row, period)
  <2>1. row # Null /\ row.facts # Null
    BY <1>1 DEF Carried, Effective
  <2>2. row.facts \in Facts
    BY <2>1 DEF Opt, Fundamentals
  <2>3. Judge(row.facts) \in Verdicts
    BY JudgeIsAVerdict
  <2> QED
    BY <1>1, <2>2, <2>3 DEF Refreshed, Fundamentals, Opt
<1>2. CASE ~Carried(row, period)
  BY <1>2 DEF Refreshed, Fundamentals, Opt, Verdicts
<1> QED
  BY <1>1, <1>2

LEMMA RefreshedBlocks ==
  ASSUME NEW row, NEW period, Refreshed(row, period).facts = "breach"
  PROVE  Refreshed(row, period).gate = "blocked"
<1>1. Null # "breach"
  BY NullIsApart DEF Facts
<1>2. CASE Carried(row, period)
  <2>1. Refreshed(row, period) = [updated |-> clock, period |-> period, facts |-> row.facts,
                                  gate |-> Judge(row.facts)]
    BY <1>2 DEF Refreshed
  <2> QED
    BY <2>1 DEF Judge
<1>3. CASE ~Carried(row, period)
  <2>1. Refreshed(row, period).facts = Null
    BY <1>3 DEF Refreshed
  <2> QED
    BY <1>1, <2>1
<1> QED
  BY <1>2, <1>3

\* A process that moves to its next step with what that step needs.
LEMMA MoveKeepsMemories ==
  ASSUME TypeOK, AllReady, clock' = clock,
         NEW p \in Procs, NEW next \in Control, NEW memory \in Memory, Ready(next, memory),
         pc' = [pc EXCEPT ![p] = next], seen' = [seen EXCEPT ![p] = memory]
  PROVE  /\ pc' \in [Procs -> Control] /\ seen' \in [Procs -> Memory]
         /\ AllReady'
<1>1. pc' \in [Procs -> Control] /\ seen' \in [Procs -> Memory]
  BY DEF TypeOK
<1>2. ASSUME NEW q \in Procs PROVE Ready(pc[q], seen[q])'
  <2>1. CASE q = p
    <3>1. pc'[q] = next /\ seen'[q] = memory
      BY <2>1 DEF TypeOK
    <3> QED
      BY <3>1 DEF Ready
  <2>2. CASE q # p
    <3>1. pc'[q] = pc[q] /\ seen'[q] = seen[q]
      BY <2>2 DEF TypeOK
    <3>2. Ready(pc[q], seen[q])
      BY DEF AllReady
    <3> QED
      BY <3>1, <3>2 DEF Ready
  <2> QED
    BY <2>1, <2>2
<1> QED
  BY <1>1, <1>2 DEF AllReady

\* Half of the invariant: the processes and the time.
ProcsInv ==
    /\ clock \in Times /\ published \in Periods
    /\ pc \in [Procs -> Control] /\ seen \in [Procs -> Memory]
    /\ commands \in 0..MaxCommands
    /\ AllReady
\* The other half: the tables.
CacheInv ==
    /\ fundamentals \in Opt(Fundamentals)
    /\ analysis \in [Days -> Opt(Analysis)]
    /\ quotes \subseteq Quote /\ nextQuote \in 1..(MaxQuotes + 1)
    /\ Cardinality(quotes) <= Retention
    /\ IsFiniteSet(quotes) /\ BreachBlocks

LEMMA TwoHalves == ProcsInv' /\ CacheInv' => IInv'
  BY DEF IInv, TypeOK, ProcsInv, CacheInv

LEMMA StartKeeps ==
  ASSUME IInv, NEW p \in Procs, NEW next \in Control, NEW memory \in Memory,
         Ready(next, memory), Start(p, next, memory)
  PROVE  ProcsInv'
<1>1. TypeOK /\ AllReady /\ clock' = clock /\ published' = published
  BY DEF IInv, Start, world
<1>2. pc' = [pc EXCEPT ![p] = next] /\ seen' = [seen EXCEPT ![p] = memory]
  BY DEF Start
<1>3. commands' \in 0..MaxCommands
  BY <1>1 DEF TypeOK, Start
<1> QED
  BY <1>1, <1>2, <1>3, MoveKeepsMemories DEF ProcsInv, TypeOK

LEMMA ContinueKeeps ==
  ASSUME IInv, NEW p \in Procs, NEW here, NEW next \in Control, NEW memory \in Memory,
         Ready(next, memory), Continue(p, here, next, memory)
  PROVE  ProcsInv'
<1>1. /\ TypeOK /\ AllReady /\ clock' = clock /\ published' = published
      /\ commands' = commands
  BY DEF IInv, Continue, world
<1>2. pc' = [pc EXCEPT ![p] = next] /\ seen' = [seen EXCEPT ![p] = memory]
  BY DEF Continue
<1> QED
  BY <1>1, <1>2, MoveKeepsMemories DEF ProcsInv, TypeOK

LEMMA IdleIsReady == "idle" \in Control /\ Ready("idle", Forgotten)
  BY DEF Control, Ready

\* A process that stops, and a command of one transaction, need nothing more.
LEMMA FinishKeeps ==
  ASSUME IInv, NEW p \in Procs, NEW here, Finish(p, here)
  PROVE  ProcsInv'
  BY NullIsApart, IdleIsReady, ContinueKeeps DEF Finish

LEMMA AtOnceKeeps ==
  ASSUME IInv, NEW p \in Procs, AtOnce(p)
  PROVE  ProcsInv'
  BY NullIsApart, IdleIsReady, StartKeeps DEF AtOnce

LEMMA UnchangedCacheKeeps ==
  ASSUME IInv, UNCHANGED cache
  PROVE  CacheInv'
  BY DEF IInv, TypeOK, CacheInv, cache, BreachBlocks

\* Writing one table keeps what is said of the others.
LEMMA WritingFundamentals ==
  ASSUME IInv, fundamentals' \in Opt(Fundamentals), UNCHANGED <<analysis, quotes, nextQuote>>,
         BreachBlocks'
  PROVE  CacheInv'
  BY DEF IInv, TypeOK, CacheInv

LEMMA WritingAnalysis ==
  ASSUME IInv, analysis' \in [Days -> Opt(Analysis)],
         UNCHANGED <<fundamentals, quotes, nextQuote>>
  PROVE  CacheInv'
  BY DEF IInv, TypeOK, CacheInv, BreachBlocks

-----------------------------------------------------------------------------
(* The actions keep the invariant. *)

LEMMA FundamentalsStepsKeep ==
  ASSUME IInv, NEW p \in Procs,
         \/ FetchStart(p) \/ FetchStore(p)
         \/ \E period \in Periods, gate \in Verdicts : SetFundamentals(p, period, gate)
         \/ \E facts \in Facts : RegulatoryEvidence(p, facts)
  PROVE  IInv'
<1> USE NullIsApart
<1>0. clock \in Times /\ clock \in Int /\ published \in Periods
      /\ fundamentals \in Opt(Fundamentals) /\ pc[p] \in Control /\ seen[p] \in Memory
      /\ Ready(pc[p], seen[p])
  BY DEF IInv, TypeOK, AllReady, Times
<1>1. CASE FetchStart(p)
  <2> DEFINE memory == [Forgotten EXCEPT !.period = published]
  <2>1. memory \in Memory /\ Ready("fetch_store", memory) /\ "fetch_store" \in Control
    BY <1>0 DEF Memory, Forgotten, Opt, Ready, Control
  <2>2. Start(p, "fetch_store", memory)
    BY <1>1 DEF FetchStart
  <2>3. ProcsInv'
    <3> HIDE DEF memory
    <3> QED
      BY <2>1, <2>2, StartKeeps
  <2>4. CacheInv'
    BY <1>1, UnchangedCacheKeeps DEF FetchStart
  <2> QED
    BY <2>3, <2>4, TwoHalves
<1>2. CASE FetchStore(p)
  <2>1. ProcsInv'
    BY <1>2, FinishKeeps DEF FetchStore
  <2>2. seen[p].period \in Periods
    BY <1>0, <1>2 DEF FetchStore, Finish, Continue, Ready
  <2>3. fundamentals' \in Fundamentals
    BY <1>0, <1>2, <2>2, RefreshedIsTyped DEF FetchStore
  <2>4. BreachBlocks'
    <3>1. fundamentals' = Refreshed(fundamentals, seen[p].period)
      BY <1>2 DEF FetchStore
    <3> QED
      BY <3>1, RefreshedBlocks DEF BreachBlocks
  <2>5. CacheInv'
    BY <1>2, <2>3, <2>4, WritingFundamentals DEF FetchStore, Opt
  <2> QED
    BY <2>1, <2>5, TwoHalves
<1>3. CASE \E period \in Periods, gate \in Verdicts : SetFundamentals(p, period, gate)
  <2>1. PICK period \in Periods, gate \in Verdicts : SetFundamentals(p, period, gate)
    BY <1>3
  <2>2. ProcsInv'
    BY <2>1, AtOnceKeeps DEF SetFundamentals
  <2>3. fundamentals' \in Fundamentals
    BY <1>0, <2>1 DEF SetFundamentals, Fundamentals, Opt
  <2>4. BreachBlocks'
    <3>1. Null # "breach"
      BY DEF Facts
    <3> QED
      BY <2>1, <3>1 DEF SetFundamentals, BreachBlocks
  <2>5. CacheInv'
    BY <2>1, <2>3, <2>4, WritingFundamentals DEF SetFundamentals, Opt
  <2> QED
    BY <2>2, <2>5, TwoHalves
<1>4. CASE \E facts \in Facts : RegulatoryEvidence(p, facts)
  <2>1. PICK facts \in Facts : RegulatoryEvidence(p, facts)
    BY <1>4
  <2>2. ProcsInv'
    BY <2>1, AtOnceKeeps DEF RegulatoryEvidence
  <2>3. fundamentals \in Fundamentals
    BY <1>0, <2>1 DEF RegulatoryEvidence, Opt
  <2>4. Judge(facts) \in Verdicts
    BY JudgeIsAVerdict
  <2>5. fundamentals' \in Fundamentals
    BY <2>1, <2>3, <2>4 DEF RegulatoryEvidence, Fundamentals, Opt
  <2>6. fundamentals'.facts = facts /\ fundamentals'.gate = Judge(facts)
    BY <2>1, <2>3 DEF RegulatoryEvidence, Fundamentals
  <2>7. BreachBlocks'
    BY <2>6 DEF BreachBlocks, Judge
  <2>8. CacheInv'
    BY <2>1, <2>5, <2>7, WritingFundamentals DEF RegulatoryEvidence, Opt
  <2> QED
    BY <2>2, <2>8, TwoHalves
<1> QED
  BY <1>1, <1>2, <1>3, <1>4

LEMMA QuoteStepsKeep ==
  ASSUME IInv, NEW p \in Procs, QuoteFetch(p) \/ QuoteRecord(p)
  PROVE  IInv'
<1> USE NullIsApart
<1>0. clock \in Times /\ pc[p] \in Control /\ seen[p] \in Memory /\ Ready(pc[p], seen[p])
      /\ quotes \in SUBSET Quote /\ IsFiniteSet(quotes) /\ nextQuote \in 1..(MaxQuotes + 1)
  BY DEF IInv, TypeOK, AllReady
<1>1. CASE QuoteFetch(p)
  <2> DEFINE memory == [Forgotten EXCEPT !.time = clock]
  <2>1. memory \in Memory /\ Ready("quote_record", memory) /\ "quote_record" \in Control
    BY <1>0 DEF Memory, Forgotten, Opt, Ready, Control
  <2>2. Start(p, "quote_record", memory)
    BY <1>1 DEF QuoteFetch
  <2>3. ProcsInv'
    <3> HIDE DEF memory
    <3> QED
      BY <2>1, <2>2, StartKeeps
  <2>4. CacheInv'
    BY <1>1, UnchangedCacheKeeps DEF QuoteFetch
  <2> QED
    BY <2>3, <2>4, TwoHalves
<1>2. CASE QuoteRecord(p)
  <2> DEFINE new == [id |-> nextQuote, fetched |-> seen[p].time]
             all == quotes \cup {new}
  <2>1. ProcsInv'
    BY <1>2, FinishKeeps DEF QuoteRecord
  <2>2. seen[p].time \in Times
    BY <1>0, <1>2 DEF QuoteRecord, Finish, Continue, Ready
  <2>3. new \in Quote
    BY <1>0, <1>2, <2>2 DEF QuoteRecord, Quote
  <2>4. all \in SUBSET Quote
    BY <1>0, <2>3
  <2>5. IsFiniteSet(all)
    BY <1>0, FS_AddElement
  <2>6. quotes' = Newest(all)
    BY <1>2 DEF QuoteRecord
  <2>7. quotes' \subseteq Quote /\ IsFiniteSet(quotes') /\ Cardinality(quotes') <= Retention
    <3> HIDE DEF all
    <3> QED
      BY <2>4, <2>5, <2>6, NewestKeeps
  <2>8. nextQuote' \in 1..(MaxQuotes + 1)
    BY <1>0, <1>2 DEF QuoteRecord
  <2>9. CacheInv'
    BY <1>2, <2>7, <2>8 DEF CacheInv, IInv, TypeOK, BreachBlocks, QuoteRecord
  <2> QED
    BY <2>1, <2>9, TwoHalves
<1> QED
  BY <1>1, <1>2

LEMMA AnalysisStepsKeep ==
  ASSUME IInv, NEW p \in Procs,
         \/ \E score \in Opt(Scores) : AnalysisQuote(p, score)
         \/ AnalysisRead(p) \/ AnalysisWrite(p)
  PROVE  IInv'
<1> USE NullIsApart
<1>0. clock \in Times /\ pc[p] \in Control /\ seen[p] \in Memory /\ Ready(pc[p], seen[p])
      /\ analysis \in [Days -> Opt(Analysis)] /\ Today \in Days
  BY TodayIsADay DEF IInv, TypeOK, AllReady
<1>1. CASE \E score \in Opt(Scores) : AnalysisQuote(p, score)
  <2>1. PICK score \in Opt(Scores) : AnalysisQuote(p, score)
    BY <1>1
  <2> DEFINE memory == [Forgotten EXCEPT !.score = score]
  <2>2. memory \in Memory /\ Ready("analysis_read", memory) /\ "analysis_read" \in Control
    BY DEF Memory, Forgotten, Opt, Ready, Control
  <2>3. Start(p, "analysis_read", memory)
    BY <2>1 DEF AnalysisQuote
  <2>4. ProcsInv'
    <3> HIDE DEF memory
    <3> QED
      BY <2>2, <2>3, StartKeeps
  <2>5. CacheInv'
    BY <2>1, UnchangedCacheKeeps DEF AnalysisQuote
  <2> QED
    BY <2>4, <2>5, TwoHalves
<1>2. CASE AnalysisRead(p)
  <2> DEFINE memory == [seen[p] EXCEPT !.day = Today, !.row = analysis[Today]]
  <2>1. memory \in Memory /\ memory.day = Today
    BY <1>0 DEF Memory, Opt
  <2>2. Ready("analysis_write", memory) /\ "analysis_write" \in Control
    <3> HIDE DEF memory
    <3> QED
      BY <1>0, <2>1 DEF Ready, Control
  <2>3. Continue(p, "analysis_read", "analysis_write", memory)
    BY <1>2 DEF AnalysisRead
  <2>4. ProcsInv'
    <3> HIDE DEF memory
    <3> QED
      BY <2>1, <2>2, <2>3, ContinueKeeps
  <2>5. CacheInv'
    BY <1>2, UnchangedCacheKeeps DEF AnalysisRead
  <2> QED
    BY <2>4, <2>5, TwoHalves
<1>3. CASE AnalysisWrite(p)
  <2> DEFINE day == seen[p].day
             status == IF seen[p].score = Null THEN "incomplete" ELSE "complete"
             row == [created |-> clock, status |-> status, score |-> seen[p].score,
                     breakdown |-> IF analysis[day] = Null
                                      \/ Stale(seen[p].row, status, seen[p].score)
                                   THEN Null ELSE analysis[day].breakdown,
                     flags |-> IF analysis[day] = Null THEN {} ELSE analysis[day].flags]
  <2>1. ProcsInv'
    BY <1>3, FinishKeeps DEF AnalysisWrite
  <2>2. day \in Days /\ seen[p].score \in Opt(Scores)
    BY <1>0, <1>3 DEF AnalysisWrite, Finish, Continue, Ready, Memory
  <2>3. analysis[day] # Null => analysis[day] \in Analysis
    BY <1>0, <2>2 DEF Opt
  <2>4. row \in Analysis
    BY <1>0, <2>2, <2>3 DEF Analysis, Opt
  <2>5. analysis' = [analysis EXCEPT ![day] = row]
    BY <1>3 DEF AnalysisWrite
  <2>6. analysis' \in [Days -> Opt(Analysis)]
    <3> HIDE DEF row, day
    <3> QED
      BY <1>0, <2>2, <2>4, <2>5 DEF Opt
  <2>7. CacheInv'
    BY <1>3, <2>6, WritingAnalysis DEF AnalysisWrite
  <2> QED
    BY <2>1, <2>7, TwoHalves
<1> QED
  BY <1>1, <1>2, <1>3

LEMMA ScoreStepsKeep ==
  ASSUME IInv, NEW p \in Procs,
         \/ \E score \in Scores : ScoreRead(p, score)
         \/ ScoreWrite(p)
  PROVE  IInv'
<1> USE NullIsApart
<1>0. clock \in Times /\ pc[p] \in Control /\ seen[p] \in Memory /\ Ready(pc[p], seen[p])
      /\ analysis \in [Days -> Opt(Analysis)] /\ Today \in Days
  BY TodayIsADay DEF IInv, TypeOK, AllReady
<1>1. CASE \E score \in Scores : ScoreRead(p, score)
  <2>1. PICK score \in Scores : ScoreRead(p, score)
    BY <1>1
  <2> DEFINE memory == [Forgotten EXCEPT !.score = score, !.day = Today,
                                         !.row = analysis[Today]]
  <2>2. memory \in Memory
    BY <1>0 DEF Memory, Forgotten, Opt
  <2>3. memory.score = score /\ memory.day = Today /\ memory.row = analysis[Today]
    BY DEF Forgotten
  <2>4. Ready("score_write", memory) /\ "score_write" \in Control
    <3> HIDE DEF memory
    <3> QED
      BY <1>0, <2>1, <2>3 DEF Ready, Control, ScoreRead
  <2>5. Start(p, "score_write", memory)
    BY <2>1 DEF ScoreRead
  <2>6. ProcsInv'
    <3> HIDE DEF memory
    <3> QED
      BY <2>2, <2>4, <2>5, StartKeeps
  <2>7. CacheInv'
    BY <2>1, UnchangedCacheKeeps DEF ScoreRead
  <2> QED
    BY <2>6, <2>7, TwoHalves
<1>2. CASE ScoreWrite(p)
  <2> DEFINE day == seen[p].day
             stale == seen[p].row # Null /\ Stale(seen[p].row, seen[p].row.status, seen[p].score)
             now == analysis[day]
             row == IF now = Null THEN Null
                    ELSE [now EXCEPT !.score = seen[p].score,
                                     !.breakdown = IF stale THEN Null ELSE now.breakdown]
  <2>1. ProcsInv'
    BY <1>2, FinishKeeps DEF ScoreWrite
  <2>2. day \in Days /\ seen[p].score \in Scores
    BY <1>0, <1>2 DEF ScoreWrite, Finish, Continue, Ready
  <2>3. analysis[day] # Null => analysis[day] \in Analysis
    BY <1>0, <2>2 DEF Opt
  <2>4. row \in Opt(Analysis)
    <3> HIDE DEF stale
    <3> QED
      BY <1>0, <2>2, <2>3 DEF Analysis, Opt
  <2>5. analysis' = [analysis EXCEPT ![day] = row]
    BY <1>0, <1>2, <2>2 DEF ScoreWrite
  <2>6. analysis' \in [Days -> Opt(Analysis)]
    <3> HIDE DEF row, day
    <3> QED
      BY <1>0, <2>2, <2>4, <2>5
  <2>7. CacheInv'
    BY <1>2, <2>6, WritingAnalysis DEF ScoreWrite
  <2> QED
    BY <2>1, <2>7, TwoHalves
<1> QED
  BY <1>1, <1>2

LEMMA BreakdownStepsKeep ==
  ASSUME IInv, NEW p \in Procs,
         \/ \E b \in Breakdowns : BreakdownRead(p, b)
         \/ BreakdownWrite(p)
  PROVE  IInv'
<1> USE NullIsApart
<1>0. clock \in Times /\ pc[p] \in Control /\ seen[p] \in Memory /\ Ready(pc[p], seen[p])
      /\ analysis \in [Days -> Opt(Analysis)] /\ Today \in Days
  BY TodayIsADay DEF IInv, TypeOK, AllReady
<1>1. CASE \E b \in Breakdowns : BreakdownRead(p, b)
  <2>1. PICK b \in Breakdowns : BreakdownRead(p, b)
    BY <1>1
  <2> DEFINE memory == [Forgotten EXCEPT !.breakdown = b, !.day = Today,
                                         !.row = analysis[Today]]
  <2>2. memory \in Memory
    BY <1>0 DEF Memory, Forgotten, Opt
  <2>3. memory.breakdown = b /\ memory.day = Today /\ memory.row = analysis[Today]
    BY DEF Forgotten
  <2>4. Ready("breakdown_write", memory) /\ "breakdown_write" \in Control
    <3> HIDE DEF memory
    <3> QED
      BY <1>0, <2>1, <2>3 DEF Ready, Control, BreakdownRead
  <2>5. Start(p, "breakdown_write", memory)
    BY <2>1 DEF BreakdownRead
  <2>6. ProcsInv'
    <3> HIDE DEF memory
    <3> QED
      BY <2>2, <2>4, <2>5, StartKeeps
  <2>7. CacheInv'
    BY <2>1, UnchangedCacheKeeps DEF BreakdownRead
  <2> QED
    BY <2>6, <2>7, TwoHalves
<1>2. CASE BreakdownWrite(p)
  <2> DEFINE day == seen[p].day
             now == analysis[day]
             row == IF now = Null THEN Null ELSE [now EXCEPT !.breakdown = seen[p].breakdown]
  <2>1. ProcsInv'
    BY <1>2, FinishKeeps DEF BreakdownWrite
  <2>2. day \in Days /\ seen[p].breakdown \in Breakdowns
    BY <1>0, <1>2 DEF BreakdownWrite, Finish, Continue, Ready
  <2>3. now # Null => now \in Analysis
    BY <1>0, <2>2 DEF Opt
  <2>4. row \in Opt(Analysis)
    BY <2>2, <2>3 DEF Analysis, Opt
  <2>5. analysis' = [analysis EXCEPT ![day] = row]
    BY <1>0, <1>2, <2>2 DEF BreakdownWrite
  <2>6. analysis' \in [Days -> Opt(Analysis)]
    <3> HIDE DEF row, day
    <3> QED
      BY <1>0, <2>2, <2>4, <2>5
  <2>7. CacheInv'
    BY <1>2, <2>6, WritingAnalysis DEF BreakdownWrite
  <2> QED
    BY <2>1, <2>7, TwoHalves
<1> QED
  BY <1>1, <1>2

LEMMA FlagStepsKeep ==
  ASSUME IInv, NEW p \in Procs,
         (\E flag \in Flags : SetFlag(p, flag)) \/ ClearFlag(p)
  PROVE  IInv'
<1> USE NullIsApart
<1>0. analysis \in [Days -> Opt(Analysis)] /\ Today \in Days
  BY TodayIsADay DEF IInv, TypeOK
<1>1. analysis' \in [Days -> Opt(Analysis)] /\ AtOnce(p)
      /\ UNCHANGED <<fundamentals, quotes, nextQuote>>
  <2>1. analysis[Today] \in Analysis
    BY <1>0 DEF SetFlag, ClearFlag, Opt
  <2>2. CASE \E flag \in Flags : SetFlag(p, flag)
    <3>1. PICK flag \in Flags : SetFlag(p, flag)
      BY <2>2
    <3> DEFINE row == [analysis[Today] EXCEPT !.flags = analysis[Today].flags \cup {flag}]
    <3>2. row \in Opt(Analysis)
      BY <2>1 DEF Analysis, Opt
    <3>3. analysis' = [analysis EXCEPT ![Today] = row]
      BY <1>0, <3>1 DEF SetFlag
    <3> HIDE DEF row
    <3> QED
      BY <1>0, <3>1, <3>2, <3>3 DEF SetFlag
  <2>3. CASE ClearFlag(p)
    <3> DEFINE row == [analysis[Today] EXCEPT !.flags = {}]
    <3>1. row \in Opt(Analysis)
      BY <2>1 DEF Analysis, Opt
    <3>2. analysis' = [analysis EXCEPT ![Today] = row]
      BY <1>0, <2>3 DEF ClearFlag
    <3> HIDE DEF row
    <3> QED
      BY <1>0, <2>3, <3>1, <3>2 DEF ClearFlag
  <2> QED
    BY <2>2, <2>3
<1> QED
  BY <1>1, AtOnceKeeps, WritingAnalysis, TwoHalves

\* Pruning the quotes again, and deleting rows, keeps the tables.
LEMMA DeletingKeeps ==
  ASSUME IInv, fundamentals' \in {fundamentals, Null},
         \A d \in Days : analysis'[d] \in {analysis[d], Null},
         \E f : analysis' = [d \in Days |-> f[d]],
         quotes' \in {Newest(quotes), {}}, nextQuote' = nextQuote
  PROVE  CacheInv'
<1> USE NullIsApart
<1>1. analysis' \in [Days -> Opt(Analysis)]
  BY DEF IInv, TypeOK, Opt
<1>2. fundamentals' \in Opt(Fundamentals) /\ BreachBlocks'
  BY DEF IInv, TypeOK, BreachBlocks, Opt
<1>3. quotes' \subseteq Quote /\ IsFiniteSet(quotes') /\ Cardinality(quotes') <= Retention
  <2>1. quotes \in SUBSET Quote /\ IsFiniteSet(quotes)
    BY DEF IInv, TypeOK
  <2>2. Newest(quotes) \subseteq Quote /\ IsFiniteSet(Newest(quotes))
        /\ Cardinality(Newest(quotes)) <= Retention
    BY <2>1, NewestKeeps
  <2>3. IsFiniteSet({}) /\ Cardinality({}) <= Retention
    BY FS_EmptySet
  <2>4. quotes' = Newest(quotes) \/ quotes' = {}
    OBVIOUS
  <2> QED
    BY <2>2, <2>3, <2>4
<1> QED
  BY <1>1, <1>2, <1>3 DEF CacheInv, IInv, TypeOK

LEMMA CleanupStepsKeep ==
  ASSUME IInv, NEW p \in Procs,
         CleanupStocks(p) \/ CleanupDelete(p) \/ CleanupRead(p) \/ CleanupRows(p) \/ Clear(p)
  PROVE  IInv'
<1> USE NullIsApart
<1>0. clock \in Times /\ clock \in Int /\ pc[p] \in Control /\ seen[p] \in Memory
      /\ Ready(pc[p], seen[p])
      /\ analysis \in [Days -> Opt(Analysis)] /\ fundamentals \in Opt(Fundamentals)
  BY DEF IInv, TypeOK, AllReady, Times
<1>1. CASE CleanupStocks(p)
  <2>1. CASE Expired(fundamentals)
    <3> DEFINE memory == [Forgotten EXCEPT !.time = fundamentals.updated]
    <3>1. fundamentals.updated \in Times /\ clock - fundamentals.updated > Ttl
      BY <1>0, <2>1 DEF Expired, Opt, Fundamentals
    <3>2. memory \in Memory /\ memory.time = fundamentals.updated
      BY <3>1 DEF Memory, Forgotten, Opt
    <3>3. Ready("cleanup_delete", memory) /\ "cleanup_delete" \in Control
      <4> HIDE DEF memory
      <4> QED
        BY <3>1, <3>2 DEF Ready, Control
    <3>4. Start(p, "cleanup_delete", memory)
      BY <1>1, <2>1 DEF CleanupStocks
    <3> HIDE DEF memory
    <3> QED
      BY <1>1, <3>2, <3>3, <3>4, StartKeeps, UnchangedCacheKeeps, TwoHalves DEF CleanupStocks
  <2>2. CASE ~Expired(fundamentals)
    <3>1. Ready("cleanup_read", Forgotten) /\ "cleanup_read" \in Control
      BY DEF Ready, Control
    <3>2. Start(p, "cleanup_read", Forgotten)
      BY <1>1, <2>2 DEF CleanupStocks
    <3> QED
      BY <1>1, <3>1, <3>2, StartKeeps, UnchangedCacheKeeps, TwoHalves DEF CleanupStocks
  <2> QED
    BY <2>1, <2>2
<1>2. CASE CleanupDelete(p)
  <2>1. ProcsInv'
    BY <1>2, FinishKeeps DEF CleanupDelete
  <2>2. CacheInv'
    <3>1. fundamentals' \in {fundamentals, Null} /\ nextQuote' = nextQuote
          /\ quotes' = Newest(quotes)
      BY <1>2 DEF CleanupDelete
    <3>2. analysis' = [d \in Days |-> IF Old(analysis[d]) THEN Null ELSE analysis[d]]
      BY <1>2 DEF CleanupDelete
    <3>3. \E f : analysis' = [d \in Days |-> f[d]]
      BY <3>2
    <3>4. \A d \in Days : analysis'[d] \in {analysis[d], Null}
      BY <3>2
    <3> QED
      BY <3>1, <3>3, <3>4, DeletingKeeps
  <2> QED
    BY <2>1, <2>2, TwoHalves
<1>3. CASE CleanupRead(p)
  <2> DEFINE old == [d \in Days |-> IF Old(analysis[d]) THEN analysis[d].created ELSE Null]
             memory == [seen[p] EXCEPT !.old = old]
  <2>1. \A d \in Days :
           /\ old[d] \in Opt(Times)
           /\ old[d] # Null => old[d] < clock - AnalysisAge
    BY <1>0 DEF Old, Opt, Analysis
  <2>2. old \in [Days -> Opt(Times)]
    BY <2>1
  <2>3. memory \in Memory /\ memory.old = old
    <3> HIDE DEF old
    <3> QED
      BY <1>0, <2>2 DEF Memory
  <2>4. Ready("cleanup_rows", memory) /\ "cleanup_rows" \in Control
    <3> HIDE DEF old, memory
    <3> QED
      BY <2>1, <2>3 DEF Ready, Control
  <2>5. Continue(p, "cleanup_read", "cleanup_rows", memory)
    BY <1>3 DEF CleanupRead
  <2>6. CacheInv'
    BY <1>3, UnchangedCacheKeeps DEF CleanupRead
  <2> HIDE DEF memory
  <2> QED
    BY <2>3, <2>4, <2>5, <2>6, ContinueKeeps, TwoHalves
<1>4. CASE CleanupRows(p)
  <2>1. ProcsInv'
    BY <1>4, FinishKeeps DEF CleanupRows
  <2>2. CacheInv'
    <3>1. fundamentals' \in {fundamentals, Null} /\ nextQuote' = nextQuote
          /\ quotes' = Newest(quotes)
      BY <1>4 DEF CleanupRows
    <3>2. analysis' = [d \in Days |-> IF analysis[d] # Null
                                         /\ analysis[d].created = seen[p].old[d]
                                      THEN Null ELSE analysis[d]]
      BY <1>4 DEF CleanupRows
    <3>3. \E f : analysis' = [d \in Days |-> f[d]]
      BY <3>2
    <3>4. \A d \in Days : analysis'[d] \in {analysis[d], Null}
      BY <3>2
    <3> QED
      BY <3>1, <3>3, <3>4, DeletingKeeps
  <2> QED
    BY <2>1, <2>2, TwoHalves
<1>5. CASE Clear(p)
  <2>1. ProcsInv'
    BY <1>5, AtOnceKeeps DEF Clear
  <2>2. CacheInv'
    <3>1. fundamentals' = Null /\ nextQuote' = nextQuote /\ quotes' = {}
      BY <1>5 DEF Clear
    <3>2. analysis' = [d \in Days |-> Null]
      BY <1>5 DEF Clear
    <3>3. \E f : analysis' = [d \in Days |-> f[d]]
      BY <3>2
    <3>4. \A d \in Days : analysis'[d] \in {analysis[d], Null}
      BY <3>2
    <3> QED
      BY <3>1, <3>3, <3>4, DeletingKeeps
  <2> QED
    BY <2>1, <2>2, TwoHalves
<1> QED
  BY <1>1, <1>2, <1>3, <1>4, <1>5

\* What was ready stays ready as time passes.
LEMMA ReadyLasts ==
  ASSUME NEW here, NEW memory \in Memory, clock \in Int, clock' \in Int, clock' >= clock,
         Ready(here, memory)
  PROVE  Ready(here, memory)'
<1>1. \A t \in Times : t \in Int
  BY DEF Times
<1>2. here = "cleanup_delete" => memory.time \in Times /\ clock' - memory.time > Ttl
  BY <1>1 DEF Ready
<1>3. ASSUME here = "cleanup_rows", NEW d \in Days, memory.old[d] # Null
      PROVE  memory.old[d] < clock' - AnalysisAge
  <2>1. memory.old[d] \in Int
    BY <1>1, <1>3 DEF Memory, Opt
  <2>2. memory.old[d] < clock - AnalysisAge
    BY <1>3 DEF Ready
  <2> QED
    BY <2>1, <2>2
<1> QED
  BY <1>2, <1>3 DEF Ready

\* A process that ends, the clock and the companies.
LEMMA WorldStepsKeep ==
  ASSUME IInv, (\E p \in Procs : GiveUp(p)) \/ Tick \/ Publish
  PROVE  IInv'
<1> USE NullIsApart
<1>1. CASE \E p \in Procs : GiveUp(p)
  BY <1>1, FinishKeeps, UnchangedCacheKeeps, TwoHalves DEF GiveUp
<1>2. CASE Tick
  <2>1. clock \in Int /\ clock' = clock + 1 /\ clock' \in Times
    BY <1>2 DEF Tick, IInv, TypeOK, Times
  <2>2. ASSUME NEW p \in Procs PROVE Ready(pc[p], seen[p])'
    <3>1. Ready(pc[p], seen[p]) /\ seen[p] \in Memory /\ pc'[p] = pc[p] /\ seen'[p] = seen[p]
      BY <1>2 DEF Tick, IInv, TypeOK, AllReady
    <3>2. pc' = pc /\ seen' = seen
      BY <1>2 DEF Tick
    <3>3. clock' >= clock
      BY <2>1
    <3> QED
      BY <2>1, <3>1, <3>2, <3>3, ReadyLasts
  <2>3. ProcsInv'
    BY <1>2, <2>1, <2>2 DEF Tick, ProcsInv, AllReady, IInv, TypeOK
  <2>4. CacheInv'
    BY <1>2, UnchangedCacheKeeps DEF Tick
  <2> QED
    BY <2>3, <2>4, TwoHalves
<1>3. CASE Publish
  <2>1. published' \in Periods
    BY <1>3 DEF Publish, IInv, TypeOK, Periods
  <2>2. AllReady'
    BY <1>3 DEF Publish, IInv, AllReady, Ready
  <2>3. ProcsInv'
    BY <1>3, <2>1, <2>2 DEF Publish, ProcsInv, IInv, TypeOK
  <2>4. CacheInv'
    BY <1>3, UnchangedCacheKeeps DEF Publish
  <2> QED
    BY <2>3, <2>4, TwoHalves
<1> QED
  BY <1>1, <1>2, <1>3

LEMMA InvariantHolds == Spec => []IInv
<1>1. Init => IInv
  <2> SUFFICES ASSUME Init PROVE IInv
    OBVIOUS
  <2> USE NullIsApart DEF Init
  <2>1. /\ clock \in Times /\ published \in Periods /\ 0 \in Days /\ commands \in 0..MaxCommands
    BY DEF Times, Periods, Days
  <2>2. fundamentals \in Opt(Fundamentals) /\ BreachBlocks
    <3>1. Null # "breach"
      BY DEF Facts
    <3>2. [updated |-> 0, period |-> 1, facts |-> Null, gate |-> "incomplete"] \in Fundamentals
      BY DEF Fundamentals, Times, Periods, Opt, Verdicts
    <3> QED
      BY <3>1, <3>2 DEF BreachBlocks, Opt
  <2>3. analysis \in [Days -> Opt(Analysis)]
    <3>1. PICK score \in Opt(Scores), b \in Opt(Scores), row \in BOOLEAN :
             analysis = [d \in Days |->
                IF row /\ d = 0
                THEN [created |-> 0, status |-> "complete", score |-> score, breakdown |-> b,
                      flags |-> {}]
                ELSE Null]
      OBVIOUS
    <3>2. [created |-> 0, status |-> "complete", score |-> score, breakdown |-> b,
           flags |-> {}] \in Analysis
      BY DEF Analysis, Times, Opt, Breakdowns
    <3> QED
      BY <3>1, <3>2 DEF Opt
  <2>4. quotes \subseteq Quote /\ IsFiniteSet(quotes) /\ Cardinality(quotes) <= Retention
        /\ nextQuote \in 1..(MaxQuotes + 1)
    BY FS_EmptySet
  <2>5. pc \in [Procs -> Control] /\ seen \in [Procs -> Memory] /\ AllReady
    BY IdleIsReady DEF AllReady
  <2> QED
    BY <2>1, <2>2, <2>3, <2>4, <2>5 DEF IInv, TypeOK
<1>2. IInv /\ [Next]_vars => IInv'
  <2> SUFFICES ASSUME IInv, [Next]_vars PROVE IInv'
    OBVIOUS
  <2>1. CASE Next
    BY <2>1, FundamentalsStepsKeep, QuoteStepsKeep, AnalysisStepsKeep, ScoreStepsKeep,
       BreakdownStepsKeep, FlagStepsKeep, CleanupStepsKeep, WorldStepsKeep DEF Next
  <2>2. CASE UNCHANGED vars
    <3>1. UNCHANGED cache /\ UNCHANGED <<clock, published, pc, seen, commands>>
      BY <2>2 DEF vars, world
    <3>2. ProcsInv'
      BY <3>1 DEF ProcsInv, IInv, TypeOK, AllReady, Ready
    <3> QED
      BY <3>1, <3>2, UnchangedCacheKeeps, TwoHalves
  <2> QED
    BY <2>1, <2>2
<1> QED
  BY <1>1, <1>2, PTL DEF Spec

\* No reachable state of any instance has a wrong type, and the quotes of the code are never
\* more than the retention: record_quote_snapshot and cleanup prune what they leave.
THEOREM TypeCorrect == Spec => []TypeOK
<1>1. IInv => TypeOK
  BY DEF IInv
<1> QED
  BY <1>1, InvariantHolds, PTL

-----------------------------------------------------------------------------
(* What the steps do to each table. *)

LEMMA FundamentalsWriters ==
  ASSUME [Next]_vars
  PROVE  \/ UNCHANGED fundamentals
         \/ \E p \in Procs :
               \/ FetchStore(p) \/ CleanupDelete(p) \/ Clear(p)
               \/ \E period \in Periods, gate \in Verdicts : SetFundamentals(p, period, gate)
               \/ \E facts \in Facts : RegulatoryEvidence(p, facts)
  BY Zenon DEF Next, vars, cache, world, FetchStart, QuoteFetch, QuoteRecord, AnalysisQuote,
     AnalysisRead, AnalysisWrite, ScoreRead, ScoreWrite, BreakdownRead, BreakdownWrite,
     SetFlag, ClearFlag, CleanupStocks, CleanupRead, CleanupRows, GiveUp, Tick, Publish

LEMMA QuoteWriters ==
  ASSUME [Next]_vars
  PROVE  \/ UNCHANGED quotes
         \/ \E p \in Procs :
               QuoteRecord(p) \/ CleanupDelete(p) \/ CleanupRows(p) \/ Clear(p)
  BY Zenon DEF Next, vars, cache, world, FetchStart, FetchStore, SetFundamentals,
     RegulatoryEvidence, QuoteFetch, AnalysisQuote, AnalysisRead, AnalysisWrite, ScoreRead,
     ScoreWrite, BreakdownRead, BreakdownWrite, SetFlag, ClearFlag, CleanupStocks,
     CleanupRead, GiveUp, Tick, Publish

LEMMA AnalysisWriters ==
  ASSUME [Next]_vars
  PROVE  \/ UNCHANGED analysis
         \/ \E p \in Procs :
               \/ AnalysisWrite(p) \/ ScoreWrite(p) \/ BreakdownWrite(p)
               \/ \E flag \in Flags : SetFlag(p, flag)
               \/ ClearFlag(p) \/ CleanupDelete(p) \/ CleanupRows(p) \/ Clear(p)
  BY Zenon DEF Next, vars, cache, world, FetchStart, FetchStore, SetFundamentals,
     RegulatoryEvidence, QuoteFetch, QuoteRecord, AnalysisQuote, AnalysisRead, ScoreRead,
     BreakdownRead, CleanupStocks, CleanupRead, GiveUp, Tick, Publish

-----------------------------------------------------------------------------
(* The action properties. *)

\* store.set_fundamentals reads the evidence inside its write transaction: whatever was
\* recorded while the providers were asked is carried forward, and a breach stays blocked.
THEOREM EvidenceIsCarried == Spec => EvidenceSurvivesRefresh
<1> DEFINE Kept == (/\ Effective(fundamentals) /\ fundamentals' # Null
                    /\ fundamentals'.period = fundamentals.period)
                   => \/ \E p \in Procs, period \in Periods, gate \in Verdicts :
                            SetFundamentals(p, period, gate)
                      \/ \E p \in Procs, facts \in Facts : RegulatoryEvidence(p, facts)
                      \/ /\ fundamentals'.facts = fundamentals.facts
                         /\ fundamentals.facts = "breach" => fundamentals'.gate = "blocked"
<1>1. ASSUME IInv, [Next]_vars,
             Effective(fundamentals), fundamentals' # Null,
             fundamentals'.period = fundamentals.period
      PROVE  \/ \E p \in Procs, period \in Periods, gate \in Verdicts :
                   SetFundamentals(p, period, gate)
             \/ \E p \in Procs, facts \in Facts : RegulatoryEvidence(p, facts)
             \/ /\ fundamentals'.facts = fundamentals.facts
                /\ fundamentals.facts = "breach" => fundamentals'.gate = "blocked"
  <2>1. CASE UNCHANGED fundamentals
    BY <1>1, <2>1 DEF IInv, BreachBlocks
  <2>2. CASE \E p \in Procs : CleanupDelete(p) \/ Clear(p)
    BY <1>1, <2>2 DEF CleanupDelete, Clear, IInv, BreachBlocks
  <2>3. CASE \E p \in Procs : FetchStore(p)
    <3>1. PICK p \in Procs : FetchStore(p)
      BY <2>3
    <3> DEFINE period == seen[p].period
    <3>2. fundamentals' = Refreshed(fundamentals, period)
      BY <3>1 DEF FetchStore
    <3>3. Refreshed(fundamentals, period).period = period
      BY DEF Refreshed
    <3>4. Carried(fundamentals, period)
      BY <1>1, <3>2, <3>3 DEF Carried
    <3>5. Refreshed(fundamentals, period) =
             [updated |-> clock, period |-> period, facts |-> fundamentals.facts,
              gate |-> Judge(fundamentals.facts)]
      BY <3>4 DEF Refreshed
    <3> QED
      BY <3>2, <3>5 DEF Judge
  <2> QED
    BY <1>1, <2>1, <2>2, <2>3, FundamentalsWriters
<1>2. IInv /\ [Next]_vars => [Kept]_vars
  BY <1>1
<1> QED
  BY <1>2, InvariantHolds, PTL DEF Spec, EvidenceSurvivesRefresh

\* record_quote_snapshot and cleanup prune by fetched_at: the newest quote stays.
THEOREM QuotesNeverRegress == Spec => LatestNeverRegresses
<1>1. ASSUME IInv, [Next]_vars, NEW q \in quotes, ~(\E p \in Procs : Clear(p))
      PROVE  \E r \in quotes' : r.fetched >= q.fetched
  <2>1. q \in Quote /\ q.fetched >= q.fetched
    BY <1>1 DEF IInv, TypeOK, Quote, Times
  <2>2. CASE UNCHANGED quotes
    BY <2>1, <2>2
  <2>3. CASE \E p \in Procs : CleanupDelete(p) \/ CleanupRows(p)
    <3>1. quotes' = Newest(quotes)
      BY <2>3 DEF CleanupDelete, CleanupRows
    <3>2. quotes \in SUBSET Quote /\ IsFiniteSet(quotes)
      BY <1>1 DEF IInv, TypeOK
    <3> QED
      BY <3>1, <3>2, NewestKeeps
  <2>4. CASE \E p \in Procs : QuoteRecord(p)
    <3>1. PICK p \in Procs : QuoteRecord(p)
      BY <2>4
    <3> DEFINE new == [id |-> nextQuote, fetched |-> seen[p].time]
               all == quotes \cup {new}
    <3>2. seen[p].time \in Times
      BY <1>1, <3>1 DEF QuoteRecord, Finish, Continue, IInv, AllReady, Ready
    <3>3. new \in Quote
      BY <1>1, <3>1, <3>2 DEF QuoteRecord, Quote, IInv, TypeOK
    <3>4. all \in SUBSET Quote /\ q \in all
      BY <1>1, <3>3 DEF IInv, TypeOK
    <3>5. IsFiniteSet(all)
      BY <1>1, FS_AddElement DEF IInv
    <3>6. quotes' = Newest(all)
      BY <3>1 DEF QuoteRecord
    <3> HIDE DEF all
    <3> QED
      BY <3>4, <3>5, <3>6, NewestKeeps
  <2> QED
    BY <1>1, <2>2, <2>3, <2>4, QuoteWriters
<1>2. IInv /\ [Next]_vars =>
        [\A q \in quotes :
            (\E r \in quotes' : r.fetched >= q.fetched) \/ \E p \in Procs : Clear(p)]_vars
  BY <1>1
<1> QED
  BY <1>2, InvariantHolds, PTL DEF Spec, LatestNeverRegresses

\* set-flag and the upsert of set-analysis: no writer of the row drops a flag.
THEOREM FlagsStay == Spec => FlagsNotLost
<1>1. ASSUME IInv, [Next]_vars, NEW d \in Days, analysis[d] # Null, analysis'[d] # Null,
             ~(\E p \in Procs : ClearFlag(p))
      PROVE  analysis[d].flags \subseteq analysis'[d].flags
  <2>0. analysis \in [Days -> Opt(Analysis)] /\ analysis[d] \in Analysis /\ Today \in Days
    BY <1>1, TodayIsADay DEF IInv, TypeOK, Opt
  <2>1. CASE UNCHANGED analysis
    BY <2>1
  <2>2. CASE \E p \in Procs : CleanupDelete(p) \/ CleanupRows(p) \/ Clear(p)
    BY <1>1, <2>2 DEF CleanupDelete, CleanupRows, Clear
  <2>3. CASE \E p \in Procs : AnalysisWrite(p)
    BY <1>1, <2>0, <2>3 DEF AnalysisWrite
  <2>4. CASE \E p \in Procs : ScoreWrite(p)
    BY <1>1, <2>0, <2>4 DEF ScoreWrite, Analysis
  <2>5. CASE \E p \in Procs : BreakdownWrite(p)
    BY <1>1, <2>0, <2>5 DEF BreakdownWrite, Analysis
  <2>6. CASE \E p \in Procs, flag \in Flags : SetFlag(p, flag)
    BY <1>1, <2>0, <2>6 DEF SetFlag, Analysis
  <2> QED
    BY <1>1, <2>1, <2>2, <2>3, <2>4, <2>5, <2>6, AnalysisWriters
<1>2. IInv /\ [Next]_vars =>
        [\A d \in Days :
            analysis[d] # Null /\ analysis'[d] # Null =>
                \/ analysis[d].flags \subseteq analysis'[d].flags
                \/ \E p \in Procs : ClearFlag(p)]_vars
  BY <1>1
<1> QED
  BY <1>2, InvariantHolds, PTL DEF Spec, FlagsNotLost

\* cleanup deletes by the timestamp it read: a row stored or analysed anew since is not the
\* row it found expired.
THEOREM FreshStays == Spec => FreshSurvivesCleanup
<1> DEFINE Kept == \/ \E p \in Procs : Clear(p)
                   \/ /\ fundamentals # Null /\ fundamentals' = Null => Expired(fundamentals)
                      /\ \A d \in Days :
                            analysis[d] # Null /\ analysis'[d] = Null => Old(analysis[d])
<1>1. ASSUME IInv, [Next]_vars, ~(\E p \in Procs : Clear(p)),
             fundamentals # Null, fundamentals' = Null
      PROVE  Expired(fundamentals)
  <2>1. CASE UNCHANGED fundamentals
    BY <1>1, <2>1
  <2>2. CASE \E p \in Procs : CleanupDelete(p)
    <3>1. PICK p \in Procs : CleanupDelete(p)
      BY <2>2
    <3>2. fundamentals.updated = seen[p].time
      BY <1>1, <3>1 DEF CleanupDelete
    <3>3. clock - seen[p].time > Ttl
      BY <1>1, <3>1 DEF CleanupDelete, Finish, Continue, IInv, AllReady, Ready
    <3> QED
      BY <1>1, <3>2, <3>3 DEF Expired
  <2>3. CASE \E p \in Procs : FetchStore(p)
    BY <1>1, <2>3, NullIsApart, RefreshedIsTyped
       DEF FetchStore, Finish, Continue, IInv, AllReady, Ready, TypeOK
  <2>4. CASE \E p \in Procs, period \in Periods, gate \in Verdicts :
                SetFundamentals(p, period, gate)
    BY <1>1, <2>4, NullIsApart DEF SetFundamentals, IInv, TypeOK, Fundamentals, Opt
  <2>5. CASE \E p \in Procs, facts \in Facts : RegulatoryEvidence(p, facts)
    <3>1. PICK p \in Procs, facts \in Facts : RegulatoryEvidence(p, facts)
      BY <2>5
    <3>2. fundamentals \in Fundamentals /\ Judge(facts) \in Verdicts
      BY <1>1, JudgeIsAVerdict DEF IInv, TypeOK, Opt
    <3>3. fundamentals' \in Fundamentals
      BY <3>1, <3>2 DEF RegulatoryEvidence, Fundamentals, Opt
    <3> QED
      BY <1>1, <3>3, NullIsApart
  <2> QED
    BY <1>1, <2>1, <2>2, <2>3, <2>4, <2>5, FundamentalsWriters
<1>2. ASSUME IInv, [Next]_vars, ~(\E p \in Procs : Clear(p)),
             NEW d \in Days, analysis[d] # Null, analysis'[d] = Null
      PROVE  Old(analysis[d])
  <2>0. /\ analysis \in [Days -> Opt(Analysis)] /\ analysis[d] \in Analysis /\ Today \in Days
        /\ clock \in Times
    BY <1>2, TodayIsADay DEF IInv, TypeOK, Opt
  <2>1. CASE UNCHANGED analysis
    BY <1>2, <2>1
  <2>2. CASE \E p \in Procs : CleanupDelete(p)
    BY <1>2, <2>2 DEF CleanupDelete
  <2>3. CASE \E p \in Procs : CleanupRows(p)
    <3>1. PICK p \in Procs : CleanupRows(p)
      BY <2>3
    <3>2. analysis[d].created = seen[p].old[d]
      BY <1>2, <3>1 DEF CleanupRows
    <3>3. analysis[d].created \in Times
      BY <2>0 DEF Analysis
    <3>4. seen[p].old[d] # Null => seen[p].old[d] < clock - AnalysisAge
      BY <1>2, <3>1 DEF CleanupRows, Finish, Continue, IInv, AllReady, Ready
    <3> QED
      BY <1>2, <3>2, <3>3, <3>4, NullIsApart DEF Old
  <2>4. ASSUME NEW p \in Procs,
               \/ AnalysisWrite(p) \/ ScoreWrite(p) \/ BreakdownWrite(p)
               \/ \E flag \in Flags : SetFlag(p, flag)
               \/ ClearFlag(p)
        PROVE  analysis'[d] # Null
    <3>0. seen[p] \in Memory
      BY <1>2 DEF IInv, TypeOK
    <3>1. CASE AnalysisWrite(p)
      <4> DEFINE day == seen[p].day
                 status == IF seen[p].score = Null THEN "incomplete" ELSE "complete"
                 row == [created |-> clock, status |-> status, score |-> seen[p].score,
                         breakdown |-> IF analysis[day] = Null
                                          \/ Stale(seen[p].row, status, seen[p].score)
                                       THEN Null ELSE analysis[day].breakdown,
                         flags |-> IF analysis[day] = Null THEN {} ELSE analysis[day].flags]
      <4>1. day = d => row \in Analysis
        BY <2>0, <3>0 DEF Analysis, Memory, Opt
      <4>2. analysis' = [analysis EXCEPT ![day] = row]
        BY <3>1 DEF AnalysisWrite
      <4> HIDE DEF row, day
      <4> QED
        BY <1>2, <2>0, <4>1, <4>2, NullIsApart
    <3>2. CASE ScoreWrite(p)
      <4> DEFINE stale == seen[p].row # Null
                          /\ Stale(seen[p].row, seen[p].row.status, seen[p].score)
                 row == [analysis[d] EXCEPT !.score = seen[p].score,
                            !.breakdown = IF stale THEN Null ELSE analysis[d].breakdown]
      <4>1. row \in Analysis
        <5>1. seen[p].score \in Opt(Scores)
          BY <3>0 DEF Memory
        <5> HIDE DEF stale
        <5> QED
          BY <2>0, <5>1 DEF Analysis, Opt
      <4>2. seen[p].day = d => analysis'[d] = row
        BY <1>2, <2>0, <3>2 DEF ScoreWrite
      <4>3. analysis'[d] = analysis[d] \/ analysis'[d] = row
        <5> HIDE DEF row
        <5> QED
          BY <2>0, <3>2, <4>2 DEF ScoreWrite
      <4> HIDE DEF row
      <4> QED
        BY <1>2, <4>1, <4>3, NullIsApart
    <3>3. CASE BreakdownWrite(p)
      <4>1. seen[p].breakdown \in Opt(Breakdowns)
        BY <3>0 DEF Memory
      <4>2. \/ analysis'[d] = analysis[d]
            \/ analysis'[d] \in Analysis
        BY <1>2, <2>0, <3>3, <4>1 DEF BreakdownWrite, Analysis, Opt
      <4> QED
        BY <1>2, <4>2, NullIsApart
    <3>4. CASE \E flag \in Flags : SetFlag(p, flag)
      <4>1. \/ analysis'[d] = analysis[d]
            \/ analysis'[d] \in Analysis
        BY <1>2, <2>0, <3>4 DEF SetFlag, Analysis
      <4> QED
        BY <1>2, <4>1, NullIsApart
    <3>5. CASE ClearFlag(p)
      <4>1. \/ analysis'[d] = analysis[d]
            \/ analysis'[d] \in Analysis
        BY <1>2, <2>0, <3>5 DEF ClearFlag, Analysis
      <4> QED
        BY <1>2, <4>1, NullIsApart
    <3> QED
      BY <2>4, <3>1, <3>2, <3>3, <3>4, <3>5
  <2> QED
    BY <1>2, <2>1, <2>2, <2>3, <2>4, AnalysisWriters
<1>3. IInv /\ [Next]_vars => [Kept]_vars
  BY <1>1, <1>2
<1> QED
  BY <1>3, InvariantHolds, PTL DEF Spec, FreshSurvivesCleanup

\* set-analysis, set-score and set-score-breakdown each check status, score and breakdown
\* against the row they read: a row only falls out of agreement under a writer that was
\* overtaken between its read and its write.
THEOREM OnlyOvertakenWritersTear == Spec => OnlyRacesTear
<1> DEFINE Overtaken(d) ==
       \E p \in Procs : /\ pc[p] \in {"analysis_write", "score_write", "breakdown_write"}
                        /\ pc'[p] = "idle" /\ seen[p].day = d /\ seen[p].row # analysis[d]
<1>1. ASSUME IInv, [Next]_vars, NEW d \in Days, Agrees(analysis[d]), ~Overtaken(d)
      PROVE  Agrees(analysis'[d])
  <2>0. /\ analysis \in [Days -> Opt(Analysis)] /\ analysis[d] \in Opt(Analysis)
        /\ Today \in Days /\ pc \in [Procs -> Control]
    BY <1>1, TodayIsADay DEF IInv, TypeOK
  <2>1. CASE UNCHANGED analysis
    BY <1>1, <2>1
  <2>2. CASE \E p \in Procs : CleanupDelete(p) \/ CleanupRows(p) \/ Clear(p)
    BY <1>1, <2>2 DEF CleanupDelete, CleanupRows, Clear, Agrees
  <2>3. CASE \E p \in Procs : (\E flag \in Flags : SetFlag(p, flag)) \/ ClearFlag(p)
    <3>1. analysis[Today] \in Analysis /\ analysis[Today] # Null
      BY <2>0, <2>3, NullIsApart DEF SetFlag, ClearFlag, Opt
    <3>2. \/ analysis'[d] = analysis[d]
          \/ /\ d = Today
             /\ analysis'[d].status = analysis[d].status
             /\ analysis'[d].score = analysis[d].score
             /\ analysis'[d].breakdown = analysis[d].breakdown
      BY <2>0, <2>3, <3>1 DEF SetFlag, ClearFlag, Analysis
    <3> QED
      BY <1>1, <3>1, <3>2 DEF Agrees
  <2>4. ASSUME NEW p \in Procs, AnalysisWrite(p), seen[p].day = d, seen[p].row = analysis[d]
        PROVE  Agrees(analysis'[d])
    <3> DEFINE status == IF seen[p].score = Null THEN "incomplete" ELSE "complete"
               row == [created |-> clock, status |-> status, score |-> seen[p].score,
                       breakdown |-> IF analysis[d] = Null
                                        \/ Stale(seen[p].row, status, seen[p].score)
                                     THEN Null ELSE analysis[d].breakdown,
                       flags |-> IF analysis[d] = Null THEN {} ELSE analysis[d].flags]
    <3>1. analysis'[d] = row
      BY <2>0, <2>4 DEF AnalysisWrite
    <3>2. row.status = status /\ row.score = seen[p].score
      OBVIOUS
    <3>3. row.breakdown # Null => Matches(row.breakdown, status, seen[p].score)
      BY <2>4 DEF Stale
    <3> HIDE DEF row
    <3> QED
      BY <3>1, <3>2, <3>3 DEF Agrees
  <2>5. ASSUME NEW p \in Procs, ScoreWrite(p), seen[p].day = d, seen[p].row = analysis[d],
               analysis[d] # Null
        PROVE  Agrees(analysis'[d])
    <3>1. analysis[d] \in Analysis /\ analysis[d].status = "complete"
      BY <1>1, <2>0, <2>5 DEF ScoreWrite, Finish, Continue, IInv, AllReady, Ready, Opt
    <3>2. /\ analysis'[d].status = "complete" /\ analysis'[d].score = seen[p].score
          /\ analysis'[d].breakdown =
                IF Stale(analysis[d], "complete", seen[p].score) THEN Null
                ELSE analysis[d].breakdown
      BY <2>0, <2>5, <3>1 DEF ScoreWrite, Analysis
    <3>3. analysis'[d].breakdown # Null =>
             Matches(analysis'[d].breakdown, "complete", seen[p].score)
      BY <2>5, <3>2 DEF Stale
    <3> QED
      BY <3>2, <3>3 DEF Agrees
  <2>6. ASSUME NEW p \in Procs, BreakdownWrite(p), seen[p].day = d, seen[p].row = analysis[d],
               analysis[d] # Null
        PROVE  Agrees(analysis'[d])
    <3>1. analysis[d] \in Analysis
          /\ Matches(seen[p].breakdown, analysis[d].status, analysis[d].score)
      BY <1>1, <2>0, <2>6 DEF BreakdownWrite, Finish, Continue, IInv, AllReady, Ready, Opt
    <3>2. /\ analysis'[d].status = analysis[d].status
          /\ analysis'[d].score = analysis[d].score
          /\ analysis'[d].breakdown = seen[p].breakdown
      BY <2>0, <2>6, <3>1 DEF BreakdownWrite, Analysis
    <3> QED
      BY <1>1, <2>6, <3>1, <3>2 DEF Agrees
  <2>7. CASE \E p \in Procs : AnalysisWrite(p) \/ ScoreWrite(p) \/ BreakdownWrite(p)
    <3>1. PICK p \in Procs : AnalysisWrite(p) \/ ScoreWrite(p) \/ BreakdownWrite(p)
      BY <2>7
    <3>2. seen[p].day # d => analysis'[d] = analysis[d]
      BY <2>0, <3>1 DEF AnalysisWrite, ScoreWrite, BreakdownWrite
    <3>3. pc[p] \in {"analysis_write", "score_write", "breakdown_write"} /\ pc'[p] = "idle"
      BY <2>0, <3>1 DEF AnalysisWrite, ScoreWrite, BreakdownWrite, Finish, Continue
    <3>4. seen[p].day = d => seen[p].row = analysis[d]
      BY <1>1, <3>3
    <3>5. analysis[d] = Null /\ (ScoreWrite(p) \/ BreakdownWrite(p)) => analysis'[d] = Null
      BY <2>0 DEF ScoreWrite, BreakdownWrite
    <3>6. Agrees(Null)
      BY DEF Agrees
    <3> QED
      BY <1>1, <2>4, <2>5, <2>6, <3>1, <3>2, <3>4, <3>5, <3>6
  <2> QED
    BY <1>1, <2>1, <2>2, <2>3, <2>7, AnalysisWriters
<1>2. IInv /\ [Next]_vars =>
        [\A d \in Days :
            Agrees(analysis[d]) /\ ~Agrees(analysis'[d]) =>
                \E p \in Procs :
                    /\ pc[p] \in {"analysis_write", "score_write", "breakdown_write"}
                    /\ pc'[p] = "idle" /\ seen[p].day = d /\ seen[p].row # analysis[d]]_vars
  BY <1>1
<1> QED
  BY <1>2, InvariantHolds, PTL DEF Spec, OnlyRacesTear
=============================================================================
