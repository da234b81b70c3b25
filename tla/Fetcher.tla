------------------------------- MODULE Fetcher -------------------------------
(***************************************************************************)
(* a-stock-fetch (fetcher.py): fetch and batch, with the timed calls they  *)
(* are made of.                                                            *)
(*                                                                         *)
(* A fetch is a fixed sequence of steps.  Most ask a provider, each in a   *)
(* forked child with a queue of its own: the parent waits for an answer or *)
(* the timeout, terminates the child on a timeout, and joins it.  A child  *)
(* may answer, fail, hang for ever, or die without an answer.  Some steps  *)
(* are retried, some may fail without harm, some end the fetch.  The batch *)
(* goes through all codes and notes down how each fetch ended.             *)
(*                                                                         *)
(* What an answer says is left out (see Fundamentals); an answer here is   *)
(* the code it was asked for.  The bond yield is a snapshot that all       *)
(* fetchers share.                                                         *)
(***************************************************************************)
EXTENDS Integers, Sequences, FiniteSets

CONSTANTS
    Procs,     \* fetcher processes
    Batch,     \* the codes that are fetched
    Tries,     \* calls of a retried step (3)
    Fresh,     \* age up to which the bond snapshot is reused unasked (1 hour)
    MaxTime,   \* bound: the clock
    Null

ASSUME FetcherAssumption ==
    /\ Tries \in Nat \ {0} /\ MaxTime \in Nat
    /\ Fresh \in Nat
    /\ Null \notin Batch \cup Int /\ "error" \notin Batch \cup {Null}

\* cmd_fetch from the calendar to the cache row.
Steps == <<"calendar", "quote", "info", "industry", "financials", "dividends",
           "prices", "bond", "store">>
Calls == {"calendar", "info", "industry", "financials", "dividends", "prices", "bond"}
\* Without these the fetch ends with an error.
Required == {"calendar", "quote"}
TriesOf(step) == IF step \in {"financials", "prices"} THEN Tries ELSE 1

VARIABLES
    clock,
    cached,    \* of each code: the codes that the answers in its row were asked for
    bond,      \* when market_indicator_snapshots.bond_yield_10y was written, or Null
    todo,      \* codes a process has still to fetch
    code,      \* the code it is at, or Null
    step, try, \* the step it is in, and the attempt
    waiting,   \* whether it waits for a child
    children,  \* its live children: hung, working, or done answering
    answer,    \* what is in the queue of the present call, or Null
    results,   \* the results of the present fetch: step -> code asked for, or Null
    industry,  \* the process-wide industry map: unread, none or read
    summary    \* how the fetch of each code ended

call == <<step, try, waiting, children, answer>>
fetcherVars == <<clock, cached, bond, todo, code, call, results, industry, summary>>

BondAge == IF bond = Null THEN MaxTime + Fresh + 1 ELSE clock - bond
NoResults == [s \in Calls |-> Null]
Is(p, name) == code[p] # Null /\ Steps[step[p]] = name
Outside(p) == code[p] = Null

-----------------------------------------------------------------------------
(* timed_call. *)

\* The child process and its queue; a process that cannot be forked is an error.
StartCall(p) ==
    /\ ~Outside(p) /\ Steps[step[p]] \in Calls /\ ~waiting[p] /\ answer[p] = Null
    /\ \/ Steps[step[p]] \notin {"bond", "industry"}
       \/ Is(p, "industry") /\ industry[p] = "unread"
       \/ Is(p, "bond") /\ BondAge > Fresh
    /\ \/ /\ waiting' = [waiting EXCEPT ![p] = TRUE]
          /\ children' = [children EXCEPT ![p] = @ \cup {"working"}]
          /\ UNCHANGED answer
       \/ /\ answer' = [answer EXCEPT ![p] = "error"]
          /\ UNCHANGED <<waiting, children>>
    /\ UNCHANGED <<clock, cached, bond, todo, code, step, try, results, industry, summary>>

\* The child puts its result or the text of its exception, or dies silently.
ChildAnswers(p) ==
    \E result \in {code[p], "error"} :
        /\ "working" \in children[p] /\ waiting[p] /\ answer[p] = Null
        /\ children' = [children EXCEPT ![p] = (@ \ {"working"}) \cup {"answered"}]
        /\ answer' = [answer EXCEPT ![p] = result]
        /\ UNCHANGED <<clock, cached, bond, todo, code, step, try, waiting, results,
                       industry, summary>>
ChildEnds(p) ==
    \E state \in children[p] :
        /\ children' = [children EXCEPT ![p] = @ \ {state}]
        /\ UNCHANGED <<clock, cached, bond, todo, code, step, try, waiting, answer,
                       results, industry, summary>>

\* queue.get, then join: the parent goes on when the child is gone.
Answered(p) ==
    /\ waiting[p] /\ answer[p] # Null /\ children[p] = {}
    /\ waiting' = [waiting EXCEPT ![p] = FALSE]
    /\ UNCHANGED <<clock, cached, bond, todo, code, step, try, children, answer,
                   results, industry, summary>>
\* queue.get raises Empty: the child is terminated, whatever it was about to put.
\* Mutant: the call is given up and the child left alone.
TimedOut_Abandons(p) ==
    /\ waiting[p] /\ answer[p] = Null
    /\ waiting' = [waiting EXCEPT ![p] = FALSE]
    /\ answer' = [answer EXCEPT ![p] = "error"]
    /\ UNCHANGED <<clock, cached, bond, todo, code, step, try, children, results,
                   industry, summary>>
TimedOut(p) ==
    /\ waiting[p] /\ answer[p] = Null
    /\ waiting' = [waiting EXCEPT ![p] = FALSE]
    /\ children' = [children EXCEPT ![p] = {}]
    /\ answer' = [answer EXCEPT ![p] = "error"]
    /\ UNCHANGED <<clock, cached, bond, todo, code, step, try, results, industry,
                   summary>>

-----------------------------------------------------------------------------
(* cmd_fetch. *)

GoOn(p) == /\ step' = [step EXCEPT ![p] = @ + 1]
           /\ try' = [try EXCEPT ![p] = 1]
           /\ answer' = [answer EXCEPT ![p] = Null]
\* SystemExit or an exception: cmd_batch notes it and takes the next code.
EndFetch(p, how) ==
    /\ code' = [code EXCEPT ![p] = Null]
    /\ step' = [step EXCEPT ![p] = 1] /\ try' = [try EXCEPT ![p] = 1]
    /\ answer' = [answer EXCEPT ![p] = Null]
    /\ summary' = [summary EXCEPT ![p][code[p]] = how]
    /\ UNCHANGED todo

\* The batch takes its next code; results and reasons start empty.
\* Mutant: the results are shared by the fetches of a batch.
StartFetch_KeepsResults(p) ==
    \E c \in todo[p] :
        /\ Outside(p)
        /\ code' = [code EXCEPT ![p] = c] /\ todo' = [todo EXCEPT ![p] = @ \ {c}]
        /\ UNCHANGED <<clock, cached, bond, call, results, industry, summary>>
StartFetch(p) ==
    \E c \in todo[p] :
        /\ Outside(p)
        /\ code' = [code EXCEPT ![p] = c] /\ todo' = [todo EXCEPT ![p] = @ \ {c}]
        /\ results' = [results EXCEPT ![p] = NoResults]
        /\ UNCHANGED <<clock, cached, bond, call, industry, summary>>

\* A call has come back: a failed one is repeated while it has tries left.
Delivered(p) == ~waiting[p] /\ answer[p] \in Batch
Failed(p) == ~waiting[p] /\ answer[p] = "error"
Retry(p) ==
    /\ Failed(p) /\ try[p] < TriesOf(Steps[step[p]])
    /\ try' = [try EXCEPT ![p] = @ + 1]
    /\ answer' = [answer EXCEPT ![p] = Null]
    /\ UNCHANGED <<clock, cached, bond, todo, code, step, waiting, children, results,
                   industry, summary>>
\* After the last try the fetch goes on without the answer, or ends.
CallDone(p) ==
    LET s == Steps[step[p]]
    IN  /\ Delivered(p) \/ (Failed(p) /\ try[p] = TriesOf(s))
        /\ s # "bond"
        /\ IF Failed(p) /\ s \in Required
           THEN EndFetch(p, "failed") /\ UNCHANGED <<results, industry>>
           ELSE /\ GoOn(p)
                /\ results' = IF Delivered(p) THEN [results EXCEPT ![p][s] = answer[p]] ELSE results
                /\ industry' = IF s # "industry" THEN industry
                               ELSE [industry EXCEPT ![p] = IF Delivered(p) THEN "read" ELSE "none"]
                /\ UNCHANGED <<todo, code, summary>>
        /\ UNCHANGED <<clock, cached, bond, waiting, children>>

\* _fetch_sina_quote runs in the process itself, with a timeout of its own; a
\* valid quote is recorded at once.
QuoteStep(p) ==
    /\ Is(p, "quote")
    /\ \/ GoOn(p) /\ UNCHANGED <<todo, code, summary>>
       \/ EndFetch(p, "failed")
    /\ UNCHANGED <<clock, cached, bond, waiting, children, results, industry>>

\* _fetch_tushare_industry_map: asked once per process, a failure is kept too.
IndustryCached(p) ==
    /\ Is(p, "industry") /\ industry[p] # "unread" /\ ~waiting[p] /\ answer[p] = Null
    /\ GoOn(p)
    /\ UNCHANGED <<clock, cached, bond, todo, code, waiting, children, results,
                   industry, summary>>

\* _fetch_bond_yield: an hour's reuse, the provider, and else what is stored.
BondStep(p) ==
    /\ Is(p, "bond") /\ ~waiting[p]
    /\ \/ answer[p] = Null /\ BondAge <= Fresh /\ UNCHANGED bond
       \/ Delivered(p) /\ bond' = clock
       \/ /\ Failed(p) \/ Delivered(p)  \* without a date an answer counts for nothing
          /\ UNCHANGED bond
    /\ GoOn(p)
    /\ UNCHANGED <<clock, cached, todo, code, waiting, children, results, industry, summary>>

\* _build_cache_payload: no row without a report period, which the financials
\* give; the one statement may still fail.
\* Mutant: a fetch without financials is reported as done.
Store_Lenient(p) ==
    /\ Is(p, "store")
    /\ \/ /\ EndFetch(p, "ok")
          /\ cached' = IF results[p]["financials"] = Null THEN cached
                     ELSE [cached EXCEPT ![code[p]] = {results[p][s] : s \in Calls} \ {Null}]
       \/ EndFetch(p, "failed") /\ UNCHANGED cached
    /\ UNCHANGED <<clock, bond, waiting, children, results, industry>>
Store(p) ==
    /\ Is(p, "store")
    /\ \/ /\ results[p]["financials"] # Null
          /\ EndFetch(p, "ok")
          /\ cached' = [cached EXCEPT ![code[p]] = {results[p][s] : s \in Calls} \ {Null}]
       \/ EndFetch(p, "failed") /\ UNCHANGED cached
    /\ UNCHANGED <<clock, bond, waiting, children, results, industry>>

Tick ==
    /\ clock < MaxTime /\ clock' = clock + 1
    /\ UNCHANGED <<cached, bond, todo, code, call, results, industry, summary>>

FetcherInit ==
    /\ clock = 0 /\ bond \in {Null, 0}
    /\ cached = [c \in Batch |-> {}]
    /\ todo \in [Procs -> SUBSET Batch]
    /\ code = [p \in Procs |-> Null]
    /\ step = [p \in Procs |-> 1] /\ try = [p \in Procs |-> 1]
    /\ waiting = [p \in Procs |-> FALSE]
    /\ children = [p \in Procs |-> {}]
    /\ answer = [p \in Procs |-> Null]
    /\ results = [p \in Procs |-> NoResults]
    /\ industry = [p \in Procs |-> "unread"]
    /\ summary = [p \in Procs |-> [c \in Batch |-> Null]]

Parent(p) ==
    \/ StartFetch(p) \/ StartCall(p) \/ Answered(p) \/ TimedOut(p)
    \/ Retry(p) \/ CallDone(p) \/ QuoteStep(p) \/ IndustryCached(p) \/ BondStep(p) \/ Store(p)
FetcherNext == Tick \/ \E p \in Procs : Parent(p) \/ ChildAnswers(p) \/ ChildEnds(p)

FetcherSpec == FetcherInit /\ [][FetcherNext]_fetcherVars

\* The parent is never held up but by the queue (which has a timeout) and by a
\* child that has answered and is about to end.  A working child owes nothing.
FairSpec ==
    /\ FetcherSpec
    /\ \A p \in Procs : /\ WF_fetcherVars(Parent(p))
                        /\ WF_fetcherVars("answered" \in children[p] /\ ChildEnds(p))

-----------------------------------------------------------------------------
(* Properties. *)

\* Every variable keeps its type.
FetcherTypeOK ==
    /\ clock \in 0..MaxTime /\ bond \in (0..MaxTime) \cup {Null}
    /\ cached \in [Batch -> SUBSET Batch]
    /\ todo \in [Procs -> SUBSET Batch] /\ code \in [Procs -> Batch \cup {Null}]
    /\ step \in [Procs -> 1..Len(Steps)] /\ try \in [Procs -> 1..Tries]
    /\ waiting \in [Procs -> BOOLEAN]
    /\ children \in [Procs -> SUBSET {"working", "answered"}]
    /\ answer \in [Procs -> Batch \cup {"error", Null}]
    /\ results \in [Procs -> [Calls -> Batch \cup {Null}]]
    /\ industry \in [Procs -> {"unread", "none", "read"}]
    /\ summary \in [Procs -> [Batch -> {"ok", "failed", Null}]]

\* A run ends, with no child left that would keep it alive, although children
\* hang, die or fail at every call, and the batch has an entry for every code.
Over(p) == Outside(p) /\ todo[p] = {} /\ children[p] = {}
EveryRunEnds == \A p \in Procs : <>[](Over(p))

\* A row is made of answers to the fetch of its own code and process only: no
\* late or left-over answer of another code or attempt gets into it.
RowsAreOfOneCode == \A c \in Batch : cached[c] \subseteq {c}

\* The summary says what the cache holds.  A fetch noted as done had financials for
\* its own code and has put them into that row and no other; one noted as failed
\* leaves all rows alone; and no row changes unless a process that is at its code has
\* it noted as done in that step.
Noted ==
    /\ \A p \in Procs, c \in Batch :
           /\ summary'[p][c] = "ok" /\ summary[p][c] # "ok" =>
                  /\ results[p]["financials"] = c /\ cached'[c] # {}
                  /\ \A d \in Batch \ {c} : cached'[d] = cached[d]
           /\ summary'[p][c] = "failed" /\ summary[p][c] # "failed" => cached' = cached
    /\ \A c \in Batch : cached'[c] # cached[c] =>
           \E p \in Procs : code[p] = c /\ summary'[p][c] = "ok"
SummaryIsTrue == [][Noted]_fetcherVars
=============================================================================
