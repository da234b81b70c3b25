------------------------------- MODULE Deferral -------------------------------
(***************************************************************************)
(* The one-shot 24 hour deferral of a second-stop sale in a market crash   *)
(* ("P3"): the gate liquidity_shock_gate of risk_gates.py, the alert row   *)
(* that stores its window, check-holdings and monitor-snapshot that ask    *)
(* the gate, and the cron entry that pushes what check-holdings prints.    *)
(*                                                                         *)
(* check-holdings only proposes a window; a user stores it later with      *)
(* alert-open, from whatever output is at hand.  The deadline is kept      *)
(* twice: in the row's column review_due and, as the start it is counted   *)
(* from, in the row's JSON evidence, which is the copy the gate reads.     *)
(* alert-pending replaces the evidence by a note.                          *)
(*                                                                         *)
(* One holding.  A run of check-holdings reads the database first and asks *)
(* for quotes and the market afterwards.  A market is absent (all that the *)
(* providers of this version return), calm, or a shock of more than 500    *)
(* stocks limit-down.                                                      *)
(***************************************************************************)
EXTENDS Integers, FiniteSets

CONSTANTS
    Users,     \* people and agents who run check-holdings and the alert commands
    Cron,      \* runs of the cron entry that may overlap
    Notify,    \* the notification mode that each of them is configured with
    Stops,     \* values the holding's stop_loss_20 takes
    Prices,    \* prices a quote may show
    Window,    \* 24 hours, in ticks of the clock
    MaxTime,   \* bound: the clock
    Null

ASSUME DeferralAssumption ==
    /\ Window \in Nat \ {0} /\ MaxTime \in Nat
    /\ Stops \subseteq Int /\ Stops # {} /\ Prices \subseteq Int
    /\ Null \notin Int
    /\ Users \cap Cron = {}

ASSUME NotifyAssumption == Notify \in [Cron -> {"disabled", "telegram"}]

Times == 0..MaxTime
Opt(S) == S \cup {Null}

VARIABLES
    now,       \* the clock
    stop,      \* holdings.stop_loss_20
    row,       \* the unresolved price_stop2_liquidity_defer row of the holding
    seen,      \* what a user's running check has read, or Null
    offer,     \* the window a user's last check put out
    replaced,  \* ghost: the stored start was replaced or dropped during this event
    lock,      \* the cron run that holds check-holdings.lock, or Null
    pc,        \* where a cron run is, or how the last one ended
    report     \* ghost: how far the news of an unsettled deferral has got in a cron run

cron == <<lock, pc, report>>
vars == <<now, stop, row, seen, offer, replaced, cron>>

-----------------------------------------------------------------------------
Evidence(start, line) == [start |-> start, line |-> line]
NoEvidence == Evidence(Null, Null)
Evidences == [start : Opt(Times), line : Opt(Stops)]
Alert(status, evidence, due) == [status |-> status, evidence |-> evidence, due |-> due]
NoAlert == Alert("none", NoEvidence, Null)
Alerts == [status : {"none", "active", "pending"}, evidence : Evidences,
           due : Opt(0..(MaxTime + Window))]
Unresolved(alert) == alert.status # "none"

\* What the quote provider may answer; trade says whether the stock can be sold,
\* and today whether the quote is of this day.
Quotes == Opt([price : Prices, trade : {"ok", "blocked", "missing"}, today : BOOLEAN])
Markets == {"none", "calm", "shock"}

Verdict(status, eligible, evidence) ==
    [status |-> status, eligible |-> eligible, evidence |-> evidence]

\* The end of both branches of the gate: only a stock that can be traded acts.
Tradable(quote, eligible, evidence) ==
    IF quote.trade = "missing" THEN Verdict("incomplete", FALSE, evidence)
    ELSE IF quote.trade = "blocked" THEN Verdict("untradeable", FALSE, evidence)
    ELSE Verdict("clear", eligible, evidence)

\* liquidity_shock_gate for a triggered stop: an existing window, or the one
\* that a shock opens now, runs out before anything else is looked at.
\* Mutant: a calm market ends the window.
Gate_CalmFirst(existing, quote, line, market, time) ==
    LET start == IF existing.start # Null THEN existing.start
                 ELSE IF market = "shock" THEN time ELSE Null
        window == Evidence(start, IF existing.line # Null THEN existing.line ELSE line)
    IN  IF quote = Null THEN Verdict("incomplete", FALSE, NoEvidence)
        ELSE IF market = "calm" THEN Tradable(quote, TRUE, NoEvidence)
        ELSE IF start = Null THEN Verdict("incomplete", FALSE, NoEvidence)
        ELSE IF time < start + Window THEN Verdict("deferred", FALSE, window)
        ELSE Tradable(quote, quote.price <= window.line, window)
Gate(existing, quote, line, market, time) ==
    LET start == IF existing.start # Null THEN existing.start
                 ELSE IF market = "shock" THEN time ELSE Null
        window == Evidence(start, IF existing.line # Null THEN existing.line ELSE line)
    IN  IF quote = Null THEN Verdict("incomplete", FALSE, NoEvidence)
        ELSE IF start # Null /\ time < start + Window
             THEN Verdict("deferred", FALSE, window)
        ELSE IF start # Null THEN Tradable(quote, quote.price <= window.line, window)
        ELSE IF market = "none" THEN Verdict("incomplete", FALSE, NoEvidence)
        ELSE Tradable(quote, TRUE, NoEvidence)

NotTriggered == Verdict("not_applicable", FALSE, NoEvidence)

\* evaluate_holding_status for the two lines: a quote of another day never alerts.
Alerting(quote, line) == quote # Null /\ quote.today /\ quote.price <= line
FirstLine(line) == line + 1

\* check-holdings: any unresolved row that still has a start or a deadline, or a
\* current price at the second line, is put to the gate.
Read(alert, line) ==
    [window |-> Unresolved(alert) /\ (alert.evidence.start # Null \/ alert.due # Null),
     evidence |-> alert.evidence, stop |-> line]
CheckVerdict(read, quote, market, time) ==
    IF read.window \/ Alerting(quote, read.stop)
    THEN Gate(read.evidence, quote, read.stop, market, time)
    ELSE NotTriggered
\* What a check may come to, by what the providers answer.
Verdicts(read) ==
    {CheckVerdict(read, quote, market, now) : quote \in Quotes, market \in Markets}
\* The output ends with "项预警，请及时处理": a stop level, or a P3 state in doubt.
Alarming(verdict, line, quote) ==
    \/ Alerting(quote, FirstLine(line))
    \/ verdict.status \in {"deferred", "untradeable", "incomplete"}

\* monitor-snapshot: at the second line of today, with the stored evidence and
\* without a market snapshot.
\* Mutant: the stored start is taken for the deadline.
MonitorVerdict_StartIsDue(alert, line, quote, time) ==
    IF Alerting(quote, line) THEN Gate(alert.evidence, quote, line, "none", time + Window)
    ELSE NotTriggered
MonitorVerdict(alert, line, quote, time) ==
    IF Alerting(quote, line) THEN Gate(alert.evidence, quote, line, "none", time)
    ELSE NotTriggered

-----------------------------------------------------------------------------
Tick ==
    /\ now < MaxTime /\ now' = now + 1
    /\ UNCHANGED <<stop, row, seen, offer, replaced, cron>>

\* A purchase, a corporate action or another framework moves the stored line.
MoveStop(line) ==
    /\ line # stop /\ stop' = line
    /\ UNCHANGED <<now, row, seen, offer, replaced, cron>>

\* check-holdings by hand: the database, then quotes and market.
CheckRead(u) ==
    /\ seen[u] = Null
    /\ seen' = [seen EXCEPT ![u] = Read(row, stop)]
    /\ UNCHANGED <<now, stop, row, offer, replaced, cron>>
CheckPrint(u) ==
    /\ seen[u] # Null
    /\ \E window \in {verdict.evidence : verdict \in Verdicts(seen[u])} :
           offer' = [offer EXCEPT ![u] = IF window.start # Null THEN window ELSE @]
    /\ seen' = [seen EXCEPT ![u] = Null]
    /\ UNCHANGED <<now, stop, row, replaced, cron>>

\* alert-open with the window at hand.  On an unresolved row the deadline stays
\* as it is and the evidence is the new one; its status does not change.
\* Mutant: ON CONFLICT takes the new deadline.
AlertOpen_Postpones(u, given) ==
    LET due == IF given THEN offer[u].start + Window ELSE Null
    IN  /\ offer[u] # NoEvidence
        /\ row' = IF Unresolved(row) THEN Alert(row.status, offer[u], due)
                  ELSE Alert("active", offer[u], due)
        /\ replaced' = (Unresolved(row) /\ (replaced \/ row.evidence # offer[u]))
        /\ UNCHANGED <<now, stop, seen, offer, cron>>
AlertOpen(u, given) ==
    LET due == IF given THEN offer[u].start + Window ELSE Null
    IN  /\ offer[u] # NoEvidence
        /\ row' = IF Unresolved(row)
                  THEN Alert(row.status, offer[u], IF row.due # Null THEN row.due ELSE due)
                  ELSE Alert("active", offer[u], due)
        /\ replaced' = (Unresolved(row) /\ (replaced \/ row.evidence # offer[u]))
        /\ UNCHANGED <<now, stop, seen, offer, cron>>

\* alert-pending, alert-resolve.
AlertPending ==
    /\ row.status = "active"
    /\ row' = Alert("pending", NoEvidence, row.due)
    /\ replaced' = TRUE
    /\ UNCHANGED <<now, stop, seen, offer, cron>>
AlertResolve ==
    /\ Unresolved(row)
    /\ row' = NoAlert /\ replaced' = FALSE
    /\ UNCHANGED <<now, stop, seen, offer, cron>>

-----------------------------------------------------------------------------
(* scripts/check-holdings-cron.sh. *)

Moves(c, to) == pc' = [pc EXCEPT ![c] = to] /\ UNCHANGED <<now, stop, row, seen, offer, replaced>>
Ended(c) == pc[c] \in {"failed", "ok"}

\* A mode without its credentials, or an unknown one, ends the run at once;
\* flock -n: a run that finds the lock taken says so and fails.
CronStart(c) ==
    \E valid \in BOOLEAN :
        LET runs == valid /\ lock = Null
        IN  /\ Ended(c)
            /\ Moves(c, IF runs THEN "checking" ELSE "failed")
            /\ lock' = IF runs THEN c ELSE lock
            /\ report' = [report EXCEPT ![c] = "none"]
\* check-holdings answers in time, and the script logs whether it alarms ...
Outputs ==
    {LET verdict == CheckVerdict(Read(row, stop), quote, market, now)
     IN  [alarm |-> Alarming(verdict, stop, quote),
          unsettled |-> Unresolved(row) /\ verdict.status \notin {"clear", "not_applicable"}] :
        quote \in Quotes, market \in Markets}
CronCheck(c) ==
    \E output \in Outputs :
        /\ pc[c] = "checking"
        /\ Moves(c, IF output.alarm THEN "sending" ELSE "ok")
        /\ lock' = IF output.alarm THEN lock ELSE Null
        /\ report' = [report EXCEPT ![c] = IF ~output.unsettled THEN "none"
                                         ELSE IF output.alarm THEN "logged" ELSE "due"]
\* ... or fails, or is killed by timeout(1).
\* Mutant: no timeout and no exit.
CronTimeout_Waits(c) == FALSE /\ Moves(c, "failed") /\ UNCHANGED <<lock, report>>
CronTimeout(c) ==
    /\ pc[c] = "checking"
    /\ Moves(c, "failed") /\ lock' = Null /\ UNCHANGED report
Pushed(c) == IF report[c] = "logged" THEN "pushed" ELSE report[c]
\* tg_send: nothing is sent when notifications are disabled, which is the
\* default, and the run succeeds; curl -m 10: a push that was not accepted makes
\* the run fail.
\* Mutant: the result of the push is ignored.
CronSend_Ignores(c) ==
    /\ pc[c] = "sending" /\ lock' = Null
    /\ Moves(c, "ok")
    /\ \E sent \in BOOLEAN :
           report' = [report EXCEPT ![c] = IF sent /\ Notify[c] = "telegram"
                                           THEN Pushed(c) ELSE @]
CronSend(c) ==
    /\ pc[c] = "sending" /\ lock' = Null
    /\ \/ /\ Notify[c] = "disabled"
          /\ Moves(c, "ok") /\ UNCHANGED report
       \/ /\ Notify[c] = "telegram"
          /\ Moves(c, "ok") /\ report' = [report EXCEPT ![c] = Pushed(c)]
       \/ /\ Notify[c] = "telegram"
          /\ Moves(c, "failed") /\ report' = [report EXCEPT ![c] = "none"]

Init ==
    /\ now = 0 /\ stop \in Stops /\ row = NoAlert
    /\ seen = [u \in Users |-> Null]
    /\ offer = [u \in Users |-> NoEvidence]
    /\ replaced = FALSE
    /\ lock = Null /\ pc = [c \in Cron |-> "failed"]
    /\ report = [c \in Cron |-> "none"]

Next ==
    \/ Tick
    \/ \E line \in Stops : MoveStop(line)
    \/ \E u \in Users : \/ CheckRead(u) \/ CheckPrint(u)
                        \/ \E given \in BOOLEAN : AlertOpen(u, given)
    \/ AlertPending \/ AlertResolve
    \/ \E c \in Cron : CronStart(c) \/ CronCheck(c) \/ CronTimeout(c) \/ CronSend(c)

Spec == Init /\ [][Next]_vars

\* timeout(1) and curl -m bound a cron run, whatever the command does.
FairSpec == Spec /\ \A c \in Cron : WF_vars(CronTimeout(c)) /\ WF_vars(CronSend(c))

-----------------------------------------------------------------------------
(* Properties. *)

\* Every variable keeps its type.
TypeOK ==
    /\ now \in Times /\ stop \in Stops /\ row \in Alerts
    /\ seen \in [Users -> Opt([window : BOOLEAN, evidence : Evidences, stop : Stops])]
    /\ offer \in [Users -> Evidences]
    /\ replaced \in BOOLEAN
    /\ lock \in Opt(Cron)
    /\ pc \in [Cron -> {"checking", "sending", "ok", "failed"}]
    /\ report \in [Cron -> {"none", "due", "logged", "pushed"}]

\* The recorded deadline of an unresolved event is never moved: not by another
\* check whose window is stored on top of it, not by pending and a second alert-open.
DeadlineKept ==
    [][Unresolved(row) /\ Unresolved(row') /\ row.due # Null => row'.due = row.due]_vars

\* As long as the evidence of the event is the one it was opened with, no check
\* releases the sale before the deadline of the row or above the line of that
\* time, whatever the market does and wherever the stop line has moved since.
NoEarlyAction ==
    Unresolved(row) /\ ~replaced =>
        \A quote \in Quotes, market \in Markets :
            CheckVerdict(Read(row, stop), quote, market, now).eligible =>
                /\ now >= row.evidence.start + Window
                /\ row.due # Null => now >= row.due
                /\ quote.price <= row.evidence.line

\* monitor-snapshot never releases a sale that check-holdings, with the same
\* quote and any market, would still hold back.
MonitorNeverAhead ==
    \A quote \in Quotes : MonitorVerdict(row, stop, quote, now).eligible =>
        \A market \in Markets : CheckVerdict(Read(row, stop), quote, market, now).eligible

\* A cron run that exits 0 after it found an open deferral unsettled has not kept
\* it to itself: the alarm was accepted by Telegram, or, where notifications are
\* disabled, it is in the log.
NoSilentRun ==
    \A c \in Cron : pc[c] = "ok" =>
        report[c] \in {"none", IF Notify[c] = "telegram" THEN "pushed" ELSE "logged"}

\* The lock is never kept: a hanging check or push does not stop later runs.
LockIsFreed == \A c \in Cron : lock = c ~> lock # c

\* The start of an unresolved event is never reset: not by a repeated run, and not
\* because the market goes on falling.
StartKept ==
    [][Unresolved(row) /\ Unresolved(row') =>
          row.evidence.start = Null \/ row'.evidence.start \in {row.evidence.start, Null}]_vars
=============================================================================
