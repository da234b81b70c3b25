---------------------------- MODULE DeferralProofs ----------------------------
(***************************************************************************)
(* Theorems about Deferral for every number of users and cron runs, every  *)
(* set of prices and stop lines, every length of the window and of time.   *)
(*                                                                         *)
(* The gate is a function of the stored evidence, the quote, the line, the *)
(* market and the time: what it returns is stated once per branch, and the *)
(* invariant adds what relates the two copies of the deadline, as long as  *)
(* nobody has replaced the evidence.                                       *)
(***************************************************************************)
EXTENDS Deferral, TLAPS

USE DeferralAssumption

-----------------------------------------------------------------------------
(* What the gate returns. *)

\* A window has its start and its line, or neither.
Whole(evidence) == evidence = NoEvidence \/ evidence \in [start : Times, line : Stops]
Statuses == {"clear", "not_applicable", "deferred", "untradeable", "incomplete"}
Certain(verdict) ==
    verdict.status \in Statuses /\ verdict.evidence \in Evidences /\ Whole(verdict.evidence)

LEMMA NullIsNoValue == (\A time \in Times : time # Null) /\ (\A line \in Stops : line # Null)
<1>1. \A time \in Times : time \in Int
  BY DEF Times
<1>2. \A line \in Stops : line \in Int
  OBVIOUS
<1> QED
  BY <1>1, <1>2

LEMMA NoEvidenceType == NoEvidence \in Evidences /\ Whole(NoEvidence)
BY DEF NoEvidence, Evidence, Evidences, Opt, Whole

\* Whatever is stored, the window that a verdict carries is a whole one.
LEMMA GateType ==
    ASSUME NEW existing \in Evidences, NEW quote \in Quotes, NEW line \in Stops,
           NEW market \in Markets, NEW time \in Times
    PROVE  Certain(Gate(existing, quote, line, market, time))
<1> DEFINE start == IF existing.start # Null THEN existing.start
                    ELSE IF market = "shock" THEN time ELSE Null
           window == Evidence(start, IF existing.line # Null THEN existing.line ELSE line)
<1>1. start \in Opt(Times) /\ window \in Evidences /\ (start # Null => Whole(window))
  BY DEF Evidence, Evidences, Opt, Whole
<1>2. ASSUME NEW eligible, NEW evidence \in Evidences, Whole(evidence)
      PROVE  Certain(Tradable(quote, eligible, evidence))
  BY <1>2 DEF Tradable, Verdict, Certain, Statuses
<1>3. CASE quote = Null
  BY <1>3, NoEvidenceType DEF Gate, Verdict, Certain, Statuses
<1>4. CASE quote # Null /\ start # Null /\ time < start + Window
  <2>1. Gate(existing, quote, line, market, time) = Verdict("deferred", FALSE, window)
    BY <1>4 DEF Gate
  <2> QED
    BY <1>1, <1>4, <2>1 DEF Verdict, Certain, Statuses
<1>5. CASE quote # Null /\ start # Null /\ ~(time < start + Window)
  <2>1. Gate(existing, quote, line, market, time)
            = Tradable(quote, quote.price <= window.line, window)
    BY <1>5 DEF Gate
  <2> QED
    BY <1>1, <1>2, <1>5, <2>1
<1>6. CASE quote # Null /\ start = Null /\ market = "none"
  BY <1>6, NoEvidenceType DEF Gate, Verdict, Certain, Statuses
<1>7. CASE quote # Null /\ start = Null /\ market # "none"
  <2>1. Gate(existing, quote, line, market, time) = Tradable(quote, TRUE, NoEvidence)
    BY <1>7 DEF Gate
  <2> QED
    BY <1>2, <2>1, NoEvidenceType
<1> QED
  BY <1>3, <1>4, <1>5, <1>6, <1>7

\* The gate releases a sale from a stored window only when it has run out, and
\* only at the price line stored with it.
LEMMA GateReleases ==
    ASSUME NEW existing \in Evidences, NEW quote \in Quotes, NEW line \in Stops,
           NEW market \in Markets, NEW time \in Times,
           existing.start # Null,
           Gate(existing, quote, line, market, time).eligible
    PROVE  /\ quote # Null /\ time >= existing.start + Window
           /\ existing.line # Null => quote.price <= existing.line
<1>1. quote # Null
  BY DEF Gate, Verdict
<1>2. ~(time < existing.start + Window)
  BY <1>1 DEF Gate, Verdict
<1>3. existing.start \in Times
  BY DEF Evidences, Opt
<1> DEFINE kept == IF existing.line # Null THEN existing.line ELSE line
           cheap == quote.price <= kept
<1>4. Gate(existing, quote, line, market, time)
          = Tradable(quote, cheap, Evidence(existing.start, kept))
  BY <1>1, <1>2 DEF Gate, Evidence
<1>5. cheap
  <2> HIDE DEF cheap
  <2>1. Tradable(quote, cheap, Evidence(existing.start, kept)).eligible
    BY <1>4
  <2> QED
    BY <2>1 DEF Tradable, Verdict
<1>6. time >= existing.start + Window
  BY <1>2, <1>3 DEF Times
<1>7. existing.line # Null => quote.price <= existing.line
  BY <1>1, <1>5 DEF Quotes, Evidences, Opt
<1> QED
  BY <1>1, <1>6, <1>7

\* Without a market to look at it releases nothing but such a window, and what
\* it releases it would release in every market.
LEMMA GateWithoutMarket ==
    ASSUME NEW existing, NEW quote, NEW line, NEW market, NEW time,
           Gate(existing, quote, line, "none", time).eligible
    PROVE  Gate(existing, quote, line, market, time).eligible
<1>1. quote # Null /\ existing.start # Null
  BY DEF Gate, Verdict
<1> QED
  BY <1>1 DEF Gate

-----------------------------------------------------------------------------
(* Types. *)

\* What a user's last check put out is a window with its start and its line.
Offered == \A u \in Users : Whole(offer[u])

LEMMA VerdictType ==
    ASSUME NEW evidence \in Evidences, NEW window \in BOOLEAN, NEW line \in Stops,
           NEW quote \in Quotes, NEW market \in Markets, NEW time \in Times
    PROVE  Certain(CheckVerdict([window |-> window, evidence |-> evidence, stop |-> line],
                                quote, market, time))
<1> DEFINE read == [window |-> window, evidence |-> evidence, stop |-> line]
<1>1. \/ CheckVerdict(read, quote, market, time) = Gate(evidence, quote, line, market, time)
      \/ CheckVerdict(read, quote, market, time) = NotTriggered
  BY DEF CheckVerdict
<1>2. Certain(NotTriggered)
  BY NoEvidenceType DEF NotTriggered, Verdict, Certain, Statuses
<1> QED
  BY <1>1, <1>2, GateType

LEMMA InitTypes == Init => TypeOK /\ Offered
<1> SUFFICES ASSUME Init PROVE TypeOK /\ Offered
  OBVIOUS
<1>1. now \in Times /\ row \in Alerts
  BY NoEvidenceType DEF Init, NoAlert, Alert, Alerts, Opt, Times
<1>2. /\ offer \in [Users -> Evidences] /\ Offered
  BY NoEvidenceType DEF Init, Offered
<1> QED
  BY <1>1, <1>2 DEF Init, TypeOK, Opt

\* What a check leaves in the hands of its user.
LEMMA CheckPrintOffers ==
    ASSUME TypeOK, NEW u \in Users, CheckPrint(u)
    PROVE  \E window \in Evidences : /\ Whole(window)
                                     /\ offer' = [offer EXCEPT ![u] = IF window.start # Null
                                                                     THEN window ELSE @]
<1>1. seen[u] \in [window : BOOLEAN, evidence : Evidences, stop : Stops]
  BY DEF CheckPrint, TypeOK, Opt
<1>2. \A quote \in Quotes, market \in Markets :
          Certain(CheckVerdict(seen[u], quote, market, now))
  BY <1>1, VerdictType DEF TypeOK
<1>3. PICK window \in {verdict.evidence : verdict \in Verdicts(seen[u])} :
         offer' = [offer EXCEPT ![u] = IF window.start # Null THEN window ELSE @]
  BY DEF CheckPrint
<1>4. window \in Evidences /\ Whole(window)
  BY <1>2 DEF Verdicts, Certain
<1> QED
  BY <1>3, <1>4

\* What alert-open stores.
LEMMA AlertOpenStores ==
    ASSUME TypeOK, NEW u \in Users, Whole(offer[u]), NEW given \in BOOLEAN,
           AlertOpen(u, given)
    PROVE  \E status \in {"active", "pending"}, due \in Opt(0..(MaxTime + Window)) :
               /\ offer[u] \in [start : Times, line : Stops]
               /\ row' = Alert(status, offer[u], due)
               /\ Unresolved(row) => /\ status = row.status
                                     /\ row.due # Null => due = row.due
               /\ (Unresolved(row) /\ row.due # Null) \/ due \in {Null, offer[u].start + Window}
<1>1. offer[u] \in [start : Times, line : Stops]
  BY DEF AlertOpen, Whole
<1> DEFINE new == IF given THEN offer[u].start + Window ELSE Null
<1>2. new \in Opt(0..(MaxTime + Window)) /\ new \in {Null, offer[u].start + Window}
  BY <1>1 DEF Times, Opt
<1>3. row.status \in {"none", "active", "pending"} /\ row.due \in Opt(0..(MaxTime + Window))
  BY DEF TypeOK, Alerts
<1>4. CASE Unresolved(row)
  <2>1. row' = Alert(row.status, offer[u], IF row.due # Null THEN row.due ELSE new)
    BY <1>4 DEF AlertOpen
  <2> QED
    BY <1>1, <1>2, <1>3, <1>4, <2>1 DEF Unresolved
<1>5. CASE ~Unresolved(row)
  <2>1. row' = Alert("active", offer[u], new)
    BY <1>5 DEF AlertOpen
  <2> QED
    BY <1>1, <1>2, <1>5, <2>1
<1> QED
  BY <1>4, <1>5

\* What a run of check-holdings may print.
Unsettled(verdict) == Unresolved(row) /\ verdict.status \notin {"clear", "not_applicable"}
LEMMA OutputOf ==
    ASSUME NEW output \in Outputs
    PROVE  \E quote \in Quotes, market \in Markets :
               LET verdict == CheckVerdict(Read(row, stop), quote, market, now)
               IN  /\ output.alarm = Alarming(verdict, stop, quote)
                   /\ output.unsettled = Unsettled(verdict)
                   /\ output.unsettled \in BOOLEAN /\ output.alarm \in BOOLEAN
<1> DEFINE verdict(quote, market) == CheckVerdict(Read(row, stop), quote, market, now)
<1>1. Outputs = {[alarm |-> Alarming(verdict(quote, market), stop, quote),
                  unsettled |-> Unsettled(verdict(quote, market))] :
                     quote \in Quotes, market \in Markets}
  BY DEF Outputs, Unsettled
<1>2. \A quote, market : /\ Alarming(verdict(quote, market), stop, quote) \in BOOLEAN
                         /\ Unsettled(verdict(quote, market)) \in BOOLEAN
  BY DEF Alarming, Unsettled
<1> HIDE DEF verdict
<1>3. PICK quote \in Quotes, market \in Markets :
         output = [alarm |-> Alarming(verdict(quote, market), stop, quote),
                   unsettled |-> Unsettled(verdict(quote, market))]
  BY <1>1
<1> QED
  BY <1>2, <1>3 DEF verdict

LEMMA NextTypes ==
    TypeOK /\ Offered /\ [Next]_vars
        => TypeOK' /\ Offered'
<1> SUFFICES ASSUME TypeOK, Offered, [Next]_vars
             PROVE  TypeOK' /\ Offered'
  OBVIOUS
<1>1. CASE UNCHANGED vars
  BY <1>1 DEF Offered, vars, cron, TypeOK
<1>7. CASE Tick
  <2>1. now' \in Times
    BY <1>7 DEF Tick, TypeOK, Times
  <2> QED
    BY <1>7, <2>1 DEF Tick, Offered, cron, TypeOK
<1>8. ASSUME NEW line \in Stops, MoveStop(line) PROVE TypeOK' /\ Offered'
  BY <1>8 DEF MoveStop, Offered, cron, TypeOK
<1>2. ASSUME NEW u \in Users, CheckRead(u) PROVE TypeOK' /\ Offered'
  <2>1. Read(row, stop) \in [window : BOOLEAN, evidence : Evidences, stop : Stops]
    BY DEF Read, TypeOK, Alerts
  <2> QED
    BY <1>2, <2>1 DEF Offered, CheckRead, cron, TypeOK, Opt
<1>3. ASSUME NEW u \in Users, CheckPrint(u) PROVE TypeOK' /\ Offered'
  <2>1. PICK window \in Evidences :
           /\ Whole(window)
           /\ offer' = [offer EXCEPT ![u] = IF window.start # Null THEN window ELSE @]
    BY <1>3, CheckPrintOffers
  <2>2. offer' \in [Users -> Evidences] /\ \A v \in Users : Whole(offer'[v])
    BY <2>1 DEF TypeOK, Offered
  <2> QED
    BY <1>3, <2>2 DEF Offered, CheckPrint, cron, TypeOK, Opt
<1>4. ASSUME NEW u \in Users, NEW given \in BOOLEAN, AlertOpen(u, given)
      PROVE  TypeOK' /\ Offered'
  <2>1. row' \in Alerts
    <3>1. Whole(offer[u]) /\ offer[u] \in Evidences
      BY DEF TypeOK, Offered
    <3>2. PICK status \in {"active", "pending"}, due \in Opt(0..(MaxTime + Window)) :
             row' = Alert(status, offer[u], due)
      BY <1>4, <3>1, AlertOpenStores
    <3> QED
      BY <3>1, <3>2 DEF Alert, Alerts
  <2>2. replaced' \in BOOLEAN
    BY <1>4 DEF AlertOpen
  <2> QED
    BY <1>4, <2>1, <2>2 DEF Offered, AlertOpen, cron, TypeOK
<1>5. CASE AlertPending \/ AlertResolve
  <2>1. row' \in Alerts
    BY <1>5, NoEvidenceType DEF AlertPending, AlertResolve, NoAlert, Alert, Alerts, Opt, TypeOK
  <2>2. replaced' \in BOOLEAN /\ UNCHANGED <<now, stop, seen, offer, cron>>
    BY <1>5 DEF AlertPending, AlertResolve
  <2> QED
    BY <2>1, <2>2 DEF cron, TypeOK, Offered
<1>6. ASSUME NEW c \in Cron, CronStart(c) \/ CronCheck(c) \/ CronTimeout(c) \/ CronSend(c)
      PROVE  TypeOK' /\ Offered'
  <2>1. UNCHANGED <<now, stop, row, seen, offer, replaced>>
    BY <1>6 DEF CronStart, CronCheck, CronTimeout, CronSend, Moves
  <2>2. pc' \in [Cron -> {"checking", "sending", "ok", "failed"}]
    BY <1>6 DEF CronStart, CronCheck, CronTimeout, CronSend, Moves, TypeOK
  <2>3. lock' \in Opt(Cron)
    BY <1>6 DEF CronStart, CronCheck, CronTimeout, CronSend, TypeOK, Opt
  <2>4. report' \in [Cron -> {"none", "due", "logged", "pushed"}]
    BY <1>6 DEF CronStart, CronCheck, CronTimeout, CronSend, Pushed, TypeOK
  <2> QED
    BY <2>1, <2>2, <2>3, <2>4 DEF TypeOK, Offered
<1> QED
  BY <1>1, <1>2, <1>3, <1>4, <1>5, <1>6, <1>7, <1>8 DEF Next

\* Every reachable state is well typed, and what a user's last check put out is
\* a window with its start and its line.
THEOREM TypeCorrect == Spec => [](TypeOK /\ Offered)
<1> QED
  BY InitTypes, NextTypes, PTL DEF Spec

-----------------------------------------------------------------------------
(* The inductive invariant. *)

\* An event whose evidence is still the first one has a start and a line, and a
\* deadline of the row, when it was given, is the one the evidence leads to.
Consistent(alert) ==
    /\ alert.evidence \in [start : Times, line : Stops]
    /\ alert.due \in {Null, alert.evidence.start + Window}
Original == Unresolved(row) /\ ~replaced => Consistent(row)

\* A run that is to send has logged what it sends.
Reported == \A c \in Cron : pc[c] = "sending" => report[c] \in {"none", "logged"}

IInv == TypeOK /\ Offered /\ Original /\ Reported /\ NoSilentRun

\* A verdict that a run does not alarm about is a settled one.
LEMMA SilenceIsSettled ==
    ASSUME TypeOK, NEW output \in Outputs, ~output.alarm
    PROVE  ~output.unsettled
<1>1. PICK quote \in Quotes, market \in Markets :
         LET verdict == CheckVerdict(Read(row, stop), quote, market, now)
         IN  /\ output.alarm = Alarming(verdict, stop, quote)
             /\ output.unsettled = Unsettled(verdict)
  BY OutputOf
<1> DEFINE verdict == CheckVerdict(Read(row, stop), quote, market, now)
<1>2. verdict.status \in Statuses
  BY VerdictType DEF Read, TypeOK, Alerts, Certain
<1>3. verdict.status \notin {"deferred", "untradeable", "incomplete"}
  BY <1>1 DEF Alarming
<1>4. ~Unsettled(verdict)
  BY <1>2, <1>3 DEF Unsettled, Statuses
<1> QED
  BY <1>1, <1>4

LEMMA InitInv == Init => IInv
BY InitTypes DEF Init, IInv, Original, Reported, NoSilentRun, Unresolved, NoAlert, Alert

\* Only the three alert commands touch the event and its deadline.
LEMMA AlertOpenKeeps ==
    ASSUME IInv, NEW u \in Users, NEW given \in BOOLEAN, AlertOpen(u, given)
    PROVE  /\ Original'
           /\ Unresolved(row) /\ row.due # Null => row'.due = row.due
<1>1. Whole(offer[u]) /\ TypeOK
  BY DEF IInv, Offered
<1>2. PICK status \in {"active", "pending"}, due \in Opt(0..(MaxTime + Window)) :
         /\ offer[u] \in [start : Times, line : Stops]
         /\ row' = Alert(status, offer[u], due)
         /\ Unresolved(row) => status = row.status /\ (row.due # Null => due = row.due)
         /\ (Unresolved(row) /\ row.due # Null) \/ due \in {Null, offer[u].start + Window}
  BY <1>1, AlertOpenStores
<1>3. row'.evidence = offer[u] /\ row'.due = due
  BY <1>2 DEF Alert
<1>4. ASSUME ~replaced' PROVE Consistent(row')
  <2>1. CASE Unresolved(row) /\ row.due # Null
    <3>1. ~replaced /\ row.evidence = offer[u] /\ due = row.due
      BY <1>2, <1>4, <2>1 DEF AlertOpen
    <3>2. row.due \in {Null, row.evidence.start + Window}
      BY <2>1, <3>1 DEF IInv, Original, Consistent
    <3> QED
      BY <1>2, <1>3, <3>1, <3>2 DEF Consistent
  <2>2. CASE ~(Unresolved(row) /\ row.due # Null)
    BY <1>2, <1>3, <2>2 DEF Consistent
  <2> QED
    BY <2>1, <2>2
<1> QED
  BY <1>2, <1>3, <1>4 DEF Original

LEMMA NextInv == IInv /\ [Next]_vars => IInv'
<1> SUFFICES ASSUME IInv, [Next]_vars PROVE IInv'
  OBVIOUS
<1>1. TypeOK' /\ Offered' /\ TypeOK
  BY NextTypes DEF IInv
<1>2. Original'
  <2>1. ASSUME UNCHANGED <<row, replaced>> PROVE Original'
    BY <2>1 DEF IInv, Original
  <2>2. CASE UNCHANGED vars \/ Tick \/ (\E line \in Stops : MoveStop(line))
    BY <2>1, <2>2 DEF vars, Tick, MoveStop
  <2>3. ASSUME NEW u \in Users, CheckRead(u) \/ CheckPrint(u) PROVE Original'
    BY <2>1, <2>3 DEF CheckRead, CheckPrint
  <2>4. ASSUME NEW u \in Users, NEW given \in BOOLEAN, AlertOpen(u, given) PROVE Original'
    BY <2>4, AlertOpenKeeps
  <2>5. CASE AlertPending \/ AlertResolve
    BY <2>5 DEF AlertPending, AlertResolve, Original, Unresolved, NoAlert, Alert
  <2>6. ASSUME NEW c \in Cron, CronStart(c) \/ CronCheck(c) \/ CronTimeout(c) \/ CronSend(c)
        PROVE  Original'
    BY <2>1, <2>6 DEF CronStart, CronCheck, CronTimeout, CronSend, Moves
  <2> QED
    BY <2>2, <2>3, <2>4, <2>5, <2>6 DEF Next
<1>3. NoSilentRun'
  <2>1. ASSUME UNCHANGED cron PROVE NoSilentRun'
    BY <2>1 DEF IInv, NoSilentRun, cron
  <2>2. ASSUME NEW c \in Cron, CronStart(c) PROVE NoSilentRun'
    BY <1>1, <2>2 DEF CronStart, Moves, IInv, NoSilentRun, TypeOK
  <2>3. ASSUME NEW c \in Cron, CronCheck(c) PROVE NoSilentRun'
    <3>1. PICK output \in Outputs :
             /\ pc' = [pc EXCEPT ![c] = IF output.alarm THEN "sending" ELSE "ok"]
             /\ report' = [report EXCEPT ![c] = IF ~output.unsettled THEN "none"
                                              ELSE IF output.alarm THEN "logged" ELSE "due"]
      BY <2>3 DEF CronCheck, Moves
    <3>2. CASE output.alarm
      BY <1>1, <3>1, <3>2 DEF IInv, NoSilentRun, TypeOK
    <3>3. CASE ~output.alarm
      <4>1. ~output.unsettled
        BY <1>1, <3>3, SilenceIsSettled
      <4> QED
        BY <1>1, <3>1, <4>1 DEF IInv, NoSilentRun, TypeOK
    <3> QED
      BY <3>2, <3>3
  <2>4. ASSUME NEW c \in Cron, CronTimeout(c) PROVE NoSilentRun'
    BY <1>1, <2>4 DEF CronTimeout, Moves, IInv, NoSilentRun, TypeOK
  <2>5. ASSUME NEW c \in Cron, CronSend(c) PROVE NoSilentRun'
    <3>1. report[c] \in {"none", "logged"}
      BY <2>5 DEF CronSend, IInv, Reported
    <3>2. CASE Notify[c] = "disabled"
      BY <1>1, <2>5, <3>1, <3>2 DEF CronSend, Moves, IInv, NoSilentRun, TypeOK
    <3>3. CASE Notify[c] = "telegram"
      BY <1>1, <2>5, <3>1, <3>3 DEF CronSend, Pushed, Moves, IInv, NoSilentRun, TypeOK
    <3> QED
      BY <2>5, <3>2, <3>3, NotifyAssumption DEF CronSend
  <2> QED
    BY <2>1, <2>2, <2>3, <2>4, <2>5
    DEF Next, vars, Tick, MoveStop, CheckRead, CheckPrint, AlertOpen, AlertPending, AlertResolve
<1>4. Reported'
  <2>1. ASSUME UNCHANGED cron PROVE Reported'
    BY <2>1 DEF IInv, Reported, cron
  <2>2. ASSUME NEW c \in Cron, CronStart(c) \/ CronTimeout(c) \/ CronSend(c) PROVE Reported'
    BY <1>1, <2>2 DEF CronStart, CronTimeout, CronSend, Moves, IInv, Reported, TypeOK
  <2>3. ASSUME NEW c \in Cron, CronCheck(c) PROVE Reported'
    BY <1>1, <2>3 DEF CronCheck, Moves, IInv, Reported, TypeOK
  <2> QED
    BY <2>1, <2>2, <2>3
    DEF Next, vars, Tick, MoveStop, CheckRead, CheckPrint, AlertOpen, AlertPending, AlertResolve
<1> QED
  BY <1>1, <1>2, <1>3, <1>4 DEF IInv

THEOREM Invariant == Spec => []IInv
<1> QED
  BY InitInv, NextInv, PTL DEF Spec

-----------------------------------------------------------------------------
(* What the deferral promises. *)

\* A cron run that exits 0 after it found an open deferral unsettled has pushed it,
\* or has logged it where notifications are disabled.
THEOREM EveryUnsettledRunIsHeard == Spec => []NoSilentRun
<1>1. IInv => NoSilentRun
  BY DEF IInv
<1> QED
  BY <1>1, Invariant, PTL

\* While the evidence is the original one, no market, no quote and no moved stop
\* line releases the sale before the stored deadline or above the stored line.
THEOREM NothingIsReleasedEarly == Spec => []NoEarlyAction
<1>1. IInv => NoEarlyAction
  <2> SUFFICES ASSUME IInv, Unresolved(row), ~replaced,
                      NEW quote \in Quotes, NEW market \in Markets,
                      CheckVerdict(Read(row, stop), quote, market, now).eligible
               PROVE  /\ now >= row.evidence.start + Window
                      /\ row.due # Null => now >= row.due
                      /\ quote.price <= row.evidence.line
    BY DEF NoEarlyAction
  <2>1. /\ Consistent(row) /\ row.evidence \in Evidences
        /\ stop \in Stops /\ now \in Times
    BY DEF IInv, Original, TypeOK, Alerts
  <2>2. row.evidence.start # Null /\ row.evidence.line # Null
    <3>1. row.evidence.start \in Times /\ row.evidence.line \in Stops
      BY <2>1 DEF Consistent
    <3> QED
      BY <3>1, NullIsNoValue
  <2>3. Gate(row.evidence, quote, stop, market, now).eligible
    BY <2>2 DEF CheckVerdict, Read
  <2>4. now >= row.evidence.start + Window /\ quote.price <= row.evidence.line
    BY <2>1, <2>2, <2>3, GateReleases
  <2> QED
    BY <2>1, <2>4 DEF Consistent
<1> QED
  BY <1>1, Invariant, PTL

\* The snapshot without a market never acts where check-holdings would wait.
THEOREM SnapshotNeverAhead == Spec => []MonitorNeverAhead
<1>1. MonitorNeverAhead
  <2> SUFFICES ASSUME NEW quote \in Quotes, NEW market \in Markets,
                      MonitorVerdict(row, stop, quote, now).eligible
               PROVE  CheckVerdict(Read(row, stop), quote, market, now).eligible
    BY DEF MonitorNeverAhead
  <2>1. Alerting(quote, stop) /\ Gate(row.evidence, quote, stop, "none", now).eligible
    BY DEF MonitorVerdict, NotTriggered, Verdict
  <2>2. Gate(row.evidence, quote, stop, market, now).eligible
    BY <2>1, GateWithoutMarket
  <2> QED
    BY <2>1, <2>2 DEF CheckVerdict, Read
<1> QED
  BY <1>1, PTL

\* Storing another window on an open event, or taking it up again after
\* alert-pending, never moves the deadline in the row.
THEOREM DeadlineNeverMoves == Spec => DeadlineKept
<1>1. IInv /\ [Next]_vars =>
          [Unresolved(row) /\ Unresolved(row') /\ row.due # Null => row'.due = row.due]_vars
  <2> SUFFICES ASSUME IInv, Next, Unresolved(row), Unresolved(row'), row.due # Null
               PROVE  row'.due = row.due
    OBVIOUS
  <2>1. ASSUME NEW u \in Users, NEW given \in BOOLEAN, AlertOpen(u, given)
        PROVE  row'.due = row.due
    BY <2>1, AlertOpenKeeps
  <2>2. CASE AlertPending \/ AlertResolve
    BY <2>2 DEF AlertPending, AlertResolve, Alert, NoAlert, Unresolved
  <2>3. ASSUME NEW c \in Cron, CronStart(c) \/ CronCheck(c) \/ CronTimeout(c) \/ CronSend(c)
        PROVE  row' = row
    BY <2>3 DEF CronStart, CronCheck, CronTimeout, CronSend, Moves
  <2> QED
    BY <2>1, <2>2, <2>3 DEF Next, Tick, MoveStop, CheckRead, CheckPrint
<1> QED
  BY <1>1, Invariant, PTL DEF Spec, DeadlineKept
=============================================================================
