---------------------------- MODULE StopAlertProofs ----------------------------
(***************************************************************************)
(* StopAlert for any number of runs, codes, stop lines, prices and days:   *)
(* type correctness, that nothing seen goes unreported but what is lost    *)
(* between the memory and the exit of one run, and that a level is         *)
(* repeated only on a disturbed day.                                       *)
(*                                                                         *)
(* A memory must be honest, in whichever file it is: it names only what is *)
(* accounted for.  A run prints before it saves, so when its memory gets   *)
(* to the disk each level in it was accounted for before or is a line in   *)
(* the run's own buffer; from then on that line is delivered, under way or *)
(* among the lost.  For the repetitions Serial adds that runs alone on     *)
(* their day come one after the other, and that each finds in the file     *)
(* everything pushed before it.                                            *)
(***************************************************************************)
EXTENDS StopAlert, TLAPS

USE StopAssumption

\* A memory names only levels that are accounted for on its day.
Honest(m) ==
    \A c \in Codes : m.levels[c] > 0 => m.date \in Days /\ Accounted(m.date, c, m.levels[c])

\* What a run carries to the file: at least what it saw, honest but for what it
\* has not delivered yet.
Carries(p) ==
    /\ run[p].next.date = run[p].date
    /\ \A c \in Codes :
           /\ run[p].levels[c] <= run[p].next.levels[c]
           /\ run[p].next.levels[c] > 0 /\ c \notin run[p].todo \cup run[p].out
                  => Accounted(run[p].date, c, run[p].next.levels[c])
           /\ c \in run[p].todo \cup run[p].out => run[p].next.levels[c] = run[p].levels[c]
    /\ IF pc[p] = "printing" THEN run[p].out = {} ELSE run[p].todo = {}
Carrying(p) == Saving(p) \/ pc[p] = "leaving"

\* The part of the invariant that concerns one run.
Sound(p) ==
    /\ Carrying(p) => Carries(p)
    /\ pc[p] = "ok" => \A c \in Codes :
           run[p].levels[c] > 0 => Accounted(run[p].date, c, run[p].levels[c])

IInv ==
    /\ TypeOK
    /\ Honest(file)
    /\ tmp # Null => Honest(tmp)
    /\ \A p \in Procs : Sound(p)

\* The records that the steps build.
LEMMA Records ==
    /\ Nothing \in [Codes -> 0..3] /\ Empty \in Memory /\ NoRun \in Runs
    /\ NoRun.todo = {} /\ NoRun.out = {}
    /\ \A c \in Codes : Empty.levels[c] = 0
<1>1. Nothing \in [Codes -> 0..3] /\ 1 \in Days /\ 0 \in 0..MaxDay
  BY DEF Nothing, Days
<1>2. Empty \in Memory
  BY <1>1 DEF Empty, Memory
<1>3. \A c \in Codes : Empty.levels[c] = 0
  BY DEF Empty, Nothing
<1> QED
  BY <1>1, <1>2, <1>3 DEF NoRun, Run, Runs

LEMMA EmptyIsHonest == Honest(Empty)
BY Records DEF Honest

\* The fields of a run that is rebuilt.
LEMMA RunFields ==
    ASSUME NEW d \in Days, NEW levels \in [Codes -> 0..3], NEW todo \in SUBSET Codes,
           NEW out \in SUBSET Codes, NEW next \in Memory
    PROVE  LET r == Run(d, levels, todo, out, next)
           IN  /\ r \in Runs /\ r.date = d /\ r.levels = levels
               /\ r.todo = todo /\ r.out = out /\ r.next = next
BY DEF Run, Runs

\* The types of what a run is and carries.
LEMMA RunType ==
    ASSUME TypeOK, NEW p \in Procs
    PROVE  /\ run[p] \in Runs /\ run[p].date \in Days /\ run[p].levels \in [Codes -> 0..3]
           /\ run[p].todo \subseteq Codes /\ run[p].out \subseteq Codes
           /\ run[p].next \in Memory /\ run[p].next.levels \in [Codes -> 0..3]
           /\ run[p].next # Null /\ file \in Memory /\ file.levels \in [Codes -> 0..3]
           /\ \A c \in run[p].todo \cup run[p].out : run[p].levels[c] \in Levels
<1>1. run[p] \in Runs /\ file \in Memory
  BY DEF TypeOK
<1>2. /\ run[p].date \in Days /\ run[p].levels \in [Codes -> 0..3]
      /\ run[p].todo \subseteq Codes /\ run[p].out \subseteq Codes /\ run[p].next \in Memory
  BY <1>1 DEF Runs
<1>3. run[p].next # Null /\ run[p].next.levels \in [Codes -> 0..3]
      /\ file.levels \in [Codes -> 0..3]
  BY <1>1, <1>2 DEF Memory
<1> QED
  BY <1>1, <1>2, <1>3 DEF TypeOK

\* A stop level is one of the levels or none.
LEMMA LevelType ==
    ASSUME NEW price \in Prices, NEW c \in Codes
    PROVE  StopLevel(price, Stops[c]) \in 0..3
BY DEF StopLevel, Stop1, Stop2, Near

\* What a memory holds for a day, the news and the next memory.
LEMMA MemoryTypes ==
    ASSUME NEW m \in Memory, NEW d \in Days, NEW levels \in [Codes -> 0..3]
    PROVE  /\ SeenOn(m, d) \in [Codes -> 0..3]
           /\ NextMemory(levels, SeenOn(m, d), d) \in Memory
           /\ \A c \in Worsened(levels, SeenOn(m, d)) : levels[c] \in Levels
<1>1. SeenOn(m, d) \in [Codes -> 0..3]
  BY Records DEF SeenOn, Memory
<1>2. \A s \in [Codes -> 0..3] : NextMemory(levels, s, d) \in Memory
  BY DEF NextMemory, Memory, Days
<1>3. ASSUME NEW s \in [Codes -> 0..3], NEW c \in Worsened(levels, s)
      PROVE  levels[c] \in Levels
  <2>1. c \in Codes /\ levels[c] > s[c] /\ levels[c] \in 0..3 /\ s[c] \in 0..3
    BY <1>3 DEF Worsened
  <2> QED
    BY <2>1 DEF Levels, Near, Stop1, Stop2
<1> QED
  BY <1>1, <1>2, <1>3

LEMMA InitInvariant == Init => IInv
<1> SUFFICES ASSUME Init PROVE IInv
  OBVIOUS
<1>1. TypeOK
  <2>1. 1 \in Days /\ \A c \in NoRun.todo \cup NoRun.out : FALSE
    BY Records DEF Days
  <2>2. pushed \in [Days \X Codes \X Levels -> 0..2]
    BY DEF Init
  <2> QED
    BY <2>1, <2>2, Records DEF Init, TypeOK, Control
<1>2. Honest(file) /\ tmp = Null
  BY EmptyIsHonest DEF Init
<1>3. \A p \in Procs : ~Carrying(p) /\ pc[p] # "ok"
  BY DEF Init, Carrying, Saving
<1> QED
  BY <1>1, <1>2, <1>3 DEF IInv, Sound

-----------------------------------------------------------------------------
(* Types. *)

\* A run that ends, with success or without.
LEMMA EndType ==
    ASSUME TypeOK, NEW p \in Procs, NEW how \in {"idle", "ok"}, End(p, how)
    PROVE  /\ pc' \in [Procs -> Control] /\ run' \in [Procs -> Runs]
           /\ \A q \in Procs :
                  \A c \in run'[q].todo \cup run'[q].out : run'[q].levels[c] \in Levels
           /\ pc'[p] = how /\ run'[p].todo = {} /\ run'[p].out = {}
           /\ how = "ok" => run'[p].date = run[p].date /\ run'[p].levels = run[p].levels
           /\ \A q \in Procs \ {p} : pc'[q] = pc[q] /\ run'[q] = run[q]
<1>1. /\ run[p] \in Runs /\ run \in [Procs -> Runs] /\ pc \in [Procs -> Control]
      /\ run[p].date \in Days /\ run[p].levels \in [Codes -> 0..3]
  BY RunType DEF TypeOK
<1> DEFINE ended == IF how = "ok" THEN Run(run[p].date, run[p].levels, {}, {}, Empty) ELSE NoRun
<1>2. /\ ended \in Runs /\ ended.todo = {} /\ ended.out = {}
      /\ how = "ok" => ended.date = run[p].date /\ ended.levels = run[p].levels
  <2>1. CASE how = "ok"
    BY <1>1, <2>1, Records, RunFields
  <2>2. CASE how # "ok"
    BY <2>2, Records
  <2> QED
    BY <2>1, <2>2
<1>3. run' = [run EXCEPT ![p] = ended] /\ pc' = [pc EXCEPT ![p] = how]
  BY DEF End
<1> HIDE DEF ended
<1>4. pc' \in [Procs -> Control] /\ pc'[p] = how
      /\ \A q \in Procs \ {p} : pc'[q] = pc[q] /\ run'[q] = run[q]
  BY <1>1, <1>3 DEF Control
<1>5. run'[p] = ended /\ run' \in [Procs -> Runs]
  BY <1>1, <1>2, <1>3
<1>6. \A q \in Procs : \A c \in run'[q].todo \cup run'[q].out : run'[q].levels[c] \in Levels
  BY <1>2, <1>4, <1>5 DEF TypeOK
<1> QED
  BY <1>2, <1>4, <1>5, <1>6

\* A run that goes on with another record.
LEMMA GoesOn ==
    ASSUME TypeOK, NEW p \in Procs, NEW to \in Control, NEW r \in Runs,
           pc' = [pc EXCEPT ![p] = to], run' = [run EXCEPT ![p] = r],
           \A c \in r.todo \cup r.out : r.levels[c] \in Levels
    PROVE  /\ pc' \in [Procs -> Control] /\ run' \in [Procs -> Runs]
           /\ \A q \in Procs :
                  \A c \in run'[q].todo \cup run'[q].out : run'[q].levels[c] \in Levels
           /\ pc'[p] = to /\ run'[p] = r
           /\ \A q \in Procs \ {p} : pc'[q] = pc[q] /\ run'[q] = run[q]
<1>1. run \in [Procs -> Runs] /\ pc \in [Procs -> Control]
  BY DEF TypeOK
<1>2. /\ pc' \in [Procs -> Control] /\ run' \in [Procs -> Runs]
      /\ pc'[p] = to /\ run'[p] = r
      /\ \A q \in Procs \ {p} : pc'[q] = pc[q] /\ run'[q] = run[q]
  BY <1>1
<1>3. \A q \in Procs : \A c \in run'[q].todo \cup run'[q].out : run'[q].levels[c] \in Levels
  BY <1>2 DEF TypeOK
<1> QED
  BY <1>2, <1>3

\* Delivered lines are counted, up to two of each; nothing is taken back.
LEMMA Delivered ==
    ASSUME TypeOK, NEW p \in Procs, NEW codes \in SUBSET Codes, Deliver(Lines(p, codes))
    PROVE  /\ pushed' \in [Days \X Codes \X Levels -> 0..2]
           /\ \A x \in Days \X Codes \X Levels : pushed'[x] >= pushed[x]
           /\ \A d \in Days, c \in Codes, l \in Levels :
                  IF d = run[p].date /\ c \in codes /\ l = run[p].levels[c]
                  THEN pushed'[<<d, c, l>>] > 0 /\ pushed'[<<d, c, l>>] <= pushed[<<d, c, l>>] + 1
                  ELSE pushed'[<<d, c, l>>] = pushed[<<d, c, l>>]
<1>1. pushed \in [Days \X Codes \X Levels -> 0..2]
  BY DEF TypeOK
<1> DEFINE lines == Lines(p, codes)
<1>2. \A d, c, l : <<d, c, l>> \in lines <=>
                       d = run[p].date /\ c \in codes /\ l = run[p].levels[c]
  BY DEF Lines
<1>3. pushed' = [x \in Days \X Codes \X Levels |->
                    IF x \in lines /\ pushed[x] < 2 THEN pushed[x] + 1 ELSE pushed[x]]
  BY DEF Deliver
<1> HIDE DEF lines
<1>4. \A x \in Days \X Codes \X Levels :
          /\ pushed[x] \in 0..2
          /\ pushed'[x] = IF x \in lines /\ pushed[x] < 2 THEN pushed[x] + 1 ELSE pushed[x]
  BY <1>1, <1>3
<1>5. \A x \in Days \X Codes \X Levels :
          /\ pushed'[x] \in 0..2 /\ pushed'[x] >= pushed[x]
          /\ x \in lines => pushed'[x] > 0 /\ pushed'[x] <= pushed[x] + 1
          /\ x \notin lines => pushed'[x] = pushed[x]
  BY <1>4
<1>6. pushed' \in [Days \X Codes \X Levels -> 0..2]
  BY <1>3, <1>5
<1>7. \A d \in Days, c \in Codes, l \in Levels : <<d, c, l>> \in Days \X Codes \X Levels
  OBVIOUS
<1> QED
  BY <1>2, <1>5, <1>6, <1>7

\* What is lost is a set of lines, and what was lost stays lost.
LEMMA LostType ==
    ASSUME TypeOK, NEW p \in Procs, Lose(p)
    PROVE  lost' \subseteq Days \X Codes \X Levels /\ lost \subseteq lost'
<1>1. Lines(p, run[p].out) \subseteq Days \X Codes \X Levels
  BY RunType DEF Lines
<1> QED
  BY <1>1 DEF Lose, TypeOK

\* Every step keeps the types.
LEMMA TypeInductive == TypeOK /\ [Next]_vars => TypeOK'
<1> SUFFICES ASSUME TypeOK, [Next]_vars PROVE TypeOK'
  OBVIOUS
<1> USE DEF Control
<1>1. ASSUME NextDay PROVE TypeOK'
  BY <1>1 DEF NextDay, TypeOK, Days
<1>2. ASSUME NEW p \in Procs, Fetch(p) PROVE TypeOK'
  <2>1. PICK fresh \in SUBSET Codes, price \in [Codes -> Prices] :
            /\ started' = started + 1
            /\ IF fresh = {} THEN End(p, "idle")
               ELSE /\ pc' = [pc EXCEPT ![p] = "fetched"]
                    /\ run' = [run EXCEPT ![p] = Run(today,
                           [c \in Codes |-> IF c \in fresh
                                            THEN StopLevel(price[c], Stops[c]) ELSE 0],
                           {}, {}, Empty)]
            /\ disturbed' = disturbed \cup UNION {{today, run[q].date} :
                                                     q \in {r \in Procs \ {p} : ~Idle(r)}}
            /\ UNCHANGED <<today, file, tmp, inode, pushed, lost>>
    BY <1>2 DEF Fetch
  <2>2. disturbed' \subseteq Days /\ started' \in Nat
    BY <2>1, RunType DEF TypeOK
  <2>3. CASE fresh = {}
    BY <2>1, <2>2, <2>3, EndType DEF TypeOK
  <2>4. CASE fresh # {}
    <3> DEFINE levels == [c \in Codes |->
                             IF c \in fresh THEN StopLevel(price[c], Stops[c]) ELSE 0]
               fetched == Run(today, levels, {}, {}, Empty)
    <3>1. levels \in [Codes -> 0..3]
      <4> SUFFICES ASSUME NEW c \in Codes, c \in fresh
                   PROVE  StopLevel(price[c], Stops[c]) \in 0..3
        OBVIOUS
      <4>1. price[c] \in Prices
        OBVIOUS
      <4> QED
        BY <4>1, LevelType
    <3> HIDE DEF levels
    <3>2. fetched \in Runs /\ fetched.todo = {} /\ fetched.out = {}
      <4>1. today \in Days
        BY DEF TypeOK
      <4> QED
        BY <3>1, <4>1, Records, RunFields
    <3>3. run' = [run EXCEPT ![p] = fetched] /\ pc' = [pc EXCEPT ![p] = "fetched"]
      BY <2>1, <2>4 DEF levels
    <3> HIDE DEF fetched
    <3> QED
      BY <2>1, <2>2, <3>2, <3>3, GoesOn DEF TypeOK
  <2> QED
    BY <2>3, <2>4
<1>3. ASSUME NEW p \in Procs, Load(p) PROVE TypeOK'
  <2> DEFINE seen == SeenOn(file, run[p].date)
             news == Worsened(run[p].levels, seen)
             next == NextMemory(run[p].levels, seen, run[p].date)
             loaded == Run(run[p].date, run[p].levels, news, {}, next)
  <2>1. next \in Memory /\ news \subseteq Codes
        /\ \A c \in news : run[p].levels[c] \in Levels
    BY RunType, MemoryTypes DEF Worsened
  <2>2. UNCHANGED <<today, started, file, tmp, inode, pushed, disturbed, lost>>
    BY <1>3 DEF Load
  <2>3. CASE news = {}
    BY <1>3, <2>2, <2>3, EndType DEF Load, TypeOK
  <2>4. CASE news # {}
    <3>1. pc' = [pc EXCEPT ![p] = "printing"] /\ run' = [run EXCEPT ![p] = loaded]
      BY <1>3, <2>4 DEF Load
    <3> HIDE DEF next, news
    <3>2. /\ loaded \in Runs /\ loaded.todo = news /\ loaded.out = {}
          /\ loaded.levels = run[p].levels
      BY <2>1, RunType, RunFields
    <3> HIDE DEF loaded
    <3> QED
      BY <2>1, <2>2, <3>1, <3>2, GoesOn DEF TypeOK
  <2> QED
    BY <2>3, <2>4
<1>4. ASSUME NEW p \in Procs, PrintLines(p) PROVE TypeOK'
  <2>1. PICK through \in SUBSET run[p].todo :
            /\ Deliver(Lines(p, through))
            /\ run' = [run EXCEPT ![p] = Run(run[p].date, run[p].levels, {},
                                             run[p].todo \ through, run[p].next)]
            /\ pc' = [pc EXCEPT ![p] = "open"]
            /\ UNCHANGED <<today, started, file, tmp, inode, disturbed, lost>>
    BY <1>4 DEF PrintLines
  <2> DEFINE printed == Run(run[p].date, run[p].levels, {}, run[p].todo \ through, run[p].next)
  <2>2. /\ printed \in Runs /\ printed.todo = {} /\ printed.out = run[p].todo \ through
        /\ printed.levels = run[p].levels
    BY RunType, RunFields
  <2> HIDE DEF printed
  <2>3. \A c \in printed.todo \cup printed.out : printed.levels[c] \in Levels
    BY <2>2, RunType
  <2>4. pushed' \in [Days \X Codes \X Levels -> 0..2]
    BY <2>1, RunType, Delivered
  <2>5. run' = [run EXCEPT ![p] = printed]
    BY <2>1 DEF printed
  <2> QED
    BY <2>1, <2>2, <2>3, <2>4, <2>5, GoesOn DEF TypeOK
<1>5. ASSUME NEW p \in Procs, OpenTmp(p) PROVE TypeOK'
  BY <1>5, Records DEF OpenTmp, TypeOK
<1>6. ASSUME NEW p \in Procs, WriteTmp(p) PROVE TypeOK'
  BY <1>6, RunType DEF WriteTmp, TypeOK
<1>7. ASSUME NEW p \in Procs, Replace(p) PROVE TypeOK'
  BY <1>7 DEF Replace, TypeOK
<1>8. ASSUME NEW p \in Procs, Raise(p) PROVE TypeOK'
  <2>1. PICK printed \in SUBSET run[p].todo :
            \/ Deliver(Lines(p, run[p].out \cup printed)) /\ UNCHANGED lost
            \/ Lose(p) /\ UNCHANGED pushed
    BY <1>8 DEF Raise
  <2>2. pushed' \in [Days \X Codes \X Levels -> 0..2]
    BY <2>1, RunType, Delivered DEF TypeOK
  <2>3. lost' \subseteq Days \X Codes \X Levels
    BY <2>1, LostType DEF TypeOK
  <2>4. disturbed' \subseteq Days /\ inode' \in [Procs -> {"tmp", "state", "gone"}]
    BY <1>8, RunType DEF Raise, Disturb, TypeOK
  <2>5. End(p, "idle") /\ UNCHANGED <<today, started, file, tmp>>
    BY <1>8 DEF Raise
  <2> QED
    BY <2>2, <2>3, <2>4, <2>5, EndType DEF TypeOK
<1>9. ASSUME NEW p \in Procs, Exit(p) PROVE TypeOK'
  <2>1. PICK how \in {"idle", "ok"} : End(p, how)
    BY <1>9 DEF Exit
  <2>2. pushed' \in [Days \X Codes \X Levels -> 0..2]
    BY <1>9, RunType, Delivered DEF Exit, TypeOK
  <2>3. lost' \subseteq Days \X Codes \X Levels
    BY <1>9, LostType DEF Exit, TypeOK
  <2> QED
    BY <1>9, <2>1, <2>2, <2>3, EndType DEF Exit, TypeOK
<1>10. ASSUME NEW p \in Procs, Crash(p) PROVE TypeOK'
  <2>1. disturbed' \subseteq Days /\ inode' \in [Procs -> {"tmp", "state", "gone"}]
    BY <1>10, RunType DEF Crash, Disturb, TypeOK
  <2>2. End(p, "idle") /\ Lose(p) /\ UNCHANGED <<today, started, file, tmp, pushed>>
    BY <1>10 DEF Crash
  <2> QED
    BY <2>1, <2>2, EndType, LostType DEF TypeOK
<1>11. ASSUME UNCHANGED vars PROVE TypeOK'
  BY <1>11 DEF vars, TypeOK
<1> QED
  BY <1>1, <1>2, <1>3, <1>4, <1>5, <1>6, <1>7, <1>8, <1>9, <1>10, <1>11 DEF Next

-----------------------------------------------------------------------------
(* What is accounted for. *)

\* A step of a run.
Step(p) ==
    \/ Fetch(p) \/ Load(p) \/ PrintLines(p) \/ OpenTmp(p) \/ WriteTmp(p) \/ Replace(p)
    \/ Exit(p) \/ Raise(p) \/ Crash(p)

LEMMA SomeStep == [Next]_vars => NextDay \/ UNCHANGED vars \/ \E p \in Procs : Step(p)
BY DEF Next, Step

\* It moves no other run, takes no push back and finds nothing that was lost.
LEMMA StepOf ==
    ASSUME TypeOK, NEW p \in Procs, Step(p)
    PROVE  /\ \A q \in Procs \ {p} : pc'[q] = pc[q] /\ run'[q] = run[q]
           /\ \A x \in Days \X Codes \X Levels : pushed'[x] >= pushed[x]
           /\ lost \subseteq lost'
<1>1. /\ pc \in [Procs -> Control] /\ run \in [Procs -> Runs]
      /\ \A x \in Days \X Codes \X Levels : pushed[x] >= pushed[x]
  BY DEF TypeOK
<1>2. \A how : End(p, how) => \A q \in Procs \ {p} : pc'[q] = pc[q] /\ run'[q] = run[q]
  BY <1>1 DEF End
<1>3. CASE Fetch(p)
  BY <1>1, <1>2, <1>3 DEF Fetch
<1>4. CASE Load(p)
  BY <1>1, <1>2, <1>4 DEF Load
<1>5. CASE PrintLines(p)
  <2>1. PICK through \in SUBSET run[p].todo : Deliver(Lines(p, through))
    BY <1>5 DEF PrintLines
  <2>2. \A x \in Days \X Codes \X Levels : pushed'[x] >= pushed[x]
    BY <2>1, RunType, Delivered
  <2> QED
    BY <1>1, <1>5, <2>2 DEF PrintLines
<1>6. CASE OpenTmp(p) \/ WriteTmp(p) \/ Replace(p)
  BY <1>1, <1>6 DEF OpenTmp, WriteTmp, Replace
<1>7. CASE Raise(p)
  <2>1. PICK printed \in SUBSET run[p].todo :
            \/ Deliver(Lines(p, run[p].out \cup printed)) /\ UNCHANGED lost
            \/ Lose(p) /\ UNCHANGED pushed
    BY <1>7 DEF Raise
  <2>2. \A x \in Days \X Codes \X Levels : pushed'[x] >= pushed[x]
    BY <1>1, <2>1, RunType, Delivered
  <2>3. lost \subseteq lost'
    BY <2>1, LostType
  <2> QED
    BY <1>2, <1>7, <2>2, <2>3 DEF Raise
<1>8. CASE Exit(p)
  <2>1. \A x \in Days \X Codes \X Levels : pushed'[x] >= pushed[x]
    BY <1>1, <1>8, RunType, Delivered DEF Exit
  <2>2. lost \subseteq lost'
    BY <1>8, LostType DEF Exit
  <2> QED
    BY <1>2, <1>8, <2>1, <2>2 DEF Exit
<1>9. CASE Crash(p)
  BY <1>1, <1>2, <1>9, LostType DEF Crash
<1> QED
  BY <1>3, <1>4, <1>5, <1>6, <1>7, <1>8, <1>9 DEF Step

LEMMA ToldStays ==
    ASSUME TypeOK, TypeOK', NEW d \in Days, NEW c \in Codes, NEW level \in 0..3,
           Told(d, c, level), \A x \in Days \X Codes \X Levels : pushed'[x] >= pushed[x]
    PROVE  Told(d, c, level)'
<1>1. PICK l \in Levels : l >= level /\ pushed[<<d, c, l>>] > 0
  BY DEF Told
<1>2. /\ pushed'[<<d, c, l>>] >= pushed[<<d, c, l>>]
      /\ pushed'[<<d, c, l>>] \in 0..2 /\ pushed[<<d, c, l>>] \in 0..2
  BY DEF TypeOK
<1> QED
  BY <1>1, <1>2 DEF Told

\* A line that is under way arrives, stays under way or is lost.
LEMMA UnderwayGoesOn ==
    ASSUME TypeOK, TypeOK', NEW d \in Days, NEW c \in Codes, NEW level \in 0..3,
           NEW p \in Procs, Step(p), Wrote(p), run[p].date = d,
           c \in run[p].out, run[p].levels[c] >= level
    PROVE  Accounted(d, c, level)'
<1> DEFINE line == <<d, c, run[p].levels[c]>>
<1>1. /\ run[p].levels[c] \in Levels /\ line \in Lines(p, run[p].out)
      /\ pc[p] \in {"replace", "leaving"}
  BY RunType DEF Lines, Wrote
<1>2. CASE Replace(p)
  <2>1. run'[p] = run[p] /\ Wrote(p)'
    BY <1>2 DEF Replace, Wrote, TypeOK
  <2> QED
    BY <2>1 DEF Accounted, Underway
<1>3. ASSUME Lose(p) PROVE Accounted(d, c, level)'
  <2>1. line \in lost'
    BY <1>1, <1>3 DEF Lose
  <2> QED
    BY <1>1, <2>1 DEF Accounted, Missed
<1>4. ASSUME NEW codes \in SUBSET Codes, c \in codes, Deliver(Lines(p, codes))
      PROVE  Accounted(d, c, level)'
  <2>1. pushed'[line] > 0
    BY <1>1, <1>4, RunType, Delivered
  <2> QED
    BY <1>1, <2>1 DEF Accounted, Told
<1>5. CASE Raise(p)
  <2>1. PICK printed \in SUBSET run[p].todo :
            Deliver(Lines(p, run[p].out \cup printed)) \/ Lose(p)
    BY <1>5 DEF Raise
  <2>2. run[p].out \cup printed \in SUBSET Codes
    BY RunType
  <2> QED
    BY <1>3, <1>4, <2>1, <2>2
<1>6. CASE Exit(p) \/ Crash(p)
  BY <1>3, <1>4, <1>6, RunType DEF Exit, Crash
<1>7. Replace(p) \/ Raise(p) \/ Exit(p) \/ Crash(p)
  BY <1>1 DEF Step, Fetch, Load, PrintLines, OpenTmp, WriteTmp, Idle
<1> QED
  BY <1>2, <1>5, <1>6, <1>7

\* What is accounted for stays so.
LEMMA AccountedStays ==
    ASSUME TypeOK, TypeOK', [Next]_vars, NEW d \in Days, NEW c \in Codes, NEW level \in 0..3,
           Accounted(d, c, level)
    PROVE  Accounted(d, c, level)'
<1>1. CASE NextDay \/ UNCHANGED vars
  BY <1>1 DEF NextDay, vars, Accounted, Told, Underway, Missed, Wrote
<1>2. ASSUME NEW p \in Procs, Step(p) PROVE Accounted(d, c, level)'
  <2>1. CASE Told(d, c, level)
    BY <1>2, <2>1, StepOf, ToldStays DEF Accounted
  <2>2. CASE Missed(d, c, level)
    BY <1>2, <2>2, StepOf DEF Accounted, Missed
  <2>3. ASSUME NEW q \in Procs, Wrote(q), run[q].date = d,
               c \in run[q].out, run[q].levels[c] >= level
        PROVE  Accounted(d, c, level)'
    <3>1. CASE q = p
      BY <1>2, <2>3, <3>1, UnderwayGoesOn
    <3>2. CASE q # p
      <4>1. pc'[q] = pc[q] /\ run'[q] = run[q]
        BY <1>2, <3>2, StepOf
      <4> QED
        BY <2>3, <4>1 DEF Accounted, Underway, Wrote
    <3> QED
      BY <3>1, <3>2
  <2> QED
    BY <2>1, <2>2, <2>3 DEF Accounted, Underway
<1> QED
  BY <1>1, <1>2, SomeStep

\* An honest memory stays honest.
LEMMA HonestStays ==
    ASSUME TypeOK, TypeOK', [Next]_vars, NEW m \in Memory, Honest(m)
    PROVE  Honest(m)'
<1> SUFFICES ASSUME NEW c \in Codes, m.levels[c] > 0
             PROVE  m.date \in Days /\ Accounted(m.date, c, m.levels[c])'
  BY DEF Honest
<1>1. m.date \in Days /\ Accounted(m.date, c, m.levels[c]) /\ m.levels[c] \in 0..3
  BY DEF Honest, Memory
<1> QED
  BY <1>1, AccountedStays

\* A run that does not move stays sound.
LEMMA OthersStaySound ==
    ASSUME TypeOK, TypeOK', [Next]_vars, NEW p \in Procs, Sound(p),
           run'[p] = run[p], pc'[p] = pc[p]
    PROVE  Sound(p)'
<1>1. run[p].date \in Days /\ \A c \in Codes : run[p].levels[c] \in 0..3
                                               /\ run[p].next.levels[c] \in 0..3
  BY RunType
<1>2. \A c \in Codes, level \in 0..3 :
          Accounted(run[p].date, c, level) => Accounted(run[p].date, c, level)'
  BY <1>1, AccountedStays
<1>3. Carrying(p)' => Carries(p)'
  BY <1>1, <1>2 DEF Sound, Carrying, Saving, Carries
<1>4. pc'[p] = "ok" => \A c \in Codes :
          run'[p].levels[c] > 0 => Accounted(run[p].date, c, run[p].levels[c])'
  BY <1>1, <1>2 DEF Sound
<1> QED
  BY <1>3, <1>4 DEF Sound

\* The memory of a day that was read from an honest file: what is not news was
\* accounted for before.
LEMMA LoadedIsHonest ==
    ASSUME TypeOK, Honest(file), NEW p \in Procs, NEW c \in Codes
    PROVE  LET seen == SeenOn(file, run[p].date)
               next == NextMemory(run[p].levels, seen, run[p].date)
           IN  /\ run[p].levels[c] <= next.levels[c]
               /\ c \in Worsened(run[p].levels, seen) => next.levels[c] = run[p].levels[c]
               /\ next.levels[c] > 0 /\ c \notin Worsened(run[p].levels, seen)
                      => Accounted(run[p].date, c, next.levels[c])
<1> DEFINE seen == SeenOn(file, run[p].date)
<1>1. seen \in [Codes -> 0..3] /\ run[p].levels \in [Codes -> 0..3]
  BY RunType, MemoryTypes
<1>2. seen[c] > 0 => Accounted(run[p].date, c, seen[c])
  BY DEF SeenOn, Nothing, Honest
<1> HIDE DEF seen
<1>3. /\ run[p].levels[c] <= NextMemory(run[p].levels, seen, run[p].date).levels[c]
      /\ c \in Worsened(run[p].levels, seen)
             => NextMemory(run[p].levels, seen, run[p].date).levels[c] = run[p].levels[c]
      /\ c \notin Worsened(run[p].levels, seen)
             => NextMemory(run[p].levels, seen, run[p].date).levels[c] = seen[c]
  BY <1>1 DEF NextMemory, Worsened
<1> QED
  BY <1>2, <1>3 DEF seen

\* What accounts for a level accounts for every lower one.
LEMMA AccountedDown ==
    ASSUME TypeOK, NEW d, NEW c \in Codes, NEW high \in 0..3, NEW low \in 0..3, low <= high,
           Accounted(d, c, high)
    PROVE  Accounted(d, c, low)
<1>1. \A l \in Levels : l >= high => l >= low
  BY DEF Levels, Near, Stop1, Stop2
<1>2. \A p \in Procs : run[p].levels[c] >= high => run[p].levels[c] >= low
  BY RunType
<1> QED
  BY <1>1, <1>2 DEF Accounted, Told, Underway, Missed

\* What a run has written is honest: what it has not delivered is under way.
LEMMA WrittenIsHonest ==
    ASSUME IInv, TypeOK', [Next]_vars, NEW p \in Procs, WriteTmp(p),
           NEW m \in Memory, m = run[p].next
    PROVE  Honest(m)'
<1>1. TypeOK /\ Carries(p) /\ run[p].todo = {}
  BY DEF IInv, Sound, Carrying, Saving, WriteTmp, Carries
<1>2. run'[p] = run[p] /\ Wrote(p)'
  BY <1>1 DEF WriteTmp, Wrote, TypeOK
<1>3. /\ m.date \in Days /\ run[p].date = m.date
      /\ \A c \in Codes : run[p].levels[c] \in 0..3 /\ m.levels[c] \in 0..3
  BY <1>1, RunType DEF Carries
<1>4. ASSUME NEW c \in Codes, m.levels[c] > 0
      PROVE  Accounted(m.date, c, m.levels[c])'
  <2>1. CASE c \in run[p].out
    <3>1. run'[p].levels[c] >= m.levels[c]
      BY <1>1, <1>2, <1>3, <2>1 DEF Carries
    <3> QED
      BY <1>2, <1>3, <2>1, <3>1 DEF Accounted, Underway
  <2>2. CASE c \notin run[p].out
    <3>1. Accounted(m.date, c, m.levels[c])
      BY <1>1, <1>3, <1>4, <2>2 DEF Carries
    <3> QED
      BY <1>1, <1>3, <3>1, AccountedStays
  <2> QED
    BY <2>1, <2>2
<1> QED
  BY <1>3, <1>4 DEF Honest

\* A step leaves honest memories.
LEMMA FilesStayHonest ==
    ASSUME IInv, TypeOK', [Next]_vars
    PROVE  Honest(file)' /\ (tmp' # Null => Honest(tmp)')
<1>1. /\ TypeOK /\ file \in Memory /\ Honest(file)
      /\ tmp # Null => tmp \in Memory /\ Honest(tmp)
  BY DEF IInv, TypeOK
<1>2. \A m \in Memory : Honest(m) => Honest(m)'
  BY <1>1, HonestStays
<1>3. \A q \in Procs : \A m \in Memory : WriteTmp(q) /\ m = run[q].next => Honest(m)'
  BY WrittenIsHonest
<1>4. Empty \in Memory /\ Honest(Empty)
  BY Records, EmptyIsHonest
<1>5. file' = file \/ (file' = tmp /\ tmp # Null)
      \/ \E q \in Procs : WriteTmp(q) /\ file' = run[q].next
  BY DEF Next, vars, NextDay, Fetch, Load, PrintLines, OpenTmp, WriteTmp, Replace,
         Raise, Exit, Crash
<1>6. tmp' = tmp \/ tmp' = Empty \/ tmp' = Null
      \/ \E q \in Procs : WriteTmp(q) /\ tmp' = run[q].next
  BY DEF Next, vars, NextDay, Fetch, Load, PrintLines, OpenTmp, WriteTmp, Replace,
         Raise, Exit, Crash
<1>7. Honest(file)'
  <2>1. CASE file' = file
    BY <1>1, <1>2, <2>1 DEF Honest
  <2>2. CASE file' = tmp /\ tmp # Null
    BY <1>1, <1>2, <2>2 DEF Honest
  <2>3. ASSUME NEW q \in Procs, WriteTmp(q), file' = run[q].next PROVE Honest(file)'
    <3>1. run[q].next \in Memory
      BY <1>1, RunType
    <3>2. PICK m \in Memory : m = run[q].next
      BY <3>1
    <3> QED
      BY <1>3, <2>3, <3>2 DEF Honest
  <2> QED
    BY <1>5, <2>1, <2>2, <2>3
<1>8. ASSUME tmp' # Null PROVE Honest(tmp)'
  <2>1. CASE tmp' = tmp
    BY <1>1, <1>2, <1>8, <2>1 DEF Honest
  <2>2. CASE tmp' = Empty
    BY <1>4, <2>2, Records DEF Honest
  <2>3. ASSUME NEW q \in Procs, WriteTmp(q), tmp' = run[q].next PROVE Honest(tmp)'
    <3>1. run[q].next \in Memory
      BY <1>1, RunType
    <3>2. PICK m \in Memory : m = run[q].next
      BY <3>1
    <3> QED
      BY <1>3, <2>3, <3>2 DEF Honest
  <2> QED
    BY <1>6, <1>8, <2>1, <2>2, <2>3
<1> QED
  BY <1>7, <1>8

\* A run that finds no news was told of everything before.
LEMMA LoadSound ==
    ASSUME IInv, TypeOK', [Next]_vars, NEW p \in Procs, Load(p)
    PROVE  Sound(p)'
<1>1. TypeOK /\ run[p].date \in Days /\ run[p].levels \in [Codes -> 0..3]
  BY RunType DEF IInv
<1>2. PICK day \in Days, levels \in [Codes -> 0..3], news \in SUBSET Codes, next \in Memory :
          /\ day = run[p].date /\ levels = run[p].levels
          /\ news = Worsened(levels, SeenOn(file, day))
          /\ next = NextMemory(levels, SeenOn(file, day), day)
  BY <1>1, RunType, MemoryTypes DEF Worsened
<1>3. next.date = day /\ next.levels \in [Codes -> 0..3]
  BY <1>2 DEF NextMemory, Memory
<1>4. \A c \in Codes : /\ levels[c] <= next.levels[c]
                       /\ c \in news => next.levels[c] = levels[c]
                       /\ next.levels[c] > 0 /\ c \notin news => Accounted(day, c, next.levels[c])
  BY <1>1, <1>2, LoadedIsHonest DEF IInv
<1>5. \A c \in Codes : next.levels[c] > 0 /\ c \notin news => Accounted(day, c, next.levels[c])'
  BY <1>1, <1>3, <1>4, AccountedStays
<1>6. CASE news = {}
  <2>1. /\ pc'[p] = "ok" /\ run'[p].levels = levels /\ run'[p].date = day
    BY <1>1, <1>2, <1>6, EndType DEF Load
  <2>2. ASSUME NEW c \in Codes, levels[c] > 0
        PROVE  Accounted(day, c, levels[c])'
    <3>1. levels[c] \in 0..3 /\ next.levels[c] \in 0..3
      BY <1>3
    <3>2. Accounted(day, c, levels[c])
      BY <1>1, <1>4, <1>6, <2>2, <3>1, AccountedDown
    <3> QED
      BY <1>1, <3>1, <3>2, AccountedStays
  <2> QED
    BY <2>1, <2>2 DEF Sound, Carrying, Saving
<1>7. CASE news # {}
  <2>1. /\ pc' = [pc EXCEPT ![p] = "printing"]
        /\ run' = [run EXCEPT ![p] = Run(day, levels, news, {}, next)]
    BY <1>2, <1>7 DEF Load
  <2>2. /\ pc'[p] = "printing" /\ run'[p].date = day /\ run'[p].levels = levels
        /\ run'[p].todo = news /\ run'[p].out = {} /\ run'[p].next = next
    BY <1>1, <2>1 DEF Run, TypeOK
  <2>3. Carries(p)'
    BY <1>3, <1>4, <1>5, <2>2 DEF Carries
  <2> QED
    BY <2>2, <2>3 DEF Sound
<1> QED
  BY <1>6, <1>7

\* What gets through is told, the rest is on its way.
LEMMA PrintSound ==
    ASSUME IInv, TypeOK', [Next]_vars, NEW p \in Procs, PrintLines(p)
    PROVE  Sound(p)'
<1>1. TypeOK /\ Carries(p) /\ run[p].out = {}
  BY DEF IInv, PrintLines, Sound, Carrying, Saving, Carries
<1>2. PICK day \in Days, levels \in [Codes -> 0..3], todo \in SUBSET Codes, next \in Memory :
          day = run[p].date /\ levels = run[p].levels /\ todo = run[p].todo /\ next = run[p].next
  BY <1>1, RunType
<1>3. PICK through \in SUBSET todo :
          /\ Deliver(Lines(p, through))
          /\ run' = [run EXCEPT ![p] = Run(day, levels, {}, todo \ through, next)]
          /\ pc' = [pc EXCEPT ![p] = "open"]
  BY <1>2 DEF PrintLines
<1>4. next.levels \in [Codes -> 0..3] /\ \A c \in through : levels[c] \in Levels
  BY <1>1, <1>2, RunType
<1>5. /\ pc'[p] = "open" /\ run'[p].date = day /\ run'[p].levels = levels
      /\ run'[p].todo = {} /\ run'[p].out = todo \ through /\ run'[p].next = next
  BY <1>1, <1>3 DEF Run, TypeOK
<1>6. ASSUME NEW c \in Codes, next.levels[c] > 0, c \notin todo \ through
      PROVE  Accounted(day, c, next.levels[c])'
  <2>1. CASE c \in through
    <3>1. pushed'[<<day, c, levels[c]>>] > 0
      BY <1>1, <1>2, <1>3, <1>4, <2>1, Delivered
    <3>2. next.levels[c] = levels[c] /\ levels[c] \in 0..3
      BY <1>1, <1>2, <2>1 DEF Carries
    <3> QED
      BY <1>4, <2>1, <3>1, <3>2 DEF Accounted, Told
  <2>2. CASE c \notin through
    <3>1. Accounted(day, c, next.levels[c])
      BY <1>1, <1>2, <1>6, <2>2 DEF Carries
    <3> QED
      BY <1>1, <1>4, <3>1, AccountedStays
  <2> QED
    BY <2>1, <2>2
<1>7. Carries(p)'
  BY <1>1, <1>2, <1>5, <1>6 DEF Carries
<1> QED
  BY <1>5, <1>7 DEF Sound

\* A run that exits with success has delivered what it printed.
LEMMA ExitSound ==
    ASSUME IInv, TypeOK', [Next]_vars, NEW p \in Procs, Exit(p)
    PROVE  Sound(p)'
<1>1. TypeOK
  BY DEF IInv
<1>2. CASE End(p, "idle")
  BY <1>1, <1>2, EndType DEF Sound, Carrying, Saving
<1>3. CASE End(p, "ok") /\ pc[p] = "leaving" /\ Deliver(Lines(p, run[p].out))
  <2>1. Carries(p) /\ run[p].todo = {}
    BY <1>3 DEF IInv, Sound, Carrying, Carries
  <2>2. PICK day \in Days, levels \in [Codes -> 0..3], next \in Memory :
            day = run[p].date /\ levels = run[p].levels /\ next = run[p].next
    BY <1>1, RunType
  <2>3. /\ pc'[p] = "ok" /\ run'[p].date = day /\ run'[p].levels = levels
    BY <1>1, <1>3, <2>2, EndType
  <2>4. ASSUME NEW c \in Codes, levels[c] > 0
        PROVE  Accounted(day, c, levels[c])'
    <3>1. levels[c] \in 0..3 /\ next.levels[c] \in 0..3
      BY <1>1, <2>2, RunType
    <3>2. CASE c \in run[p].out
      <4>1. levels[c] \in Levels /\ run[p].out \in SUBSET Codes
        BY <1>1, <2>2, <3>2, RunType
      <4>2. pushed'[<<day, c, levels[c]>>] > 0
        BY <1>1, <1>3, <2>2, <3>2, <4>1, Delivered
      <4> QED
        BY <3>1, <4>1, <4>2 DEF Accounted, Told
    <3>3. CASE c \notin run[p].out
      <4>1. Accounted(day, c, next.levels[c]) /\ levels[c] <= next.levels[c]
        BY <2>1, <2>2, <2>4, <3>1, <3>3 DEF Carries
      <4>2. Accounted(day, c, levels[c])
        BY <1>1, <3>1, <4>1, AccountedDown
      <4> QED
        BY <1>1, <3>1, <4>2, AccountedStays
    <3> QED
      BY <3>2, <3>3
  <2> QED
    BY <2>3, <2>4 DEF Sound, Carrying, Saving
<1> QED
  BY <1>2, <1>3 DEF Exit

\* A run is sound after each step of its own.
LEMMA OwnSound ==
    ASSUME IInv, TypeOK', [Next]_vars, NEW p \in Procs, Step(p)
    PROVE  Sound(p)'
<1>1. TypeOK
  BY DEF IInv
<1>2. CASE Fetch(p)
  <2>1. CASE End(p, "idle")
    BY <1>1, <2>1, EndType DEF Sound, Carrying, Saving
  <2>2. CASE pc' = [pc EXCEPT ![p] = "fetched"]
    BY <1>1, <2>2 DEF Sound, Carrying, Saving, TypeOK
  <2> QED
    BY <1>2, <2>1, <2>2 DEF Fetch
<1>3. CASE OpenTmp(p) \/ WriteTmp(p) \/ Replace(p)
  <2>1. /\ run'[p] = run[p] /\ pc'[p] \in {"write", "replace", "leaving"}
        /\ Saving(p) /\ pc[p] # "printing"
    BY <1>1, <1>3 DEF OpenTmp, WriteTmp, Replace, Saving, TypeOK
  <2>2. Carries(p)
    BY <2>1 DEF IInv, Sound, Carrying
  <2>3. PICK day \in Days, next \in Memory : day = run[p].date /\ next = run[p].next
    BY <1>1, RunType
  <2>4. \A c \in Codes : next.levels[c] > 0 /\ c \notin run[p].todo \cup run[p].out
                             => Accounted(day, c, next.levels[c])'
    <3>1. \A c \in Codes : next.levels[c] \in 0..3
      BY <1>1, <2>3, RunType
    <3> QED
      BY <1>1, <2>2, <2>3, <3>1, AccountedStays DEF Carries
  <2>5. Carries(p)'
    BY <2>1, <2>2, <2>3, <2>4 DEF Carries
  <2> QED
    BY <2>1, <2>5 DEF Sound
<1>4. CASE Raise(p)
  BY <1>1, <1>4, EndType DEF Raise, Sound, Carrying, Saving
<1>5. CASE Crash(p)
  BY <1>1, <1>5, EndType DEF Crash, Sound, Carrying, Saving
<1> QED
  BY <1>2, <1>3, <1>4, <1>5, LoadSound, PrintSound, ExitSound DEF Step

\* Every step keeps the invariant.
LEMMA Inductive == IInv /\ [Next]_vars => IInv'
<1> SUFFICES ASSUME IInv, [Next]_vars PROVE IInv'
  OBVIOUS
<1>1. TypeOK /\ TypeOK'
  BY TypeInductive DEF IInv
<1>2. \A p \in Procs : Sound(p)'
  <2>1. ASSUME NextDay \/ UNCHANGED vars, NEW p \in Procs PROVE Sound(p)'
    <3>1. run'[p] = run[p] /\ pc'[p] = pc[p]
      BY <2>1 DEF NextDay, vars
    <3> QED
      BY <1>1, <3>1, OthersStaySound DEF IInv
  <2>2. ASSUME NEW q \in Procs, Step(q), NEW p \in Procs PROVE Sound(p)'
    <3>1. CASE p = q
      BY <1>1, <2>2, <3>1, OwnSound
    <3>2. CASE p # q
      <4>1. run'[p] = run[p] /\ pc'[p] = pc[p]
        BY <1>1, <2>2, <3>2, StepOf
      <4> QED
        BY <1>1, <4>1, OthersStaySound DEF IInv
    <3> QED
      BY <3>1, <3>2
  <2> QED
    BY <2>1, <2>2, SomeStep
<1> QED
  BY <1>1, <1>2, FilesStayHonest DEF IInv

\* Type correctness: in particular a run prints only codes that have a level.
THEOREM TypeCorrect == Spec => []TypeOK
<1>1. Init => IInv
  BY InitInvariant
<1>2. IInv /\ [Next]_vars => IInv'
  BY Inductive
<1>3. IInv => TypeOK
  BY DEF IInv
<1> QED
  BY <1>1, <1>2, <1>3, PTL DEF Spec

\* No run that ends with success has kept a level to itself, unless that level or
\* a worse one of the code was pushed on that day, is in the buffer of a run that
\* has written its memory and is about to exit, or was lost with such a run.
THEOREM EverySightingIsAccountedFor == Spec => []NothingUnreported
<1>1. Init => IInv
  BY InitInvariant
<1>2. IInv /\ [Next]_vars => IInv'
  BY Inductive
<1>3. IInv => NothingUnreported
  BY DEF IInv, Sound, NothingUnreported
<1> QED
  BY <1>1, <1>2, <1>3, PTL DEF Spec

-----------------------------------------------------------------------------
(* Repetitions.  On a day without an overlap or an untimely death the runs   *)
(* come one after the other, and each finds in the file what was pushed.     *)

Overlapping ==
    \A p, q \in Procs :
        p # q /\ ~Idle(p) /\ ~Idle(q) => run[p].date \in disturbed /\ run[q].date \in disturbed
Dated == \A p \in Procs : ~Idle(p) => run[p].date <= today

\* Nothing is pushed ahead of the calendar, nor beside a run of an earlier day.
Future ==
    \A d \in Days, c \in Codes, l \in Levels :
        \/ d > today
        \/ d \notin disturbed /\ \E p \in Procs : ~Idle(p) /\ run[p].date < d
        => pushed[<<d, c, l>>] = 0

\* What a run that is alone on its day finds on its way to the file.
InOrder(p) ==
    ~Idle(p) /\ run[p].date \notin disturbed =>
        /\ \A c \in run[p].todo \cup run[p].out : pushed[<<run[p].date, c, run[p].levels[c]>>] = 0
        /\ Saving(p) /\ file.date = run[p].date =>
               \A c \in Codes : file.levels[c] <= run[p].next.levels[c]
        /\ pc[p] = "write" => inode[p] = "tmp"
        /\ pc[p] = "replace" => tmp = run[p].next
        /\ pc[p] = "leaving" => file = run[p].next

\* A push of a day that can still be repeated is in the file or about to get there.
Remembered(d, c, l) ==
    \/ file.date = d /\ file.levels[c] >= l
    \/ \E p \in Procs : /\ Saving(p) /\ run[p].date = d
                        /\ c \notin run[p].todo /\ run[p].next.levels[c] >= l
Current(d) == d = today \/ \E p \in Procs : ~Idle(p) /\ run[p].date = d
Kept ==
    \A d \in Days \ disturbed, c \in Codes, l \in Levels :
        pushed[<<d, c, l>>] > 0 /\ Current(d) => Remembered(d, c, l)

Serial ==
    /\ Overlapping /\ Dated /\ Future /\ (\A p \in Procs : InOrder(p)) /\ Kept
    /\ OncePerLevelAndDay

\* A step of a run that does not start one.
Steps(p) ==
    \/ Load(p) \/ PrintLines(p) \/ OpenTmp(p) \/ WriteTmp(p) \/ Replace(p)
    \/ Raise(p) \/ Exit(p) \/ Crash(p)

\* Such a step is one of a run under way, and moves no other.
LEMMA OwnStep ==
    ASSUME TypeOK, NEW p \in Procs, Steps(p)
    PROVE  /\ ~Idle(p) /\ today' = today /\ disturbed \subseteq disturbed'
           /\ \A q \in Procs \ {p} : pc'[q] = pc[q] /\ run'[q] = run[q]
           /\ ~Idle(p)' => run'[p].date = run[p].date
<1>1. CASE Crash(p)
  BY <1>1, EndType DEF Crash, Idle, Disturb
<1>2. CASE Load(p)
  <2>1. ~Idle(p) /\ today' = today /\ disturbed' = disturbed
    BY <1>2 DEF Load, Idle
  <2>2. CASE Worsened(run[p].levels, SeenOn(file, run[p].date)) = {}
    BY <1>2, <2>1, <2>2, EndType DEF Load, Idle
  <2>3. CASE Worsened(run[p].levels, SeenOn(file, run[p].date)) # {}
    BY <1>2, <2>1, <2>3 DEF Load, TypeOK, Run
  <2> QED
    BY <2>2, <2>3
<1>3. CASE PrintLines(p)
  BY <1>3 DEF PrintLines, Idle, TypeOK, Run
<1>4. CASE OpenTmp(p) \/ WriteTmp(p) \/ Replace(p)
  BY <1>4 DEF OpenTmp, WriteTmp, Replace, Idle, TypeOK
<1>5. CASE Raise(p)
  BY <1>5, EndType DEF Raise, Disturb, Saving, Idle
<1>6. CASE Exit(p)
  <2>1. /\ ~Idle(p) /\ today' = today /\ disturbed' = disturbed
        /\ End(p, "ok") \/ End(p, "idle")
    BY <1>6 DEF Exit, Idle
  <2> QED
    BY <2>1, EndType DEF Idle
<1> QED
  BY <1>1, <1>2, <1>3, <1>4, <1>5, <1>6 DEF Steps

\* While it takes the step, no other run is alone on its day.
LEMMA OwnOrder ==
    ASSUME TypeOK, Serial, NEW p \in Procs, Steps(p)
    PROVE  /\ Overlapping' /\ Dated'
           /\ \A q \in Procs \ {p} : InOrder(q)'
           /\ \A d \in Days \ disturbed' : Current(d)' =>
                  Current(d) /\ (d # run[p].date => d = today /\ d > run[p].date)
<1>1. \A q \in Procs : ~Idle(q)' => ~Idle(q) /\ run'[q].date = run[q].date
  BY OwnStep DEF Idle
<1>2. disturbed \subseteq disturbed' /\ today' = today /\ ~Idle(p)
  BY OwnStep
<1>3. Overlapping' /\ Dated'
  BY <1>1, <1>2 DEF Serial, Overlapping, Dated
<1>4. ASSUME NEW q \in Procs \ {p}, ~Idle(q)' PROVE run'[q].date \in disturbed'
  BY <1>1, <1>2, <1>4 DEF Serial, Overlapping
<1>5. \A q \in Procs \ {p} : InOrder(q)'
  BY <1>4 DEF InOrder
<1>6. ASSUME NEW d \in Days \ disturbed', Current(d)'
      PROVE  Current(d) /\ (d # run[p].date => d = today /\ d > run[p].date)
  <2>1. Current(d)
    BY <1>1, <1>2, <1>6 DEF Current
  <2>2. ASSUME d # run[p].date PROVE d = today
    BY <1>1, <1>2, <1>4, <1>6, <2>2 DEF Current
  <2>3. run[p].date <= today /\ run[p].date \in Int /\ today \in Int
    BY <1>2, RunType DEF Serial, Dated, TypeOK, Days
  <2> QED
    BY <2>1, <2>2, <2>3
<1> QED
  BY <1>3, <1>5, <1>6

\* A step without output leaves what it says about pushes, if the file it leaves
\* remembers the pushes of the run's own day.
LEMMA SilentStep ==
    ASSUME TypeOK, Serial, NEW p \in Procs, Steps(p), pushed' = pushed, InOrder(p)',
           \A d \in Days \ disturbed', c \in Codes, l \in Levels :
               /\ d = run[p].date \/ file' = file
               /\ Remembered(d, c, l)
               => Remembered(d, c, l)'
    PROVE  Serial'
<1>1. /\ Overlapping' /\ Dated' /\ (\A q \in Procs \ {p} : InOrder(q)')
      /\ \A d \in Days \ disturbed' : Current(d)' =>
             Current(d) /\ (d # run[p].date => d = today /\ d > run[p].date)
  BY OwnOrder
<1>2. disturbed \subseteq disturbed' /\ today' = today /\ ~Idle(p)
  BY OwnStep
<1>3. Future'
  <2>1. \A q \in Procs : ~Idle(q)' => ~Idle(q) /\ run'[q].date = run[q].date
    BY OwnStep DEF Idle
  <2> QED
    BY <1>2, <2>1 DEF Serial, Future
<1>4. Kept'
  <2> SUFFICES ASSUME NEW d \in Days \ disturbed', NEW c \in Codes, NEW l \in Levels,
                      pushed[<<d, c, l>>] > 0, Current(d)'
               PROVE  Remembered(d, c, l)'
    BY DEF Kept
  <2>1. Current(d) /\ (d # run[p].date => d > run[p].date)
    BY <1>1
  <2>2. d \in Days \ disturbed
    BY <1>2
  <2>3. d = run[p].date
    BY <1>2, <2>1, <2>2 DEF Serial, Future
  <2>4. Remembered(d, c, l)
    BY <2>1, <2>2 DEF Serial, Kept
  <2> QED
    BY <2>3, <2>4
<1>5. OncePerLevelAndDay'
  BY <1>2 DEF Serial, OncePerLevelAndDay
<1> QED
  BY <1>1, <1>3, <1>4, <1>5 DEF Serial

\* A step with output pushes what is new, and what the file or the run remembers.
LEMMA DeliverStep ==
    ASSUME TypeOK, Serial, NEW p \in Procs, Steps(p), InOrder(p)',
           NEW codes \in SUBSET Codes, Deliver(Lines(p, codes)),
           codes \subseteq run[p].todo \cup run[p].out,
           \A d \in Days \ disturbed', c \in Codes, l \in Levels :
               \/ Remembered(d, c, l)
               \/ d = run[p].date /\ c \in codes /\ l = run[p].levels[c]
               => Remembered(d, c, l)'
    PROVE  Serial'
<1>1. /\ Overlapping' /\ Dated' /\ (\A q \in Procs \ {p} : InOrder(q)')
      /\ \A d \in Days \ disturbed' : Current(d)' => Current(d)
  BY OwnOrder
<1>2. /\ today' = today /\ ~Idle(p) /\ disturbed \subseteq disturbed'
      /\ \A q \in Procs : ~Idle(q)' => ~Idle(q) /\ run'[q].date = run[q].date
  BY OwnStep DEF Idle
<1>3. ASSUME NEW d \in Days, NEW c \in Codes, NEW l \in Levels
      PROVE  /\ d = run[p].date /\ c \in codes /\ l = run[p].levels[c]
                    => pushed'[<<d, c, l>>] > 0 /\ pushed'[<<d, c, l>>] <= pushed[<<d, c, l>>] + 1
             /\ ~(d = run[p].date /\ c \in codes /\ l = run[p].levels[c])
                    => pushed'[<<d, c, l>>] = pushed[<<d, c, l>>]
  <2>1. CASE d = run[p].date /\ c \in codes /\ l = run[p].levels[c]
    BY <2>1, Delivered
  <2>2. CASE ~(d = run[p].date /\ c \in codes /\ l = run[p].levels[c])
    BY <2>2, Delivered
  <2> QED
    BY <2>1, <2>2
<1>4. OncePerLevelAndDay'
  <2> SUFFICES ASSUME NEW d \in Days \ disturbed', NEW c \in Codes, NEW l \in Levels
               PROVE  pushed'[<<d, c, l>>] <= 1
    BY DEF OncePerLevelAndDay
  <2>1. CASE d = run[p].date /\ c \in codes /\ l = run[p].levels[c]
    <3>1. pushed[<<d, c, l>>] = 0
      BY <1>2, <2>1 DEF Serial, InOrder
    <3>2. pushed'[<<d, c, l>>] <= 0 + 1
      BY <1>3, <2>1, <3>1
    <3> QED
      BY <3>2
  <2>2. CASE ~(d = run[p].date /\ c \in codes /\ l = run[p].levels[c])
    BY <1>2, <1>3, <2>2 DEF Serial, OncePerLevelAndDay
  <2> QED
    BY <2>1, <2>2
<1>5. Future'
  <2> SUFFICES ASSUME NEW d \in Days, NEW c \in Codes, NEW l \in Levels,
                      \/ d > today
                      \/ d \notin disturbed' /\ \E q \in Procs : ~Idle(q)' /\ run'[q].date < d
               PROVE  pushed'[<<d, c, l>>] = 0
    BY <1>2 DEF Future
  <2>1. d > today \/ (d \notin disturbed /\ \E q \in Procs : ~Idle(q) /\ run[q].date < d)
    BY <1>2
  <2>2. today \in Days /\ run[p].date \in Days
    BY RunType DEF TypeOK
  <2>3. d # run[p].date
    BY <1>2, <2>1, <2>2 DEF Serial, Dated, Overlapping, Days
  <2> QED
    BY <1>3, <2>1, <2>3 DEF Serial, Future
<1>6. Kept'
  <2> SUFFICES ASSUME NEW d \in Days \ disturbed', NEW c \in Codes, NEW l \in Levels,
                      pushed'[<<d, c, l>>] > 0, Current(d)'
               PROVE  Remembered(d, c, l)'
    BY DEF Kept
  <2>1. CASE d = run[p].date /\ c \in codes /\ l = run[p].levels[c]
    BY <2>1
  <2>2. CASE ~(d = run[p].date /\ c \in codes /\ l = run[p].levels[c])
    <3>1. Current(d) /\ pushed[<<d, c, l>>] > 0
      BY <1>1, <1>3, <2>2
    <3>2. Remembered(d, c, l)
      BY <1>2, <3>1 DEF Serial, Kept
    <3> QED
      BY <3>2
  <2> QED
    BY <2>1, <2>2
<1> QED
  BY <1>1, <1>4, <1>5, <1>6 DEF Serial

\* A run on its way to the file carries its memory there.
LEMMA Carried ==
    ASSUME IInv, NEW p \in Procs
    PROVE  /\ TypeOK
           /\ Carrying(p) => Carries(p)
BY DEF IInv, Sound

LEMMA NextDaySerial == IInv /\ Serial /\ NextDay => Serial'
<1> SUFFICES ASSUME IInv, Serial, NextDay PROVE Serial'
  OBVIOUS
<1>1. /\ today' = today + 1 /\ today \in Days
      /\ UNCHANGED <<file, tmp, pc, run, inode, pushed, disturbed>>
  BY DEF NextDay, IInv, TypeOK
<1>2. \A q \in Procs : /\ Idle(q)' <=> Idle(q)
                       /\ Saving(q)' <=> Saving(q)
                       /\ run[q].date \in Days
  BY <1>1, RunType DEF Idle, Saving, IInv
<1>3. Overlapping' /\ Dated' /\ (\A q \in Procs : InOrder(q)') /\ OncePerLevelAndDay'
  <2>1. Overlapping' /\ OncePerLevelAndDay'
    BY <1>1, <1>2 DEF Serial, Overlapping, OncePerLevelAndDay
  <2>2. Dated'
    BY <1>1, <1>2 DEF Serial, Dated, Days
  <2>3. \A q \in Procs : InOrder(q)'
    BY <1>1, <1>2 DEF Serial, InOrder
  <2> QED
    BY <2>1, <2>2, <2>3
<1>4. Future'
  BY <1>1, <1>2 DEF Serial, Future, Days
<1>5. Kept'
  <2> SUFFICES ASSUME NEW d \in Days \ disturbed', NEW c \in Codes, NEW l \in Levels,
                      pushed'[<<d, c, l>>] > 0, Current(d)'
               PROVE  Remembered(d, c, l)'
    BY DEF Kept
  <2>1. d \in Days \ disturbed /\ pushed[<<d, c, l>>] > 0
    BY <1>1
  <2>2. d # today'
    BY <1>1, <2>1 DEF Serial, Future, Days
  <2>3. Remembered(d, c, l)
    BY <1>1, <1>2, <2>1, <2>2 DEF Current, Serial, Kept
  <2> QED
    BY <1>1, <1>2, <2>3 DEF Remembered
<1> QED
  BY <1>3, <1>4, <1>5 DEF Serial

\* A run that starts beside another one disturbs both days.
LEMMA FetchSerial ==
    ASSUME IInv, Serial, NEW p \in Procs, Fetch(p)
    PROVE  Serial'
<1>1. /\ Idle(p) /\ UNCHANGED <<today, file, tmp, inode, pushed>>
      /\ disturbed' = disturbed \cup UNION {{today, run[q].date} :
                                               q \in {r \in Procs \ {p} : ~Idle(r)}}
  BY DEF Fetch
<1>2. TypeOK /\ today \in Days
  BY DEF IInv, TypeOK
<1>3. /\ \A q \in Procs \ {p} : pc'[q] = pc[q] /\ run'[q] = run[q]
      /\ ~Idle(p)' => run'[p].date = today
      /\ ~Saving(p)' /\ pc'[p] \in {"idle", "fetched"}
      /\ run'[p].todo = {} /\ run'[p].out = {}
  <2>1. CASE End(p, "idle")
    BY <1>2, <2>1, EndType DEF Idle, Saving
  <2>2. CASE pc' = [pc EXCEPT ![p] = "fetched"]
             /\ \E levels : run' = [run EXCEPT ![p] = Run(today, levels, {}, {}, Empty)]
    BY <1>2, <2>2 DEF TypeOK, Run, Saving
  <2>3. \/ End(p, "idle")
        \/ pc' = [pc EXCEPT ![p] = "fetched"]
           /\ \E levels : run' = [run EXCEPT ![p] = Run(today, levels, {}, {}, Empty)]
    BY DEF Fetch
  <2> QED
    BY <2>1, <2>2, <2>3
<1>4. /\ disturbed \subseteq disturbed'
      /\ \A q \in Procs \ {p} :
             /\ Idle(q)' <=> Idle(q)
             /\ Saving(q)' <=> Saving(q)
             /\ ~Idle(q) => today \in disturbed' /\ run[q].date \in disturbed'
  <2>1. \A q \in Procs \ {p} : (Idle(q)' <=> Idle(q)) /\ (Saving(q)' <=> Saving(q))
    BY <1>3 DEF Idle, Saving
  <2>2. ASSUME NEW q \in Procs \ {p}, ~Idle(q)
        PROVE  today \in disturbed' /\ run[q].date \in disturbed'
    <3>1. q \in {r \in Procs \ {p} : ~Idle(r)}
      BY <2>2
    <3> QED
      BY <1>1, <3>1
  <2> QED
    BY <1>1, <2>1, <2>2
<1>5. Overlapping'
  BY <1>3, <1>4 DEF Overlapping
<1>6. Dated'
  BY <1>1, <1>2, <1>3, <1>4 DEF Serial, Dated, Days
<1>7. \A q \in Procs : InOrder(q)'
  <2>1. InOrder(p)'
    BY <1>3 DEF InOrder
  <2>2. \A q \in Procs \ {p} : InOrder(q)'
    BY <1>3, <1>4 DEF InOrder
  <2> QED
    BY <2>1, <2>2
<1>8. Future'
  <2> SUFFICES ASSUME NEW d \in Days, NEW c \in Codes, NEW l \in Levels,
                      \/ d > today
                      \/ d \notin disturbed' /\ \E q \in Procs : ~Idle(q)' /\ run'[q].date < d
               PROVE  pushed[<<d, c, l>>] = 0
    BY <1>1 DEF Future
  <2>1. d > today \/ (d \notin disturbed /\ \E q \in Procs : ~Idle(q) /\ run[q].date < d)
    <3>1. CASE d > today
      BY <3>1
    <3>2. ASSUME d \notin disturbed', NEW q \in Procs, ~Idle(q)', run'[q].date < d
          PROVE  d > today \/ (d \notin disturbed /\ \E r \in Procs : ~Idle(r) /\ run[r].date < d)
      BY <1>3, <1>4, <3>2
    <3> QED
      BY <3>1, <3>2
  <2> QED
    BY <2>1 DEF Serial, Future
<1>9. Kept'
  <2> SUFFICES ASSUME NEW d \in Days \ disturbed', NEW c \in Codes, NEW l \in Levels,
                      pushed'[<<d, c, l>>] > 0, Current(d)'
               PROVE  Remembered(d, c, l)'
    BY DEF Kept
  <2>1. d \in Days \ disturbed /\ pushed[<<d, c, l>>] > 0 /\ d = today
    BY <1>1, <1>3, <1>4 DEF Current
  <2>2. Remembered(d, c, l)
    BY <2>1 DEF Current, Serial, Kept
  <2>3. ~Saving(p)
    BY <1>1 DEF Idle, Saving
  <2> QED
    BY <1>1, <1>3, <1>4, <2>2, <2>3 DEF Remembered
<1>10. OncePerLevelAndDay'
  BY <1>1, <1>4 DEF Serial, OncePerLevelAndDay
<1> QED
  BY <1>5, <1>6, <1>7, <1>8, <1>9, <1>10 DEF Serial

\* What a run finds in the file was pushed, and all of it.
LEMMA LoadSerial ==
    ASSUME IInv, Serial, NEW p \in Procs, Load(p)
    PROVE  Serial'
<1> DEFINE day == run[p].date
           seen == SeenOn(file, day)
           news == Worsened(run[p].levels, seen)
           next == NextMemory(run[p].levels, seen, day)
<1>1. /\ pc[p] = "fetched" /\ UNCHANGED <<today, file, tmp, inode, pushed, disturbed>>
      /\ Steps(p) /\ TypeOK /\ ~Idle(p) /\ ~Saving(p)
  BY DEF Load, Steps, IInv, Idle, Saving
<1>2. InOrder(p)'
  <2>1. CASE news = {}
    <3>1. Idle(p)'
      BY <1>1, <2>1, EndType DEF Load, Idle
    <3> QED
      BY <3>1 DEF InOrder
  <2>2. CASE news # {}
    <3>1. /\ pc' = [pc EXCEPT ![p] = "printing"]
          /\ run' = [run EXCEPT ![p] = Run(day, run[p].levels, news, {}, next)]
      BY <2>2 DEF Load
    <3>2. /\ pc'[p] = "printing" /\ run'[p].date = day /\ run'[p].levels = run[p].levels
          /\ run'[p].todo = news /\ run'[p].out = {} /\ run'[p].next = next
      <4> HIDE DEF news, next
      <4> QED
        BY <1>1, <3>1 DEF TypeOK, Run
    <3>3. ASSUME day \notin disturbed, NEW c \in news
          PROVE  pushed[<<day, c, run[p].levels[c]>>] = 0
      <4>1. c \in Codes /\ run[p].levels[c] > seen[c] /\ run[p].levels[c] \in Levels
        BY <1>1, RunType, MemoryTypes DEF Worsened
      <4>2. pushed[<<day, c, run[p].levels[c]>>] \in 0..2 /\ day \in Days
        BY <1>1, <4>1, RunType DEF TypeOK
      <4>3. SUFFICES ASSUME pushed[<<day, c, run[p].levels[c]>>] > 0 PROVE FALSE
        BY <4>2
      <4>4. Remembered(day, c, run[p].levels[c])
        BY <1>1, <3>3, <4>1, <4>2, <4>3 DEF Current, Serial, Kept
      <4>5. \A q \in Procs : Saving(q) => run[q].date # day
        BY <1>1, <3>3 DEF Serial, Overlapping, Saving, Idle
      <4>6. file.date = day /\ file.levels[c] >= run[p].levels[c]
        BY <4>4, <4>5 DEF Remembered
      <4> QED
        BY <1>1, <4>1, <4>6, RunType DEF SeenOn, Levels, Near, Stop1, Stop2
    <3>4. ASSUME file.date = day, NEW c \in Codes PROVE file.levels[c] <= next.levels[c]
      BY <1>1, <3>4, RunType DEF SeenOn, NextMemory
    <3>5. \A c \in run'[p].todo \cup run'[p].out : day \notin disturbed' =>
              pushed'[<<run'[p].date, c, run'[p].levels[c]>>] = 0
      BY <1>1, <3>2, <3>3
    <3> QED
      BY <1>1, <3>2, <3>4, <3>5 DEF InOrder
  <2> QED
    BY <2>1, <2>2
<1>3. ASSUME NEW d \in Days \ disturbed', NEW c \in Codes, NEW l \in Levels, Remembered(d, c, l)
      PROVE  Remembered(d, c, l)'
  BY <1>1, <1>3, OwnStep DEF Remembered, Saving
<1> QED
  BY <1>1, <1>2, <1>3, SilentStep

LEMMA OpenTmpSerial ==
    ASSUME IInv, Serial, NEW p \in Procs, OpenTmp(p)
    PROVE  Serial'
<1>1. /\ pc[p] = "open" /\ UNCHANGED <<today, file, run, pushed, disturbed>>
      /\ pc' = [pc EXCEPT ![p] = "write"] /\ inode' = [inode EXCEPT ![p] = "tmp"]
      /\ Steps(p) /\ TypeOK
  BY DEF OpenTmp, Steps, IInv
<1>2. /\ pc'[p] = "write" /\ inode'[p] = "tmp"
      /\ \A q \in Procs : Saving(q) => Saving(q)'
  BY <1>1 DEF TypeOK, Saving
<1>3. InOrder(p)'
  <2>1. ~Idle(p) /\ Saving(p)
    BY <1>1 DEF Idle, Saving
  <2> QED
    BY <1>1, <1>2, <2>1 DEF Serial, InOrder
<1>4. ASSUME NEW d \in Days \ disturbed', NEW c \in Codes, NEW l \in Levels, Remembered(d, c, l)
      PROVE  Remembered(d, c, l)'
  BY <1>1, <1>2, <1>4 DEF Remembered
<1> QED
  BY <1>1, <1>3, <1>4, SilentStep

\* A run alone on its day writes to the temporary file, not to a renamed one.
LEMMA WriteTmpSerial ==
    ASSUME IInv, Serial, NEW p \in Procs, WriteTmp(p)
    PROVE  Serial'
<1>1. /\ pc[p] = "write" /\ UNCHANGED <<today, run, pushed, disturbed>>
      /\ pc' = [pc EXCEPT ![p] = "replace"] /\ Steps(p) /\ TypeOK
      /\ tmp' = IF inode[p] = "tmp" THEN run[p].next ELSE tmp
      /\ file' = IF inode[p] = "state" THEN run[p].next ELSE file
  BY DEF WriteTmp, Steps, IInv
<1>2. pc'[p] = "replace" /\ \A q \in Procs : Saving(q) => Saving(q)'
  BY <1>1 DEF TypeOK, Saving
<1>3. ~Idle(p) /\ Saving(p)
  BY <1>1 DEF Idle, Saving
<1>4. run[p].date \notin disturbed => inode[p] = "tmp"
  BY <1>1, <1>3 DEF Serial, InOrder
<1>5. InOrder(p)'
  BY <1>1, <1>2, <1>3, <1>4 DEF Serial, InOrder
<1>6. ASSUME NEW d \in Days \ disturbed', NEW c \in Codes, NEW l \in Levels,
             d = run[p].date \/ file' = file, Remembered(d, c, l)
      PROVE  Remembered(d, c, l)'
  <2>1. file' = file
    BY <1>1, <1>4, <1>6
  <2> QED
    BY <1>1, <1>2, <1>6, <2>1 DEF Remembered
<1> QED
  BY <1>1, <1>5, <1>6, SilentStep

\* A run alone on its day renames what it wrote.
LEMMA ReplaceSerial ==
    ASSUME IInv, Serial, NEW p \in Procs, Replace(p)
    PROVE  Serial'
<1>1. /\ pc[p] = "replace" /\ UNCHANGED <<today, run, pushed, disturbed>>
      /\ file' = tmp /\ pc' = [pc EXCEPT ![p] = "leaving"]
      /\ Steps(p) /\ ~Idle(p) /\ Saving(p)
  BY DEF Replace, Steps, Idle, Saving
<1>2. TypeOK /\ Carries(p) /\ pc'[p] = "leaving"
  BY <1>1, Carried DEF Carrying, TypeOK
<1>3. ASSUME run[p].date \notin disturbed
      PROVE  /\ file' = run[p].next /\ run[p].next.date = run[p].date
             /\ file.date = run[p].date =>
                    \A c \in Codes : file.levels[c] <= run[p].next.levels[c]
  BY <1>1, <1>2, <1>3 DEF Serial, InOrder, Carries
<1>4. InOrder(p)'
  BY <1>1, <1>2, <1>3 DEF Serial, InOrder, Saving
<1>5. \A q \in Procs \ {p} : pc'[q] = pc[q]
  BY <1>1, <1>2, OwnStep
<1>6. ASSUME NEW d \in Days \ disturbed', NEW c \in Codes, NEW l \in Levels,
             d = run[p].date \/ file' = file, Remembered(d, c, l)
      PROVE  Remembered(d, c, l)'
  <2>1. CASE d = run[p].date
    <3>1. /\ file' = run[p].next /\ run[p].next.date = d
          /\ file.date = d => file.levels[c] <= run[p].next.levels[c]
      BY <1>1, <1>3, <2>1
    <3>2. /\ file.levels[c] \in 0..3 /\ run[p].next.levels[c] \in 0..3
          /\ l \in 0..3
      BY <1>2, RunType DEF Levels, Near, Stop1, Stop2
    <3>3. CASE file.date = d /\ file.levels[c] >= l
      BY <3>1, <3>2, <3>3 DEF Remembered
    <3>4. CASE run[p].next.levels[c] >= l
      BY <3>1, <3>4 DEF Remembered
    <3>5. CASE \E q \in Procs \ {p} : /\ Saving(q) /\ run[q].date = d
                                      /\ c \notin run[q].todo /\ run[q].next.levels[c] >= l
      BY <1>1, <1>5, <3>5 DEF Remembered, Saving
    <3> QED
      BY <1>6, <3>3, <3>4, <3>5 DEF Remembered
  <2>2. CASE d # run[p].date
    <3>1. file' = file
      BY <1>6, <2>2
    <3> QED
      BY <1>1, <1>5, <1>6, <2>2, <3>1 DEF Remembered, Saving
  <2> QED
    BY <2>1, <2>2
<1> QED
  BY <1>1, <1>2, <1>4, <1>6, SilentStep

\* A run that fails on its way to the file, or is killed, disturbs its day.
LEMMA EndSerial ==
    ASSUME TypeOK, Serial, NEW p \in Procs, Steps(p), End(p, "idle"), file' = file, Disturb(p),
           \/ pushed' = pushed
           \/ /\ Saving(p)
              /\ \E codes \in SUBSET (run[p].todo \cup run[p].out) : Deliver(Lines(p, codes))
    PROVE  Serial'
<1>1. /\ InOrder(p)' /\ \A q \in Procs \ {p} : run'[q] = run[q] /\ pc'[q] = pc[q]
      /\ run[p].todo \cup run[p].out \subseteq Codes
  <2>1. Idle(p)'
    BY EndType DEF Idle
  <2> QED
    BY <2>1, OwnStep, RunType DEF InOrder
<1>2. ASSUME NEW d \in Days \ disturbed', NEW c \in Codes, NEW l \in Levels, Remembered(d, c, l)
      PROVE  Remembered(d, c, l)'
  <2>1. Saving(p) => run[p].date # d
    BY DEF Disturb
  <2> QED
    BY <1>1, <1>2, <2>1 DEF Remembered, Saving
<1>3. CASE pushed' = pushed
  BY <1>1, <1>2, <1>3, SilentStep
<1>4. ASSUME Saving(p), NEW codes \in SUBSET (run[p].todo \cup run[p].out), Deliver(Lines(p, codes))
      PROVE  Serial'
  <2>1. run[p].date \in disturbed' /\ codes \in SUBSET Codes
    BY <1>1, <1>4 DEF Disturb
  <2> QED
    BY <1>1, <1>2, <1>4, <2>1, DeliverStep
<1> QED
  BY <1>3, <1>4

\* What a run alone on its day lets through is new, and the run remembers it.
LEMMA PrintSerial ==
    ASSUME IInv, Serial, NEW p \in Procs, PrintLines(p)
    PROVE  Serial'
<1>1. PICK through \in SUBSET run[p].todo :
          /\ Deliver(Lines(p, through))
          /\ run' = [run EXCEPT ![p] = Run(run[p].date, run[p].levels, {},
                                           run[p].todo \ through, run[p].next)]
          /\ pc' = [pc EXCEPT ![p] = "open"]
          /\ UNCHANGED <<today, file, inode, tmp, disturbed>>
  BY DEF PrintLines
<1>2. /\ pc[p] = "printing" /\ Steps(p) /\ ~Idle(p) /\ Saving(p)
      /\ TypeOK /\ Carries(p)
  BY Carried DEF PrintLines, Steps, Idle, Saving, Carrying
<1>3. /\ pc'[p] = "open" /\ run'[p].date = run[p].date /\ run'[p].levels = run[p].levels
      /\ run'[p].todo = {} /\ run'[p].out = run[p].todo \ through
      /\ run'[p].next = run[p].next
  BY <1>1, <1>2 DEF TypeOK, Run
<1>4. /\ run[p].date \in Days /\ through \in SUBSET Codes
      /\ \A c \in run[p].todo : c \in Codes /\ run[p].levels[c] \in Levels
  BY <1>2, RunType
<1>5. \A q \in Procs \ {p} : run'[q] = run[q] /\ pc'[q] = pc[q]
  BY <1>2, OwnStep
<1>6. InOrder(p)'
  <2>1. ASSUME run[p].date \notin disturbed, NEW c \in run[p].todo \ through
        PROVE  pushed'[<<run[p].date, c, run[p].levels[c]>>] = 0
    <3>1. pushed[<<run[p].date, c, run[p].levels[c]>>] = 0
      BY <1>2, <2>1 DEF Serial, InOrder
    <3> QED
      BY <1>1, <1>2, <1>4, <3>1, Delivered
  <2>2. run[p].date \notin disturbed /\ file.date = run[p].date =>
            \A c \in Codes : file.levels[c] <= run[p].next.levels[c]
    BY <1>2 DEF Serial, InOrder
  <2>3. run[p].date \notin disturbed => \A c \in run'[p].todo \cup run'[p].out :
            pushed'[<<run'[p].date, c, run'[p].levels[c]>>] = 0
    BY <1>3, <2>1
  <2>4. file' = file /\ disturbed' = disturbed
    BY <1>1
  <2> QED
    BY <1>3, <2>2, <2>3, <2>4 DEF InOrder
<1>7. ASSUME NEW d \in Days \ disturbed, NEW c \in Codes, NEW l \in Levels,
             \/ Remembered(d, c, l)
             \/ d = run[p].date /\ c \in through /\ l = run[p].levels[c]
      PROVE  Remembered(d, c, l)'
  <2>1. CASE d = run[p].date /\ c \in through /\ l = run[p].levels[c]
    <3>1. run'[p].next.levels[c] = l /\ l \in Int
      BY <1>2, <1>3, <2>1 DEF Carries, Levels, Near, Stop1, Stop2
    <3>2. Saving(p)' /\ run'[p].date = d /\ c \notin run'[p].todo /\ run'[p].next.levels[c] >= l
      BY <1>3, <2>1, <3>1 DEF Saving
    <3> QED
      BY <3>2 DEF Remembered
  <2>2. CASE file.date = d /\ file.levels[c] >= l
    BY <1>1, <2>2 DEF Remembered
  <2>3. ASSUME NEW q \in Procs, Saving(q), run[q].date = d,
               c \notin run[q].todo, run[q].next.levels[c] >= l
        PROVE  Remembered(d, c, l)'
    <3>1. /\ Saving(q)' /\ run'[q].date = d
          /\ c \notin run'[q].todo /\ run'[q].next.levels[c] >= l
      BY <1>3, <1>5, <2>3 DEF Saving
    <3> QED
      BY <3>1 DEF Remembered
  <2> QED
    BY <1>7, <2>1, <2>2, <2>3 DEF Remembered
<1> QED
  BY <1>1, <1>2, <1>4, <1>6, <1>7, DeliverStep

\* What a run alone on its day delivers at its exit is in the file.
LEMMA ExitSerial ==
    ASSUME IInv, Serial, NEW p \in Procs, Exit(p)
    PROVE  Serial'
<1>1. /\ UNCHANGED <<today, file, disturbed>> /\ Steps(p) /\ ~Idle(p) /\ ~Saving(p)
      /\ pc[p] = "leaving" /\ (End(p, "ok") \/ End(p, "idle"))
  BY DEF Exit, Steps, Idle, Saving
<1>2. TypeOK /\ run[p].out \in SUBSET Codes
  BY Carried, RunType
<1>3. InOrder(p)' /\ \A q \in Procs \ {p} : run'[q] = run[q] /\ pc'[q] = pc[q]
  <2>1. Idle(p)'
    BY <1>1, <1>2, EndType DEF Idle
  <2> QED
    BY <1>1, <1>2, <2>1, OwnStep DEF InOrder
<1>4. ASSUME NEW d \in Days, NEW c \in Codes, NEW l \in Levels, Remembered(d, c, l)
      PROVE  Remembered(d, c, l)'
  BY <1>1, <1>3, <1>4 DEF Remembered, Saving
<1>5. CASE pushed' = pushed
  BY <1>1, <1>2, <1>3, <1>4, <1>5, SilentStep
<1>6. CASE Deliver(Lines(p, run[p].out))
  <2>1. ASSUME NEW d \in Days \ disturbed, NEW c \in run[p].out, NEW l \in Levels,
               d = run[p].date, l = run[p].levels[c]
        PROVE  Remembered(d, c, l)'
    <3>1. file = run[p].next
      BY <1>1, <2>1 DEF Serial, InOrder
    <3>2. Carries(p)
      BY <1>1, Carried DEF Carrying
    <3>3. file'.date = d /\ file'.levels[c] = l /\ l \in Int
      BY <1>1, <1>2, <2>1, <3>1, <3>2 DEF Carries, Levels, Near, Stop1, Stop2
    <3> QED
      BY <3>3 DEF Remembered
  <2> QED
    BY <1>1, <1>2, <1>3, <1>4, <1>6, <2>1, DeliverStep
<1> QED
  BY <1>5, <1>6 DEF Exit

LEMMA SerialInductive == IInv /\ Serial /\ [Next]_vars => Serial'
<1> SUFFICES ASSUME IInv, Serial, [Next]_vars PROVE Serial'
  OBVIOUS
<1>1. CASE UNCHANGED vars
  BY <1>1 DEF vars, Serial, Overlapping, Dated, Future, InOrder, Kept, Remembered, Current,
              OncePerLevelAndDay, Idle, Saving
<1>2. CASE NextDay
  BY <1>2, NextDaySerial
<1>3. ASSUME NEW p \in Procs, Fetch(p) PROVE Serial'
  BY <1>3, FetchSerial
<1>4. ASSUME NEW p \in Procs, Load(p) PROVE Serial'
  BY <1>4, LoadSerial
<1>5. ASSUME NEW p \in Procs, PrintLines(p) PROVE Serial'
  BY <1>5, PrintSerial
<1>6. ASSUME NEW p \in Procs, OpenTmp(p) PROVE Serial'
  BY <1>6, OpenTmpSerial
<1>7. ASSUME NEW p \in Procs, WriteTmp(p) PROVE Serial'
  BY <1>7, WriteTmpSerial
<1>8. ASSUME NEW p \in Procs, Replace(p) PROVE Serial'
  BY <1>8, ReplaceSerial
<1>9. ASSUME NEW p \in Procs, Exit(p) PROVE Serial'
  BY <1>9, ExitSerial
<1>10. ASSUME NEW p \in Procs, Raise(p) PROVE Serial'
  <2>1. /\ TypeOK /\ Steps(p) /\ End(p, "idle") /\ file' = file /\ Disturb(p) /\ Saving(p)
        /\ \/ pushed' = pushed
           \/ \E printed \in SUBSET run[p].todo : Deliver(Lines(p, run[p].out \cup printed))
    BY <1>10, Carried DEF Raise, Steps
  <2>2. pushed' = pushed \/ \E codes \in SUBSET (run[p].todo \cup run[p].out) :
                                Deliver(Lines(p, codes))
    BY <2>1
  <2> QED
    BY <2>1, <2>2, EndSerial
<1>11. ASSUME NEW p \in Procs, Crash(p) PROVE Serial'
  BY <1>11, Carried, EndSerial DEF Crash, Steps
<1> QED
  BY <1>1, <1>2, <1>3, <1>4, <1>5, <1>6, <1>7, <1>8, <1>9, <1>10, <1>11 DEF Next

LEMMA InitSerial == Init => Serial
<1> SUFFICES ASSUME Init PROVE Serial
  OBVIOUS
<1>1. (\A p \in Procs : Idle(p)) /\ disturbed = {}
      /\ \A d \in Days, c \in Codes, l \in Levels : pushed[<<d, c, l>>] = 0
  BY DEF Init, Idle
<1> QED
  BY <1>1 DEF Serial, Overlapping, Dated, Future, InOrder, Kept, OncePerLevelAndDay

\* A holding's level is pushed twice on one day only if on that day two runs
\* overlapped, or one failed or died between its first line and the rename of its
\* memory.
THEOREM RepeatedOnlyIfDisturbed == Spec => []OncePerLevelAndDay
<1>1. Init => IInv /\ Serial
  BY InitInvariant, InitSerial
<1>2. IInv /\ Serial /\ [Next]_vars => (IInv /\ Serial)'
  BY Inductive, SerialInductive
<1>3. IInv /\ Serial => OncePerLevelAndDay
  BY DEF Serial
<1> QED
  BY <1>1, <1>2, <1>3, PTL DEF Spec
=============================================================================
