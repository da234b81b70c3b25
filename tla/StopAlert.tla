------------------------------- MODULE StopAlert -------------------------------
(***************************************************************************)
(* stop-alert (commands_holdings.py): the intraday push of stop levels,    *)
(* started by a scheduler every five minutes and by anyone by hand.        *)
(*                                                                         *)
(* A run reads the open holdings and their quotes, then the memory of the  *)
(* day's earlier pushes, prints what has worsened since and only then      *)
(* saves the new memory: the temporary file is opened (and emptied),       *)
(* written and renamed over the state file.  Nothing locks the file, the   *)
(* temporary file has one fixed name, and a run may fail or be killed at   *)
(* any step.                                                               *)
(*                                                                         *)
(* What reaches the standard output is pushed, and that is not at the      *)
(* print: nothing flushes it, and in a pipe the text stays in the buffer   *)
(* of the process until the buffer is full or the interpreter exits, after *)
(* the rename.  An exception still flushes it, a kill does not.            *)
(*                                                                         *)
(* A memory that cannot be parsed reads like an empty one, so a file that  *)
(* was only emptied, or written in part, is an empty memory.  A run        *)
(* outside the trading hours or without holdings does nothing and is left  *)
(* out.                                                                    *)
(***************************************************************************)
EXTENDS Integers, FiniteSets

CONSTANTS
    Procs,     \* runs of the command that may overlap
    Codes,     \* codes with an open holding
    Stops,     \* the stop_loss_15 and stop_loss_20 of each code, percent of cost
    Prices,    \* prices a quote may show, percent of cost
    MaxDay,    \* bound: trading days
    MaxRuns,   \* bound: runs ever started
    Null       \* no such file, no stop line

ASSUME StopAssumption ==
    /\ MaxDay \in Nat \ {0} /\ MaxRuns \in Nat
    /\ Null \notin Int
    /\ \A x \in [date : 0..MaxDay, levels : [Codes -> 0..3]] : x # Null
    /\ Prices \subseteq Int
    /\ Stops \in [Codes -> [first : Int \cup {Null}, second : Int \cup {Null}]]

Days == 1..MaxDay
Near == 1
Stop1 == 2
Stop2 == 3
Levels == {Near, Stop1, Stop2}  \* _STOP_LEVELS; 0 stands for no level

VARIABLES
    today,      \* the calendar
    started,    \* runs started
    file,       \* stop-alert-state.json as it parses
    tmp,        \* stop-alert-state.tmp, or Null
    pc, run,    \* where each run is and what it knows
    inode,      \* the name that the file a run has open goes by
    pushed,     \* how often each level of a code was pushed on a day: 0, 1 or more
    disturbed,  \* ghost: days on which runs overlapped or one died before it saved
    lost        \* ghost: lines whose run had written its memory and could not deliver them

vars == <<today, started, file, tmp, pc, run, inode, pushed, disturbed, lost>>

Memory == [date : 0..MaxDay, levels : [Codes -> 0..3]]
Nothing == [c \in Codes |-> 0]
Empty == [date |-> 0, levels |-> Nothing]

Control == {"idle", "fetched", "printing", "open", "write", "replace",
            "leaving", "ok"}
Idle(p) == pc[p] \in {"idle", "ok"}
Saving(p) == pc[p] \in {"printing", "open", "write", "replace"}
\* Its memory is on the disk, under either name.
Wrote(p) == pc[p] \in {"replace", "leaving"}

-----------------------------------------------------------------------------
\* The most severe level a price has reached; STOP_NEAR_PCT is 3 percent.
StopLevel(price, stops) ==
    LET reached(line) == line # Null /\ price <= line
    IN  IF reached(stops.second) THEN Stop2
        ELSE IF reached(stops.first) THEN Stop1
        ELSE IF stops.first # Null /\ 100 * price <= 103 * stops.first THEN Near
        ELSE 0

\* The levels a memory holds for a day.
\* Mutant: the memory of another day counts as well.
SeenOn_AnyDay(memory, day) == memory.levels
SeenOn(memory, day) == IF memory.date = day THEN memory.levels ELSE Nothing

\* Codes whose level worsened since the day's last push, and the next memory.
\* Mutant: a level that stays the same counts as worsened.
Worsened_OrSame(levels, seen) == {c \in Codes : levels[c] > 0 /\ levels[c] >= seen[c]}
Worsened(levels, seen) == {c \in Codes : levels[c] > seen[c]}
NextMemory(levels, seen, day) ==
    [date |-> day, levels |-> [c \in Codes |-> IF levels[c] > seen[c] THEN levels[c] ELSE seen[c]]]

\* What a run knows: the levels it saw, the codes it is to print and those it
\* has printed into its buffer, and the memory it is to save.
Runs == [date : Days, levels : [Codes -> 0..3],
         todo : SUBSET Codes, out : SUBSET Codes, next : Memory]
Run(day, levels, todo, out, next) ==
    [date |-> day, levels |-> levels, todo |-> todo, out |-> out, next |-> next]
NoRun == Run(1, Nothing, {}, {}, Empty)
\* The run ends, and is as good as none unless it ended with success: then what
\* it saw is kept.
End(p, how) ==
    /\ pc' = [pc EXCEPT ![p] = how]
    /\ run' = [run EXCEPT ![p] = IF how = "ok" THEN Run(run[p].date, run[p].levels, {}, {}, Empty)
                                 ELSE NoRun]

\* The lines of a run about some codes, and their delivery.
Lines(p, codes) == {<<run[p].date, c, run[p].levels[c]>> : c \in codes}
Deliver(lines) ==
    pushed' = [x \in Days \X Codes \X Levels |->
                  IF x \in lines /\ pushed[x] < 2 THEN pushed[x] + 1 ELSE pushed[x]]
\* What is in the buffer is gone, and the memory may have it.
Lose(p) == lost' = IF Wrote(p) THEN lost \cup Lines(p, run[p].out) ELSE lost
Disturb(p) == disturbed' = IF Saving(p) THEN disturbed \cup {run[p].date} ELSE disturbed

-----------------------------------------------------------------------------
NextDay ==
    /\ today < MaxDay /\ today' = today + 1
    /\ UNCHANGED <<started, file, tmp, pc, run, inode, pushed, disturbed, lost>>

\* Holdings and quotes.  Only same-day quotes at most 15 minutes old count; a
\* run without one fails visibly.
Fetch(p) ==
    \E fresh \in SUBSET Codes, price \in [Codes -> Prices] :
        /\ Idle(p) /\ started < MaxRuns /\ started' = started + 1
        /\ IF fresh = {} THEN End(p, "idle")
           ELSE /\ pc' = [pc EXCEPT ![p] = "fetched"]
                /\ run' = [run EXCEPT ![p] = Run(today,
                       [c \in Codes |-> IF c \in fresh
                                        THEN StopLevel(price[c], Stops[c]) ELSE 0],
                       {}, {}, Empty)]
        /\ disturbed' = disturbed \cup UNION {{today, run[q].date} :
                                                 q \in {r \in Procs \ {p} : ~Idle(r)}}
        /\ UNCHANGED <<today, file, tmp, inode, pushed, lost>>

\* The memory is read; a run without news ends here.
Load(p) ==
    LET seen == SeenOn(file, run[p].date)
        news == Worsened(run[p].levels, seen)
        next == NextMemory(run[p].levels, seen, run[p].date)
    IN  /\ pc[p] = "fetched"
        /\ IF news = {} THEN End(p, "ok")
           ELSE /\ pc' = [pc EXCEPT ![p] = "printing"]
                /\ run' = [run EXCEPT ![p] = Run(run[p].date, run[p].levels, news, {}, next)]
        /\ UNCHANGED <<today, started, file, tmp, inode, pushed, disturbed, lost>>

\* The output.  A terminal, or a buffer that fills up, lets some of it out.
PrintLines(p) ==
    \E through \in SUBSET run[p].todo :
        /\ pc[p] = "printing"
        /\ Deliver(Lines(p, through))
        /\ run' = [run EXCEPT ![p] = Run(run[p].date, run[p].levels, {},
                                        run[p].todo \ through, run[p].next)]
        /\ pc' = [pc EXCEPT ![p] = "open"]
        /\ UNCHANGED <<today, started, file, tmp, inode, disturbed, lost>>

\* write_text opens the temporary file, which empties it, and then writes to
\* whatever name that file has by then.
OpenTmp(p) ==
    /\ pc[p] = "open"
    /\ tmp' = Empty
    /\ inode' = [inode EXCEPT ![p] = "tmp"]
    /\ pc' = [pc EXCEPT ![p] = "write"]
    /\ UNCHANGED <<today, started, file, run, pushed, disturbed, lost>>
WriteTmp(p) ==
    /\ pc[p] = "write"
    /\ tmp' = IF inode[p] = "tmp" THEN run[p].next ELSE tmp
    /\ file' = IF inode[p] = "state" THEN run[p].next ELSE file
    /\ inode' = [inode EXCEPT ![p] = "gone"]
    /\ pc' = [pc EXCEPT ![p] = "replace"]
    /\ UNCHANGED <<today, started, run, pushed, disturbed, lost>>

\* The rename.  When another run has already renamed the file, it raises.
Replace(p) ==
    /\ pc[p] = "replace" /\ tmp # Null
    /\ file' = tmp /\ tmp' = Null
    /\ inode' = [q \in Procs |-> IF inode[q] = "tmp" THEN "state" ELSE "gone"]
    /\ pc' = [pc EXCEPT ![p] = "leaving"]
    /\ UNCHANGED <<today, started, run, pushed, disturbed, lost>>

\* The interpreter exits and flushes its output; when the reader is gone, that
\* fails, and so does the run (status 120).
Exit(p) ==
    /\ pc[p] = "leaving"
    /\ \/ Deliver(Lines(p, run[p].out)) /\ End(p, "ok") /\ UNCHANGED lost
       \/ run[p].out # {} /\ Lose(p) /\ End(p, "idle") /\ UNCHANGED pushed
    /\ UNCHANGED <<today, started, file, tmp, inode, disturbed>>

\* Output, directory or file refuses a write, or Ctrl-C, in the middle of the
\* output or after it: the rest is never printed, and the interpreter exits with
\* the same flush.  The exception itself changes nothing that another run sees,
\* and a kill before the flush is a kill before the exception: so it is one step.
Raise(p) ==
    \E printed \in SUBSET run[p].todo :
        /\ Saving(p)
        /\ \/ Deliver(Lines(p, run[p].out \cup printed)) /\ UNCHANGED lost
           \/ run[p].out # {} /\ Lose(p) /\ UNCHANGED pushed
        /\ End(p, "idle")
        /\ inode' = [inode EXCEPT ![p] = "gone"]
        /\ Disturb(p)
        /\ UNCHANGED <<today, started, file, tmp>>

\* The run is killed, and its buffer with it.
Crash(p) ==
    /\ ~Idle(p)
    /\ End(p, "idle")
    /\ inode' = [inode EXCEPT ![p] = "gone"]
    /\ Disturb(p) /\ Lose(p)
    /\ UNCHANGED <<today, started, file, tmp, pushed>>

Init ==
    /\ today = 1 /\ started = 0 /\ file = Empty /\ tmp = Null
    /\ pc = [p \in Procs |-> "idle"]
    /\ run = [p \in Procs |-> NoRun]
    /\ inode = [p \in Procs |-> "gone"]
    /\ pushed = [x \in Days \X Codes \X Levels |-> 0]
    /\ disturbed = {} /\ lost = {}

Next ==
    \/ NextDay
    \/ \E p \in Procs :
        \/ Fetch(p) \/ Load(p) \/ PrintLines(p)
        \/ OpenTmp(p) \/ WriteTmp(p) \/ Replace(p) \/ Exit(p) \/ Raise(p) \/ Crash(p)

Spec == Init /\ [][Next]_vars

-----------------------------------------------------------------------------
(* Properties. *)

\* Every variable keeps its type, and what a run prints has a level.
TypeOK ==
    /\ today \in Days /\ started \in Nat
    /\ file \in Memory /\ tmp \in Memory \cup {Null}
    /\ pc \in [Procs -> Control]
    /\ run \in [Procs -> Runs]
    /\ inode \in [Procs -> {"tmp", "state", "gone"}]
    /\ pushed \in [Days \X Codes \X Levels -> 0..2]
    /\ disturbed \subseteq Days
    /\ lost \subseteq Days \X Codes \X Levels
    /\ \A p \in Procs : \A c \in run[p].todo \cup run[p].out : run[p].levels[c] \in Levels

\* A level at least as severe was pushed on that day, is in the buffer of a run
\* that has written its memory and is about to exit, or was lost with such a run.
Told(day, c, level) == \E l \in Levels : l >= level /\ pushed[<<day, c, l>>] > 0
Underway(day, c, level) ==
    \E p \in Procs : /\ Wrote(p) /\ run[p].date = day
                     /\ c \in run[p].out /\ run[p].levels[c] >= level
Missed(day, c, level) == \E l \in Levels : l >= level /\ <<day, c, l>> \in lost
Accounted(day, c, level) ==
    Told(day, c, level) \/ Underway(day, c, level) \/ Missed(day, c, level)

\* A run that ends with success keeps to itself only what is accounted for: the
\* same level of the code or a worse one was pushed that day, is about to be by a
\* run that is exiting, or was lost by a run that died, or whose reader had gone,
\* between writing its memory and flushing its output.  Nothing else loses an
\* alert: no overlap, no emptied, vanished or old memory, no earlier death.
NothingUnreported ==
    \A p \in Procs : pc[p] = "ok" =>
        \A c \in Codes : run[p].levels[c] > 0 =>
            Accounted(run[p].date, c, run[p].levels[c])

\* "Each holding is pushed once per level and day" (CHANGELOG): repeated only on
\* a day on which runs overlapped or one failed or died between its first line
\* and the rename of its memory.
OncePerLevelAndDay ==
    \A d \in Days \ disturbed : \A c \in Codes, l \in Levels : pushed[<<d, c, l>>] <= 1
=============================================================================
