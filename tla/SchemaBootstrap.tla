--------------------------- MODULE SchemaBootstrap ---------------------------
(***************************************************************************)
(* How the CLI processes bring the SQLite database to the current schema:  *)
(* schema_ledger.py (lock file, migration ledger), schema.py (the          *)
(* migrations) and the first use of a connection in db.py.                 *)
(*                                                                         *)
(* Python's legacy transaction mode decides what a crash leaves: a DDL     *)
(* statement outside a transaction is on disk at once, the first INSERT or *)
(* UPDATE opens a transaction, and from then on DDL belongs to it too,     *)
(* until something commits.  disk is the committed database, work the      *)
(* uncommitted one of the process that has the write lock.                 *)
(*                                                                         *)
(* A migration is named by its position in the list that is run, not by    *)
(* the number in its id: the column migrations come before 023.  holdings  *)
(* is the table that is rebuilt; holding_events stands for the other core  *)
(* tables.  A row is a model value: only its presence, its metadata, its   *)
(* events and its alert matter here.                                       *)
(***************************************************************************)
EXTENDS Integers, FiniteSets

CONSTANTS
    Procs,           \* CLI processes of the current release
    Veterans,        \* those that opened the database under an older release
    Null,
    LockFiles,       \* lock files in the processes' temporary directories
    LockOf,          \* the one a process uses
    NumColumns,      \* number of column migrations
    HoldingsColumns, \* those that add a column to holdings
    LegacyRows,      \* rows of holdings in a database older than the ledger
    Flagged,         \* rows whose last analysis carries warning flags
    NewRows,         \* rows that commands add
    MaxCrashes       \* bound: crashes and repeated commands in a behaviour

Columns == 2..(NumColumns + 1)
Core == 1
Rebuild == NumColumns + 2
Indices == NumColumns + 3
Backfill == NumColumns + 4
LegacyAlerts == NumColumns + 5
Thesis == NumColumns + 6
Migrations == 1..(NumColumns + 6)
Rows == LegacyRows \cup NewRows

ASSUME ColumnsAssumption == NumColumns \in Nat /\ HoldingsColumns \subseteq Columns
ASSUME RowsAssumption ==
    Flagged \subseteq LegacyRows /\ LegacyRows \cap NewRows = {}
ASSUME ProcsAssumption ==
    /\ Veterans \subseteq Procs /\ Null \notin Procs /\ MaxCrashes \in Nat
    /\ LockOf \in [Procs -> LockFiles]

VARIABLES
    disk,    \* the committed database
    work,    \* the database as the open transaction has it
    writer,  \* the process with an open transaction
    pc, todo, \* where each process is, and the migrations it found missing
    crashes

vars == <<disk, work, writer, pc, todo, crashes>>

Database ==
    [ledgered: BOOLEAN,                 \* schema_migrations exists
     ledger: SUBSET Migrations,         \* its rows
     tables: SUBSET {"holdings", "holding_events", "holding_thesis_versions"},
     columns: SUBSET Columns,
     keyed: BOOLEAN,                    \* holdings has its id column
     indexed: BOOLEAN,                  \* and its two indices
     rows: SUBSET Rows,                 \* in holdings
     copied: BOOLEAN,                   \* holdings_new exists
     copy: SUBSET Rows,                 \* the rows in it
     filled: SUBSET Rows,               \* rows with their metadata
     events: [Rows -> 0..2],            \* number of opening events, 2 for more
     alerts: SUBSET Rows]               \* rows with a pending legacy alert

CoreTables == {"holdings", "holding_events"}
ColumnsOf(t) == IF t = "holdings" THEN HoldingsColumns ELSE Columns \ HoldingsColumns

\* What a migration has achieved once it is complete.
Applied(d, m) ==
    /\ m = Core => CoreTables \subseteq d.tables
    /\ m \in Columns => m \in d.columns
    /\ m = Rebuild => d.keyed
    /\ m = Indices => d.indexed
    /\ m = Backfill => \A r \in d.rows : r \in d.filled /\ d.events[r] > 0
    /\ m = LegacyAlerts => d.rows \cap Flagged \subseteq d.alerts
    /\ m = Thesis => "holding_thesis_versions" \in d.tables

-----------------------------------------------------------------------------
(* What SQLite does with a statement of p. *)

View(p) == IF writer = p THEN work ELSE disk
Free(p) == writer \in {Null, p}

\* DDL: on disk at once unless p has a transaction open.
Ddl(p, d) ==
    \/ writer = p /\ work' = d /\ UNCHANGED <<disk, writer>>
    \/ writer = Null /\ disk' = d /\ work' = d /\ UNCHANGED writer
\* INSERT and UPDATE: open a transaction if there is none.
Dml(p, d) == Free(p) /\ writer' = p /\ work' = d /\ UNCHANGED disk
Commit(p) ==
    /\ disk' = View(p)
    /\ writer' = IF writer = p THEN Null ELSE writer
    /\ UNCHANGED work
Rollback(p) ==
    /\ writer' = IF writer = p THEN Null ELSE writer
    /\ work' = IF writer = p THEN disk ELSE work
    /\ UNCHANGED disk

Goto(p, label) == pc' = [pc EXCEPT ![p] = label]
At(p, label) == pc[p] = label
Resting == {"start", "failed", "ready", "done"}
Labels == Resting \cup
    {"ledger", "create_ledger", "pending", "apply", "record", "commit_ledger",
     "drop_copy", "create_copy", "copy_rows", "drop_holdings", "rename_copy",
     "infer", "commit_apply"}

\* The migration that p is at: the first of its list.
\* Mutant: the list is run from its end.
Doing_Reversed(p, m) == m \in todo[p] /\ \A n \in todo[p] : n <= m
Doing(p, m) == m \in todo[p] /\ \A n \in todo[p] : m <= n

-----------------------------------------------------------------------------
(* get_db: the lock file, the ledger, the list of what is missing. *)

Lock(p) ==
    /\ At(p, "start")
    /\ \A q \in Procs : LockOf[q] = LockOf[p] => pc[q] \in Resting
    /\ Goto(p, "ledger")
    /\ UNCHANGED <<disk, work, writer, todo, crashes>>

FindLedger(p) ==
    /\ At(p, "ledger")
    /\ Goto(p, IF disk.ledgered THEN "pending" ELSE "create_ledger")
    /\ UNCHANGED <<disk, work, writer, todo, crashes>>

CreateLedger(p) ==
    /\ At(p, "create_ledger") /\ ~disk.ledgered
    /\ Ddl(p, [disk EXCEPT !.ledgered = TRUE])
    /\ Goto(p, "pending")
    /\ UNCHANGED <<todo, crashes>>

\* Mutant: only the last migration is looked for, as with a version number.
ListPending_LastOnly(p) ==
    LET missing == IF Thesis \in disk.ledger THEN {} ELSE Migrations \ disk.ledger
    IN  /\ At(p, "pending")
        /\ todo' = [todo EXCEPT ![p] = missing]
        /\ Goto(p, IF missing = {} THEN "ready" ELSE "apply")
        /\ UNCHANGED <<disk, work, writer, crashes>>
ListPending(p) ==
    LET missing == Migrations \ disk.ledger
    IN  /\ At(p, "pending")
        /\ todo' = [todo EXCEPT ![p] = missing]
        /\ Goto(p, IF missing = {} THEN "ready" ELSE "apply")
        /\ UNCHANGED <<disk, work, writer, crashes>>

\* The ledger row, after the migration itself.
Record(p) ==
    \E m \in Migrations :
        /\ At(p, "record") /\ Doing(p, m) /\ m \notin View(p).ledger
        /\ Dml(p, [View(p) EXCEPT !.ledger = @ \cup {m}])
        /\ todo' = [todo EXCEPT ![p] = @ \ {m}]
        /\ Goto(p, IF todo[p] = {m} THEN "commit_ledger" ELSE "apply")
        /\ UNCHANGED crashes

CommitLedger(p) ==
    /\ At(p, "commit_ledger") /\ Commit(p) /\ Goto(p, "ready")
    /\ UNCHANGED <<todo, crashes>>

-----------------------------------------------------------------------------
(* The migrations. *)

\* 001: CREATE TABLE IF NOT EXISTS, one statement after the other.  A new
\* table has every column of the current release, and a new holdings its id.
CreateTable(p) ==
    LET d == View(p)
        t == IF "holdings" \notin d.tables THEN "holdings" ELSE "holding_events"
    IN  /\ At(p, "apply") /\ Doing(p, Core)
        /\ ~ CoreTables \subseteq d.tables
        /\ Ddl(p, [d EXCEPT !.tables = @ \cup {t},
                            !.columns = @ \cup ColumnsOf(t),
                            !.keyed = IF t = "holdings" THEN TRUE ELSE @])
        /\ UNCHANGED <<pc, todo, crashes>>
CoreDone(p) ==
    /\ At(p, "apply") /\ Doing(p, Core) /\ CoreTables \subseteq View(p).tables
    /\ Goto(p, "record")
    /\ UNCHANGED <<disk, work, writer, todo, crashes>>

\* 002-022, 027-037: ADD COLUMN; "duplicate column name" is ignored.
\* Mutant: it is an error like any other.
AddColumn_Strict(p) ==
    \E c \in Columns :
        /\ At(p, "apply") /\ Doing(p, c)
        /\ IF c \in View(p).columns THEN Rollback(p) /\ Goto(p, "failed")
           ELSE Ddl(p, [View(p) EXCEPT !.columns = @ \cup {c}]) /\ Goto(p, "record")
        /\ UNCHANGED <<todo, crashes>>
AddColumn(p) ==
    \E c \in Columns :
        /\ At(p, "apply") /\ Doing(p, c)
        /\ IF c \in View(p).columns THEN UNCHANGED <<disk, work, writer>>
           ELSE Ddl(p, [View(p) EXCEPT !.columns = @ \cup {c}])
        /\ Goto(p, "record")
        /\ UNCHANGED <<todo, crashes>>

\* 023: holdings is copied into a table with an id, unless it has one.
\* Mutants: a half-made copy is not dropped first; the copy is committed.
RebuildCheck_KeepsCopy(p) ==
    /\ At(p, "apply") /\ Doing(p, Rebuild)
    /\ Goto(p, IF View(p).keyed THEN "record" ELSE "create_copy")
    /\ UNCHANGED <<disk, work, writer, todo, crashes>>
RebuildCheck(p) ==
    /\ At(p, "apply") /\ Doing(p, Rebuild)
    /\ Goto(p, IF View(p).keyed THEN "record" ELSE "drop_copy")
    /\ UNCHANGED <<disk, work, writer, todo, crashes>>
DropCopy(p) ==
    /\ At(p, "drop_copy") /\ Ddl(p, [View(p) EXCEPT !.copied = FALSE, !.copy = {}])
    /\ Goto(p, "create_copy")
    /\ UNCHANGED <<todo, crashes>>
CreateCopy(p) ==
    /\ At(p, "create_copy") /\ ~View(p).copied
    /\ Ddl(p, [View(p) EXCEPT !.copied = TRUE])
    /\ Goto(p, "copy_rows")
    /\ UNCHANGED <<todo, crashes>>
CanCopy(d) == d.copied /\ "holdings" \in d.tables /\ HoldingsColumns \subseteq d.columns
CopyRows_Commits(p) ==
    /\ At(p, "copy_rows") /\ CanCopy(View(p)) /\ Free(p)
    /\ disk' = [View(p) EXCEPT !.copy = @ \cup View(p).rows]
    /\ work' = disk' /\ writer' = Null
    /\ Goto(p, "drop_holdings")
    /\ UNCHANGED <<todo, crashes>>
CopyRows(p) ==
    /\ At(p, "copy_rows") /\ CanCopy(View(p))
    /\ Dml(p, [View(p) EXCEPT !.copy = @ \cup View(p).rows])
    /\ Goto(p, "drop_holdings")
    /\ UNCHANGED <<todo, crashes>>
DropHoldings(p) ==
    /\ At(p, "drop_holdings")
    /\ Ddl(p, [View(p) EXCEPT !.tables = @ \ {"holdings"}, !.rows = {},
                              !.columns = @ \ HoldingsColumns, !.indexed = FALSE])
    /\ Goto(p, "rename_copy")
    /\ UNCHANGED <<todo, crashes>>
RenameCopy(p) ==
    /\ At(p, "rename_copy")
    /\ Ddl(p, [View(p) EXCEPT !.tables = @ \cup {"holdings"}, !.rows = View(p).copy,
                              !.columns = @ \cup HoldingsColumns,
                              !.keyed = TRUE, !.copied = FALSE, !.copy = {}])
    /\ Goto(p, "commit_apply")
    /\ UNCHANGED <<todo, crashes>>

\* 024: both indices, unless both exist.
CreateIndices(p) ==
    /\ At(p, "apply") /\ Doing(p, Indices)
    /\ IF View(p).indexed THEN Goto(p, "record") /\ UNCHANGED <<disk, work, writer>>
       ELSE Ddl(p, [View(p) EXCEPT !.indexed = TRUE]) /\ Goto(p, "commit_apply")
    /\ UNCHANGED <<todo, crashes>>

\* 025: the UPDATEs open the transaction before the rows without events are
\* selected, and each of these gets one inferred event.
FillMetadata(p) ==
    /\ At(p, "apply") /\ Doing(p, Backfill)
    /\ Dml(p, [View(p) EXCEPT !.filled = @ \cup View(p).rows])
    /\ Goto(p, "infer")
    /\ UNCHANGED <<todo, crashes>>
\* Mutant: every row gets an event, also one that has some.
InferEvents_Always(p) ==
    /\ At(p, "infer")
    /\ Dml(p, [View(p) EXCEPT !.events =
                  [r \in Rows |-> IF r \in View(p).rows THEN @[r] + 1 ELSE @[r]]])
    /\ Goto(p, "commit_apply")
    /\ UNCHANGED <<todo, crashes>>
InferEvents(p) ==
    LET d == View(p)
        bare == {r \in d.rows : d.events[r] = 0}
    IN  /\ At(p, "infer")
        /\ Dml(p, [d EXCEPT !.events =
                      [r \in Rows |-> IF r \in bare THEN 1 ELSE d.events[r]]])
        /\ Goto(p, "commit_apply")
        /\ UNCHANGED <<todo, crashes>>

\* 026: INSERT OR IGNORE of a pending alert for each flagged row, if any.
CarryAlerts(p) ==
    /\ At(p, "apply") /\ Doing(p, LegacyAlerts)
    /\ IF View(p).rows \cap Flagged = {} THEN UNCHANGED <<disk, work, writer>>
       ELSE Dml(p, [View(p) EXCEPT !.alerts = @ \cup (View(p).rows \cap Flagged)])
    /\ Goto(p, "commit_apply")
    /\ UNCHANGED <<todo, crashes>>

\* The commit inside migrations 023 to 026: it takes the ledger rows of the
\* migrations before along, but not yet its own.
CommitApply(p) ==
    /\ At(p, "commit_apply") /\ Commit(p) /\ Goto(p, "record")
    /\ UNCHANGED <<todo, crashes>>

\* 034: CREATE TABLE IF NOT EXISTS.
CreateThesis(p) ==
    /\ At(p, "apply") /\ Doing(p, Thesis)
    /\ Ddl(p, [View(p) EXCEPT !.tables = @ \cup {"holding_thesis_versions"}])
    /\ Goto(p, "record")
    /\ UNCHANGED <<todo, crashes>>

-----------------------------------------------------------------------------
(* Failures, and the commands the bootstrap is for. *)

\* A statement that SQLite refuses (a table that exists, a table or column that
\* does not, a second ledger row) or that waits 30 s for the write lock raises:
\* the connection is closed, the lock file released, the command fails.
Refused(p) ==
    \/ At(p, "create_ledger") /\ disk.ledgered
    \/ At(p, "record") /\ \E m \in View(p).ledger : Doing(p, m)
    \/ At(p, "create_copy") /\ View(p).copied
    \/ At(p, "copy_rows") /\ ~CanCopy(View(p))
Busy(p) ==
    /\ ~Free(p)
    /\ \/ pc[p] \in {"create_ledger", "record", "drop_copy", "create_copy", "copy_rows"}
       \/ /\ At(p, "apply")
          /\ \E m \in Migrations \ {Rebuild} :
                 Doing(p, m) /\ (m = Backfill \/ ~Applied(View(p), m))
Fail(p) ==
    /\ pc[p] \notin Resting /\ (Refused(p) \/ Busy(p))
    /\ Rollback(p) /\ Goto(p, "failed")
    /\ todo' = [todo EXCEPT ![p] = {}]
    /\ UNCHANGED crashes
\* The command is given again.
Retry(p) ==
    /\ At(p, "failed") /\ Goto(p, "start")
    /\ crashes < MaxCrashes /\ crashes' = crashes + 1
    /\ UNCHANGED <<disk, work, writer, todo>>

\* A kill: SQLite rolls back, the system releases the lock file, and the next
\* command starts over.
Crash(p) ==
    /\ pc[p] \notin Resting /\ crashes < MaxCrashes
    /\ Rollback(p) /\ Goto(p, "start")
    /\ todo' = [todo EXCEPT ![p] = {}]
    /\ crashes' = crashes + 1

\* A command with its connection: add-holding writes a row with its metadata
\* and first event in one transaction; others write none.
Command(p) ==
    /\ At(p, "ready") /\ writer = Null /\ CoreTables \subseteq disk.tables
    /\ \E r \in NewRows \ disk.rows :
           disk' = [disk EXCEPT !.rows = @ \cup {r}, !.filled = @ \cup {r},
                                !.events[r] = 1]
    /\ work' = disk'
    /\ Goto(p, "done")
    /\ UNCHANGED <<writer, todo, crashes>>
Leave(p) ==
    /\ At(p, "ready") /\ Goto(p, "done")
    /\ UNCHANGED <<disk, work, writer, todo, crashes>>

-----------------------------------------------------------------------------
NoTables ==
    [ledgered |-> FALSE, ledger |-> {}, tables |-> {}, columns |-> {}, keyed |-> FALSE,
     indexed |-> FALSE, rows |-> {}, copied |-> FALSE, copy |-> {},
     filled |-> {}, events |-> [r \in Rows |-> 0], alerts |-> {}]
\* Before the ledger: columns came in list order, holding_events later than
\* holdings, and a rebuild that was cut short could leave its empty copy.
BeforeLedger(t, n, keyed, cut) ==
    [NoTables EXCEPT
        !.tables = t,
        !.columns = {c \in Columns : c <= n /\ \E u \in t : c \in ColumnsOf(u)},
        !.keyed = keyed, !.copied = cut, !.rows = LegacyRows]
OlderThanLedger ==
    {BeforeLedger(t, n, keyed, ~keyed /\ cut) :
        t \in {{"holdings"}, CoreTables}, n \in 1..(NumColumns + 1),
        keyed \in BOOLEAN, cut \in BOOLEAN}
\* A release with the ledger, from before some columns and the thesis table.
Without(late) ==
    [NoTables EXCEPT
        !.ledgered = TRUE, !.ledger = Migrations \ late,
        !.tables = CoreTables \cup (IF Thesis \in late THEN {}
                                    ELSE {"holding_thesis_versions"}),
        !.columns = Columns \ late, !.keyed = TRUE, !.indexed = TRUE,
        !.rows = LegacyRows, !.filled = LegacyRows,
        !.events = [r \in Rows |-> IF r \in LegacyRows THEN 1 ELSE 0],
        !.alerts = Flagged]
OlderRelease == {Without(late) : late \in SUBSET (Columns \cup {Thesis})}

Init ==
    /\ disk \in {NoTables} \cup OlderThanLedger \cup OlderRelease
    /\ work = disk
    /\ writer = Null
    /\ pc \in [Procs -> {"start", "ready"}]
    /\ \A p \in Procs : pc[p] = "ready" <=> p \in Veterans /\ disk # NoTables
    /\ todo = [p \in Procs |-> {}]
    /\ crashes = 0

Bootstrap(p) ==
    \/ Lock(p) \/ FindLedger(p) \/ CreateLedger(p) \/ ListPending(p)
    \/ CreateTable(p) \/ CoreDone(p) \/ AddColumn(p)
    \/ RebuildCheck(p) \/ DropCopy(p) \/ CreateCopy(p) \/ CopyRows(p)
    \/ DropHoldings(p) \/ RenameCopy(p) \/ CreateIndices(p)
    \/ FillMetadata(p) \/ InferEvents(p) \/ CarryAlerts(p)
    \/ CommitApply(p) \/ CreateThesis(p)
    \/ Record(p) \/ CommitLedger(p)

Run(p) == Bootstrap(p) \/ Fail(p) \/ Retry(p) \/ Command(p) \/ Leave(p)
AllDone == (\A p \in Procs : pc[p] \in {"done", "failed"}) /\ UNCHANGED vars

Next == (\E p \in Procs : Run(p) \/ Crash(p)) \/ AllDone

Spec == Init /\ [][Next]_vars
\* A process that can take a step takes one: the system runs it.
FairSpec == Spec /\ \A p \in Procs : WF_vars(Run(p))

-----------------------------------------------------------------------------
(* Properties. *)

TypeOK ==
    /\ disk \in Database /\ work \in Database
    /\ writer \in Procs \cup {Null}
    /\ pc \in [Procs -> Labels]
    /\ todo \in [Procs -> SUBSET Migrations]
    /\ crashes \in 0..MaxCrashes

\* What the ledger on disk records has been done, on disk: no crash, replay or
\* second process makes it skip a migration that is missing.
RecordedIsApplied == \A m \in disk.ledger : Applied(disk, m)

\* A command of this release never runs on a half-migrated database.
MigratedWhenReady ==
    \A p \in Procs \ Veterans :
        pc[p] = "ready" => \A m \in Migrations : Applied(disk, m)

\* No row of holdings disappears from disk, in particular not while the table
\* is dropped and replaced by its copy.
NoRowLost == [][disk.rows \subseteq disk'.rows]_vars

\* However often the backfill is run, no row gets a second opening event.
BackfilledOnce == \A r \in Rows : disk.events[r] <= 1

\* Whether processes that bootstrap the database have different lock files; a
\* veteran whose connection was open before does not bootstrap it.
Bootstraps(p) == p \notin Veterans \/ LegacyRows \cap disk.rows = {}
Apart == \E p, q \in Procs : Bootstraps(p) /\ Bootstraps(q) /\ LockOf[p] # LockOf[q]

\* With one lock file, a bootstrap never meets the traces of another one or of
\* a crash as an error.
NoBootstrapFails == \A p \in Procs : pc[p] = "failed" => Apart

\* Every command that starts gets through the bootstrap, whatever crashed before;
\* without a common lock file it may end with an error instead, but never hangs.
EventuallyReady ==
    \A p \in Procs : pc[p] = "start" ~> pc[p] = "ready" \/ (pc[p] = "failed" /\ Apart)
=============================================================================
