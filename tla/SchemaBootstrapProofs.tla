------------------------ MODULE SchemaBootstrapProofs ------------------------
(***************************************************************************)
(* SchemaBootstrap for any number of processes, column migrations, rows    *)
(* and crashes, and for any assignment of lock files: what keeps the       *)
(* database whole is the write lock and the order of the migration list,   *)
(* not the lock file.                                                      *)
(*                                                                         *)
(* The heart of the invariant is that nothing is recorded on disk as long  *)
(* as holdings has no id.  The first migration is recorded in a            *)
(* transaction that stays open until 023 commits, so whoever rebuilds      *)
(* holdings has had the write lock since then, and nobody else can have    *)
(* got past its own first ledger row.                                      *)
(***************************************************************************)
EXTENDS SchemaBootstrap, TLAPS

RebuildLabels == {"drop_copy", "create_copy", "copy_rows", "drop_holdings", "rename_copy"}
Listed == RebuildLabels \cup {"apply", "record", "infer", "commit_apply", "commit_ledger"}

\* The table holdings exists, and e has all that d has and the same rows.
Extends(d, e) ==
    /\ d.ledger \subseteq e.ledger
    /\ d.tables \subseteq e.tables
    /\ d.columns \subseteq e.columns
    /\ d.keyed => e.keyed
    /\ d.indexed => e.indexed
    /\ d.rows = e.rows
    /\ d.filled \subseteq e.filled
    /\ \A r \in Rows : d.events[r] > 0 => e.events[r] > 0
    /\ d.alerts \subseteq e.alerts

Whole(d) ==
    /\ \A m \in d.ledger : Applied(d, m)
    /\ \A m \in d.ledger : m >= Rebuild => d.keyed
    /\ d.indexed => d.keyed
    /\ \A r \in Rows : d.events[r] <= 1
    /\ ~d.copied => d.copy = {}

\* While holdings is dropped: what the copy will make whole again.
Dropped(d, e) ==
    /\ d.rows = e.copy /\ e.rows = {}
    /\ d.ledger = {} /\ ~d.keyed /\ ~d.indexed /\ ~e.keyed /\ ~e.indexed
    /\ e.copied
    /\ d.tables \ {"holdings"} \subseteq e.tables
    /\ d.columns \ HoldingsColumns \subseteq e.columns
    /\ d.filled \subseteq e.filled /\ d.alerts \subseteq e.alerts
    /\ \A r \in Rows : d.events[r] > 0 => e.events[r] > 0
    /\ \A r \in Rows : e.events[r] <= 1
    /\ \A m \in e.ledger : m < Rebuild
    /\ Core \in e.ledger => "holding_events" \in e.tables
    /\ \A m \in e.ledger \cap Columns : m \in HoldingsColumns \/ m \in e.columns

Writing ==
    IF writer = Null THEN work = disk
    ELSE /\ pc[writer] \in Listed
         /\ IF pc[writer] = "rename_copy" THEN Dropped(disk, work)
            ELSE Extends(disk, work) /\ Whole(work)

Position(p) ==
    /\ pc[p] \in Listed =>
           \A m \in Migrations \ todo[p] : m \in View(p).ledger
    /\ pc[p] \in RebuildLabels =>
           writer = p /\ Doing(p, Rebuild) /\ ~work.keyed /\ disk.ledger = {}
    /\ pc[p] = "copy_rows" => work.copied /\ work.copy = {}
    /\ pc[p] = "drop_holdings" => work.copied /\ work.copy = work.rows
    /\ pc[p] \in {"infer", "commit_ledger"} => writer = p
    /\ pc[p] = "infer" => Doing(p, Backfill) /\ work.rows \subseteq work.filled
    /\ pc[p] \in {"record", "commit_apply"} =>
           \A m \in Migrations : Doing(p, m) => Applied(View(p), m)
    /\ pc[p] = "commit_apply" => View(p).keyed
    /\ pc[p] = "commit_ledger" => todo[p] = {}
    /\ pc[p] = "ready" => p \in Veterans \/ disk.ledger = Migrations

IInv ==
    /\ TypeOK
    /\ Whole(disk)
    /\ disk.ledger # {} => disk.keyed
    /\ Writing
    /\ \A p \in Procs : Position(p)

USE ColumnsAssumption, RowsAssumption, ProcsAssumption

-----------------------------------------------------------------------------
(* The database. *)

\* What a migration has achieved survives every extension of the database.
LEMMA ExtendsApplied ==
    ASSUME NEW d \in Database, NEW e \in Database, Extends(d, e),
           NEW m \in Migrations, Applied(d, m)
    PROVE  Applied(e, m)
BY DEF Extends, Applied, Database, Core, Rebuild, Indices, Backfill, LegacyAlerts,
       Thesis, Columns, CoreTables

\* Extending is a preorder.
LEMMA ExtendsItself == ASSUME NEW d \in Database PROVE Extends(d, d)
BY DEF Extends

\* Extending is a preorder.
LEMMA ExtendsTransitive ==
    ASSUME NEW d, NEW e, NEW f, Extends(d, e), Extends(e, f)
    PROVE  Extends(d, f)
BY DEF Extends

\* A change that records nothing and builds no index leaves the database whole.
LEMMA ExtendsWhole ==
    ASSUME NEW d \in Database, NEW e \in Database, Extends(d, e), Whole(d),
           e.ledger = d.ledger, e.indexed = d.indexed,
           \A r \in Rows : e.events[r] <= 1,
           ~e.copied => e.copy = {}
    PROVE  Whole(e)
<1>1. \A m \in e.ledger : m \in Migrations
  BY DEF Database
<1> QED
  BY <1>1, ExtendsApplied DEF Whole, Extends

-----------------------------------------------------------------------------
(* Steps of one process, by what they do to the database. *)

\* What p reads and writes is a database.
LEMMA ViewTyped == ASSUME TypeOK, NEW p \in Procs PROVE View(p) \in Database
BY DEF TypeOK, View

\* Outside the moment in which holdings is dropped, p sees a whole database
\* that extends the committed one.
LEMMA ViewWhole ==
    ASSUME IInv, NEW p \in Procs, pc[p] # "rename_copy"
    PROVE  Whole(View(p)) /\ Extends(disk, View(p))
BY ExtendsItself DEF IInv, Writing, View, TypeOK

\* A process that is not in the list of migrations has no transaction.
LEMMA WriterIsListed ==
    ASSUME IInv, NEW p \in Procs, pc[p] \notin Listed
    PROVE  writer # p /\ View(p) = disk
BY DEF IInv, Writing, View

\* Only pc and todo of p change.
Moves(p, label, t) ==
    /\ pc' = [pc EXCEPT ![p] = label]
    /\ todo' = [todo EXCEPT ![p] = t]
    /\ crashes' \in 0..MaxCrashes

\* The position of a process that has no transaction, while another one works.
LEMMA OthersKeep ==
    ASSUME TypeOK, TypeOK', NEW q \in Procs, Position(q),
           pc'[q] = pc[q], todo'[q] = todo[q], writer # q, writer' # q,
           disk.ledger \subseteq disk'.ledger, disk.keyed => disk'.keyed,
           \A m \in Migrations : Applied(disk, m) => Applied(disk', m)
    PROVE  Position(q)'
<1>1. View(q) = disk /\ View(q)' = disk'
  BY DEF View
<1>2. disk'.ledger \subseteq Migrations /\ todo[q] \subseteq Migrations
  BY DEF TypeOK, Database
<1>3. \A m : Doing(q, m)' <=> Doing(q, m)
  BY DEF Doing
<1>4. pc[q] \notin RebuildLabels /\ pc[q] \notin {"infer", "commit_ledger"}
  BY DEF Position
<1>5. pc[q] \in Listed => \A m \in Migrations \ todo[q] : m \in disk'.ledger
  BY <1>1 DEF Position
<1>6. pc[q] \in {"record", "commit_apply"} =>
          \A m \in Migrations : Doing(q, m) => Applied(disk', m)
  BY <1>1 DEF Position
<1>7. pc[q] = "commit_apply" => disk'.keyed
  BY <1>1 DEF Position
<1>8. pc[q] = "ready" => q \in Veterans \/ disk'.ledger = Migrations
  BY <1>2 DEF Position
<1> QED
  BY <1>1, <1>3, <1>4, <1>5, <1>6, <1>7, <1>8 DEF Position, RebuildLabels

\* The position of a process while nothing happens to the database.
LEMMA OthersRest ==
    ASSUME NEW q \in Procs, Position(q), UNCHANGED <<disk, work, writer>>,
           pc'[q] = pc[q], todo'[q] = todo[q]
    PROVE  Position(q)'
BY DEF Position, View, Doing, Applied

\* A step that only moves p.
LEMMA QuietStep ==
    ASSUME IInv, NEW p \in Procs, NEW label \in Labels, NEW t \in SUBSET Migrations,
           Moves(p, label, t), UNCHANGED <<disk, work, writer>>,
           writer = p => label \in Listed,
           pc[p] # "rename_copy", label # "rename_copy", Position(p)'
    PROVE  IInv'
<1>1. TypeOK'
  BY DEF IInv, TypeOK, Moves
<1>2. Writing'
  BY DEF IInv, Writing, Moves, TypeOK, Extends, Dropped, Whole, Applied
<1>3. ASSUME NEW q \in Procs PROVE Position(q)'
  BY OthersRest DEF IInv, Moves, TypeOK
<1>4. Whole(disk)' /\ (disk.ledger # {} => disk.keyed)'
  BY DEF IInv, Whole, Applied
<1> QED
  BY <1>1, <1>2, <1>3, <1>4 DEF IInv

\* After a DDL or DML statement p sees what it wrote.
LEMMA NewView ==
    ASSUME NEW p \in Procs, NEW d \in Database, Ddl(p, d) \/ Dml(p, d)
    PROVE  View(p)' = d
BY ProcsAssumption DEF Ddl, Dml, View

\* A DDL statement that extends the database.
LEMMA DdlStep ==
    ASSUME IInv, NEW p \in Procs, NEW d \in Database, NEW label \in Labels,
           NEW t \in SUBSET Migrations, Moves(p, label, t), Ddl(p, d),
           Extends(View(p), d), Whole(d), d.ledger = View(p).ledger,
           writer = p => label \in Listed,
           pc[p] # "rename_copy", label # "rename_copy", Position(p)'
    PROVE  IInv'
<1>1. TypeOK'
  BY DEF IInv, TypeOK, Moves, Ddl
<1>2. Extends(disk, d) /\ (disk.ledger # {} => disk.keyed)
  BY ViewWhole, ExtendsTransitive DEF IInv
<1>3. disk' = disk \/ (writer = Null /\ disk' = d /\ d.ledger = disk.ledger)
  BY ProcsAssumption DEF Ddl, View
<1>4. Whole(disk') /\ (disk'.ledger # {} => disk'.keyed)
  BY <1>2, <1>3 DEF IInv, Extends
<1>5. Writing'
  <2>1. CASE writer = p
    BY <2>1, <1>2, ProcsAssumption DEF Ddl, Writing, Moves, IInv, TypeOK
  <2>2. CASE writer # p
    BY <2>2, ProcsAssumption DEF Ddl, Writing
  <2> QED
    BY <2>1, <2>2
<1>6. ASSUME NEW q \in Procs, q # p PROVE Position(q)'
  <2>1. writer # q /\ writer' # q
    BY <1>6, ProcsAssumption DEF Ddl
  <2>2. \A m \in Migrations : Applied(disk, m) => Applied(disk', m)
    BY <1>2, <1>3, ExtendsApplied DEF IInv, TypeOK
  <2> QED
    BY <1>1, <1>2, <1>3, <1>6, <2>1, <2>2, OthersKeep DEF Extends, IInv, Moves, TypeOK
<1> QED
  BY <1>1, <1>4, <1>5, <1>6 DEF IInv

\* An INSERT or UPDATE that extends the database.
LEMMA DmlStep ==
    ASSUME IInv, NEW p \in Procs, NEW d \in Database, NEW label \in Listed,
           NEW t \in SUBSET Migrations, Moves(p, label, t), Dml(p, d),
           Extends(View(p), d), Whole(d),
           pc[p] # "rename_copy", label # "rename_copy", Position(p)'
    PROVE  IInv'
<1>1. TypeOK'
  BY DEF IInv, TypeOK, Moves, Dml, Labels, Listed, RebuildLabels
<1>2. Extends(disk, d)
  BY ViewWhole, ExtendsTransitive DEF IInv
<1>3. Writing'
  BY <1>2, ProcsAssumption DEF Dml, Writing, Moves, IInv, TypeOK
<1>4. ASSUME NEW q \in Procs, q # p PROVE Position(q)'
  <2>1. writer # q /\ writer' # q /\ disk' = disk
    BY <1>4, ProcsAssumption DEF Dml, Free
  <2> QED
    BY <1>1, <1>4, <2>1, OthersKeep DEF IInv, Moves, TypeOK
<1>5. Whole(disk)' /\ (disk.ledger # {} => disk.keyed)'
  BY DEF IInv, Whole, Applied, Dml
<1> QED
  BY <1>1, <1>3, <1>4, <1>5 DEF IInv

\* A commit of a database whose holdings has its id.
LEMMA CommitStep ==
    ASSUME IInv, NEW p \in Procs, NEW label \in Labels, NEW t \in SUBSET Migrations,
           Moves(p, label, t), Commit(p), View(p).keyed,
           pc[p] # "rename_copy", Position(p)'
    PROVE  IInv'
<1>1. View(p) \in Database /\ Whole(View(p)) /\ Extends(disk, View(p))
  BY ViewTyped, ViewWhole DEF IInv
<1>2. TypeOK'
  BY <1>1 DEF IInv, TypeOK, Moves, Commit
<1>3. Whole(disk)' /\ (disk.ledger # {} => disk.keyed)'
  BY <1>1 DEF Commit, Whole, Applied
<1>4. Writing'
  <2>1. CASE writer = p
    BY <2>1, ProcsAssumption DEF Commit, Writing, View
  <2>2. CASE writer # p
    BY <2>2, ProcsAssumption
       DEF Commit, Writing, View, Moves, IInv, TypeOK, Extends, Dropped, Whole, Applied
  <2> QED
    BY <2>1, <2>2
<1>5. ASSUME NEW q \in Procs, q # p PROVE Position(q)'
  <2>1. CASE writer = q
    <3>1. UNCHANGED <<disk, work, writer>>
      BY <1>5, <2>1 DEF Commit, View
    <3> QED
      BY <3>1, <1>5, OthersRest DEF IInv, Moves, TypeOK
  <2>2. CASE writer # q
    <3>1. writer' # q /\ disk' = View(p)
      BY <2>2, ProcsAssumption DEF Commit
    <3>2. \A m \in Migrations : Applied(disk, m) => Applied(disk', m)
      BY <1>1, <3>1, ExtendsApplied DEF IInv, TypeOK
    <3> QED
      BY <1>1, <1>2, <1>5, <2>2, <3>1, <3>2, OthersKeep
         DEF Extends, IInv, Moves, TypeOK
  <2> QED
    BY <2>1, <2>2
<1> QED
  BY <1>2, <1>3, <1>4, <1>5 DEF IInv

\* A failure or a crash, which takes p out of the list.
LEMMA RollbackStep ==
    ASSUME IInv, NEW p \in Procs, NEW label \in {"failed", "start"},
           Moves(p, label, {}), Rollback(p)
    PROVE  IInv'
<1>1. TypeOK'
  BY DEF IInv, TypeOK, Moves, Rollback, Labels, Resting
<1>2. Whole(disk)' /\ (disk.ledger # {} => disk.keyed)'
  BY DEF IInv, Rollback, Whole, Applied
<1>3. pc'[p] = label
  BY DEF Moves, IInv, TypeOK
<1>4. Position(p)'
  BY <1>3 DEF Position, Listed, RebuildLabels
<1>5. Writing'
  <2>1. CASE writer = p
    BY <2>1, ProcsAssumption DEF Rollback, Writing
  <2>2. CASE writer # p
    BY <2>2, ProcsAssumption
       DEF Rollback, Writing, Moves, IInv, TypeOK, Extends, Dropped, Whole, Applied
  <2> QED
    BY <2>1, <2>2
<1>6. ASSUME NEW q \in Procs, q # p PROVE Position(q)'
  <2>1. CASE writer = q
    <3>1. UNCHANGED <<disk, work, writer>>
      BY <1>6, <2>1 DEF Rollback
    <3> QED
      BY <3>1, <1>6, OthersRest DEF IInv, Moves, TypeOK
  <2>2. CASE writer # q
    <3>1. writer' # q /\ disk' = disk
      BY <2>2, ProcsAssumption DEF Rollback
    <3> QED
      BY <1>1, <1>6, <2>2, <3>1, OthersKeep DEF IInv, Moves, TypeOK
  <2> QED
    BY <2>1, <2>2
<1> QED
  BY <1>1, <1>2, <1>4, <1>5, <1>6 DEF IInv

-----------------------------------------------------------------------------
(* Where p arrives. *)

\* Where a step of p takes p.
LEMMA Arrival ==
    ASSUME TypeOK, NEW p \in Procs, NEW label, NEW t, Moves(p, label, t)
    PROVE  pc'[p] = label /\ todo'[p] = t
BY DEF TypeOK, Moves

\* p goes on to a label at which nothing but the ledger matters.
LEMMA ArrivalApply ==
    ASSUME TypeOK, NEW p \in Procs, NEW t, Moves(p, "apply", t),
           \A m \in Migrations \ t : m \in View(p)'.ledger
    PROVE  Position(p)'
BY Arrival DEF Position, RebuildLabels

\* p has done what its migration asks for.
LEMMA ArrivalDone ==
    ASSUME TypeOK, NEW p \in Procs, NEW label \in {"record", "commit_apply"},
           NEW m \in Migrations, Moves(p, label, todo[p]), Doing(p, m),
           \A n \in Migrations \ todo[p] : n \in View(p)'.ledger,
           Applied(View(p)', m), label = "commit_apply" => View(p)'.keyed
    PROVE  Position(p)'
<1>1. pc'[p] = label /\ todo'[p] = todo[p]
  BY Arrival
<1>2. ASSUME NEW n \in Migrations, Doing(p, n)' PROVE n = m
  BY <1>1, <1>2 DEF Doing, Migrations
<1> QED
  BY <1>1, <1>2 DEF Position, RebuildLabels

\* A process in the list has recorded what is no longer in it.
LEMMA RecordedBefore ==
    ASSUME IInv, NEW p \in Procs, pc[p] \in Listed, NEW m \in Migrations, Doing(p, m),
           NEW n \in Migrations, n < m
    PROVE  n \in View(p).ledger
BY DEF IInv, Position, Doing, Migrations

\* Past 023, holdings has its id.
LEMMA KeyedAfterRebuild ==
    ASSUME IInv, NEW p \in Procs, pc[p] \in Listed, pc[p] # "rename_copy",
           NEW m \in Migrations, Doing(p, m), m > Rebuild
    PROVE  View(p).keyed
<1>1. Rebuild \in Migrations
  BY DEF Rebuild, Migrations
<1>2. Rebuild \in View(p).ledger
  BY <1>1, RecordedBefore DEF Rebuild, Migrations
<1> QED
  BY <1>2, ViewWhole DEF Whole, Rebuild

\* The rows seen have at most one event each.
LEMMA ViewFacts ==
    ASSUME IInv, NEW p \in Procs, pc[p] # "rename_copy"
    PROVE  /\ View(p) \in Database
           /\ Whole(View(p))
           /\ \A r \in Rows : View(p).events[r] <= 1
           /\ ~View(p).copied => View(p).copy = {}
BY ViewTyped, ViewWhole DEF Whole, IInv

-----------------------------------------------------------------------------
(* The steps of the bootstrap. *)

\* get_db outside the bootstrap itself: the lock, the lookup of the ledger, the end.
LEMMA LockSteps ==
    ASSUME IInv, NEW p \in Procs, Lock(p) \/ FindLedger(p) \/ Retry(p) \/ Leave(p)
    PROVE  IInv'
<1>1. writer # p /\ todo[p] \in SUBSET Migrations /\ pc[p] # "rename_copy"
  BY WriterIsListed
     DEF Listed, RebuildLabels, Lock, FindLedger, Retry, Leave, At, IInv, TypeOK
<1>2. PICK label \in {"ledger", "pending", "create_ledger", "start", "done"} :
          Moves(p, label, todo[p]) /\ UNCHANGED <<disk, work, writer>>
  BY ProcsAssumption DEF Lock, FindLedger, Retry, Leave, Moves, Goto, IInv, TypeOK
<1>3. Position(p)'
  BY <1>2, Arrival DEF Position, Listed, RebuildLabels, IInv
<1> QED
  BY <1>1, <1>2, <1>3, QuietStep DEF Labels, Resting

\* CREATE TABLE schema_migrations, in no transaction.
LEMMA CreateLedgerStep ==
    ASSUME IInv, NEW p \in Procs, CreateLedger(p)
    PROVE  IInv'
<1> DEFINE d == [disk EXCEPT !.ledgered = TRUE]
<1>1. writer # p /\ View(p) = disk /\ pc[p] # "rename_copy" /\ todo[p] \in SUBSET Migrations
  BY WriterIsListed DEF Listed, RebuildLabels, CreateLedger, At, IInv, TypeOK
<1>2. d \in Database /\ Extends(disk, d) /\ d.ledger = disk.ledger
  BY DEF IInv, TypeOK, Database, Extends
<1>3. Whole(d)
  BY <1>2, ExtendsWhole DEF IInv, TypeOK, Database, Whole
<1>4. Moves(p, "pending", todo[p]) /\ Ddl(p, d)
  BY DEF CreateLedger, Moves, Goto, IInv, TypeOK
<1>5. Position(p)'
  BY <1>4, Arrival DEF Position, Listed, RebuildLabels, IInv
<1> QED
  BY <1>1, <1>2, <1>3, <1>4, <1>5, DdlStep DEF Labels

\* The list of missing migrations; an empty one means that all are on disk.
LEMMA ListPendingStep ==
    ASSUME IInv, NEW p \in Procs, ListPending(p)
    PROVE  IInv'
<1> DEFINE missing == Migrations \ disk.ledger
<1>1. writer # p /\ View(p) = disk /\ pc[p] # "rename_copy"
  BY WriterIsListed DEF Listed, RebuildLabels, ListPending, At
<1>2. View(p)' = disk /\ UNCHANGED <<disk, work, writer>>
  BY <1>1 DEF View, ListPending
<1>3. CASE missing = {}
  <2>1. Moves(p, "ready", missing)
    BY <1>3 DEF ListPending, Moves, Goto, IInv, TypeOK
  <2>2. disk'.ledger = Migrations
    BY <1>2, <1>3 DEF IInv, TypeOK, Database
  <2>3. Position(p)'
    BY <2>1, <2>2, Arrival DEF Position, Listed, RebuildLabels, IInv
  <2> QED
    BY <1>1, <1>2, <2>1, <2>3, QuietStep DEF Labels, Resting
<1>4. CASE missing # {}
  <2>1. Moves(p, "apply", missing)
    BY <1>4 DEF ListPending, Moves, Goto, IInv, TypeOK
  <2>2. Position(p)'
    BY <1>2, <2>1, ArrivalApply DEF IInv
  <2> QED
    BY <1>1, <1>2, <2>1, <2>2, QuietStep DEF Labels, Listed
<1> QED
  BY <1>3, <1>4

\* The INSERT into the ledger, after the migration it records.
LEMMA RecordStep ==
    ASSUME IInv, NEW p \in Procs, Record(p)
    PROVE  IInv'
<1>1. PICK m \in Migrations :
          /\ pc[p] = "record" /\ Doing(p, m)
          /\ Dml(p, [View(p) EXCEPT !.ledger = @ \cup {m}])
          /\ todo' = [todo EXCEPT ![p] = @ \ {m}]
          /\ Goto(p, IF todo[p] = {m} THEN "commit_ledger" ELSE "apply")
          /\ crashes' = crashes
  BY DEF Record, At
<1> DEFINE d == [View(p) EXCEPT !.ledger = @ \cup {m}]
           label == IF todo[p] = {m} THEN "commit_ledger" ELSE "apply"
<1>2. pc[p] \in Listed /\ pc[p] # "rename_copy"
  BY <1>1 DEF Listed
<1>3. View(p) \in Database /\ Whole(View(p))
  BY <1>2, ViewFacts
<1>4. d \in Database /\ Extends(View(p), d) /\ d.ledger = View(p).ledger \cup {m}
  BY <1>3 DEF Database, Extends
<1>5. Applied(View(p), m)
  BY <1>1 DEF IInv, Position
<1>6. m >= Rebuild => View(p).keyed
  <2>1. CASE m = Rebuild
    BY <2>1, <1>5 DEF Applied
  <2>2. CASE m > Rebuild
    BY <2>2, <1>1, <1>2, KeyedAfterRebuild
  <2> QED
    BY <2>1, <2>2 DEF Rebuild, Migrations
<1>7. Whole(d)
  <2>1. \A n \in d.ledger : Applied(d, n)
    BY <1>3, <1>4, <1>5, ExtendsApplied DEF Whole, Database
  <2>2. \A n \in d.ledger : n >= Rebuild => d.keyed
    BY <1>3, <1>4, <1>6 DEF Whole, Database
  <2> QED
    BY <1>3, <2>1, <2>2 DEF Whole, Database
<1>8. Moves(p, label, todo[p] \ {m}) /\ todo[p] \ {m} \in SUBSET Migrations
  BY <1>1 DEF Moves, Goto, IInv, TypeOK
<1>9. View(p)' = d /\ writer' = p
  BY <1>1, <1>4, NewView DEF Dml
<1>10. \A n \in Migrations \ (todo[p] \ {m}) : n \in d.ledger
  BY <1>2, <1>4 DEF IInv, Position
<1>11. Position(p)'
  <2>1. pc'[p] = label /\ todo'[p] = todo[p] \ {m}
    BY <1>8, Arrival DEF IInv
  <2> QED
    BY <2>1, <1>9, <1>10 DEF Position, RebuildLabels
<1> QED
  BY <1>1, <1>2, <1>4, <1>7, <1>8, <1>11, DmlStep DEF Listed

\* The last commit of bootstrap_schema.
LEMMA CommitLedgerStep ==
    ASSUME IInv, NEW p \in Procs, CommitLedger(p)
    PROVE  IInv'
<1>1. pc[p] = "commit_ledger" /\ pc[p] # "rename_copy" /\ Commit(p)
  BY DEF CommitLedger, At
<1>2. todo[p] = {} /\ \A m \in Migrations : m \in View(p).ledger
  BY <1>1 DEF IInv, Position, Listed
<1>3. View(p).keyed
  BY <1>1, <1>2, ViewWhole DEF Whole, Rebuild, Migrations
<1>4. disk'.ledger = Migrations
  BY <1>1, <1>2, ViewFacts DEF Commit, Database
<1>5. Moves(p, "ready", todo[p]) /\ todo[p] \in SUBSET Migrations
  BY DEF CommitLedger, Moves, Goto, IInv, TypeOK
<1>6. Position(p)'
  BY <1>4, <1>5, Arrival DEF Position, Listed, RebuildLabels, IInv
<1> QED
  BY <1>1, <1>3, <1>5, <1>6, CommitStep DEF Labels, Resting

\* A migration that is one DDL statement, or was already there.
LEMMA DdlMigrationStep ==
    ASSUME IInv, NEW p \in Procs, pc[p] = "apply", NEW m \in Migrations, Doing(p, m),
           NEW d \in Database, Ddl(p, d), Extends(View(p), d), Whole(d),
           d.ledger = View(p).ledger, Applied(d, m),
           NEW label \in {"record", "commit_apply"}, Moves(p, label, todo[p]),
           label = "commit_apply" => d.keyed
    PROVE  IInv'
<1>1. View(p)' = d
  BY NewView
<1>2. \A n \in Migrations \ todo[p] : n \in d.ledger
  BY DEF IInv, Position, Listed
<1>3. Position(p)'
  BY <1>1, <1>2, ArrivalDone DEF IInv
<1>4. todo[p] \in SUBSET Migrations
  BY DEF IInv, TypeOK
<1> QED
  BY <1>3, <1>4, DdlStep DEF Labels, Listed

\* A migration that finds its work done.
LEMMA QuietMigrationStep ==
    ASSUME IInv, NEW p \in Procs, pc[p] = "apply", NEW m \in Migrations, Doing(p, m),
           UNCHANGED <<disk, work, writer>>, Applied(View(p), m),
           NEW label \in {"record", "commit_apply"}, Moves(p, label, todo[p]),
           label = "commit_apply" => View(p).keyed
    PROVE  IInv'
<1>1. View(p)' = View(p)
  BY DEF View
<1>2. \A n \in Migrations \ todo[p] : n \in View(p).ledger
  BY DEF IInv, Position, Listed
<1>3. Position(p)'
  BY <1>1, <1>2, ArrivalDone DEF IInv
<1>4. todo[p] \in SUBSET Migrations
  BY DEF IInv, TypeOK
<1> QED
  BY <1>3, <1>4, QuietStep DEF Labels, Listed

\* 001, one CREATE TABLE.
LEMMA CreateTableStep ==
    ASSUME IInv, NEW p \in Procs, CreateTable(p)
    PROVE  IInv'
<1> DEFINE t == IF "holdings" \notin View(p).tables THEN "holdings" ELSE "holding_events"
           d == [View(p) EXCEPT !.tables = @ \cup {t},
                                !.columns = @ \cup ColumnsOf(t),
                                !.keyed = IF t = "holdings" THEN TRUE ELSE @]
<1>1. pc[p] = "apply" /\ Doing(p, Core) /\ Ddl(p, d) /\ UNCHANGED <<pc, todo, crashes>>
  BY DEF CreateTable, At
<1>2. /\ View(p) \in Database /\ Whole(View(p))
      /\ \A r \in Rows : View(p).events[r] <= 1
      /\ ~View(p).copied => View(p).copy = {}
  BY <1>1, ViewFacts
<1>3. d \in Database /\ Extends(View(p), d) /\ d.ledger = View(p).ledger
      /\ d.indexed = View(p).indexed /\ d.events = View(p).events
      /\ d.copied = View(p).copied /\ d.copy = View(p).copy
  BY <1>2 DEF Database, Extends, ColumnsOf
<1> HIDE DEF d
<1>4. Whole(d)
  BY <1>2, <1>3, ExtendsWhole
<1>5. Moves(p, "apply", todo[p]) /\ todo[p] \in SUBSET Migrations
  BY <1>1 DEF Moves, IInv, TypeOK
<1>6. View(p)' = d
  BY <1>1, <1>3, NewView
<1>7. \A n \in Migrations \ todo[p] : n \in d.ledger
  BY <1>1, <1>3 DEF IInv, Position, Listed
<1>8. Position(p)'
  BY <1>5, <1>6, <1>7, ArrivalApply DEF IInv
<1> QED
  BY <1>1, <1>3, <1>4, <1>5, <1>8, DdlStep DEF Labels, Listed

\* 001, all tables there.
LEMMA CoreDoneStep ==
    ASSUME IInv, NEW p \in Procs, CoreDone(p)
    PROVE  IInv'
<1>1. Applied(View(p), Core) /\ Core \in Migrations
  BY DEF CoreDone, Applied, Core, Columns, Rebuild, Indices, Backfill, LegacyAlerts,
         Thesis, Migrations
<1>2. Moves(p, "record", todo[p])
  BY DEF CoreDone, Moves, Goto, IInv, TypeOK
<1> QED
  BY <1>1, <1>2, QuietMigrationStep DEF CoreDone, At

\* A column migration, the column there or not.
LEMMA AddColumnStep ==
    ASSUME IInv, NEW p \in Procs, AddColumn(p)
    PROVE  IInv'
<1>1. PICK c \in Columns :
          /\ pc[p] = "apply" /\ Doing(p, c)
          /\ IF c \in View(p).columns THEN UNCHANGED <<disk, work, writer>>
             ELSE Ddl(p, [View(p) EXCEPT !.columns = @ \cup {c}])
  BY DEF AddColumn, At
<1>2. Moves(p, "record", todo[p])
  BY DEF AddColumn, Moves, Goto, IInv, TypeOK
<1>3. c \in Migrations
  BY DEF Columns, Migrations
<1>4. \A d : c \in d.columns => Applied(d, c)
  BY DEF Applied, Core, Columns, Rebuild, Indices, Backfill, LegacyAlerts, Thesis
<1>5. CASE c \in View(p).columns
  BY <1>1, <1>2, <1>3, <1>4, <1>5, QuietMigrationStep
<1>6. CASE c \notin View(p).columns
  <2> DEFINE d == [View(p) EXCEPT !.columns = @ \cup {c}]
  <2>1. /\ View(p) \in Database /\ Whole(View(p))
        /\ \A r \in Rows : View(p).events[r] <= 1
        /\ ~View(p).copied => View(p).copy = {}
    BY <1>1, ViewFacts
  <2>2. d \in Database /\ Extends(View(p), d) /\ d.ledger = View(p).ledger
        /\ d.indexed = View(p).indexed /\ d.events = View(p).events
        /\ d.copied = View(p).copied /\ d.copy = View(p).copy /\ c \in d.columns
    BY <2>1 DEF Database, Extends
  <2>3. Whole(d)
    BY <2>1, <2>2, ExtendsWhole
  <2> QED
    BY <1>1, <1>2, <1>3, <1>4, <1>6, <2>2, <2>3, DdlMigrationStep
<1> QED
  BY <1>5, <1>6

\* 034.
LEMMA CreateThesisStep ==
    ASSUME IInv, NEW p \in Procs, CreateThesis(p)
    PROVE  IInv'
<1> DEFINE d == [View(p) EXCEPT !.tables = @ \cup {"holding_thesis_versions"}]
<1>1. pc[p] = "apply" /\ Doing(p, Thesis) /\ Ddl(p, d) /\ Moves(p, "record", todo[p])
  BY DEF CreateThesis, At, Moves, Goto, IInv, TypeOK
<1>2. /\ View(p) \in Database /\ Whole(View(p))
      /\ \A r \in Rows : View(p).events[r] <= 1
      /\ ~View(p).copied => View(p).copy = {}
  BY <1>1, ViewFacts
<1>3. d \in Database /\ Extends(View(p), d) /\ d.ledger = View(p).ledger
      /\ d.indexed = View(p).indexed /\ d.events = View(p).events
      /\ d.copied = View(p).copied /\ d.copy = View(p).copy
      /\ "holding_thesis_versions" \in d.tables
  BY <1>2 DEF Database, Extends
<1>4. Whole(d)
  BY <1>2, <1>3, ExtendsWhole
<1>5. Thesis \in Migrations /\ Applied(d, Thesis)
  BY <1>3 DEF Applied, Core, Columns, Rebuild, Indices, Backfill, LegacyAlerts, Thesis,
              Migrations
<1> QED
  BY <1>1, <1>3, <1>4, <1>5, DdlMigrationStep

\* 024.
LEMMA CreateIndicesStep ==
    ASSUME IInv, NEW p \in Procs, CreateIndices(p)
    PROVE  IInv'
<1>1. pc[p] = "apply" /\ Doing(p, Indices)
  BY DEF CreateIndices, At
<1>2. Indices \in Migrations /\ Indices > Rebuild
  BY DEF Indices, Rebuild, Migrations
<1>3. \A e : e.indexed => Applied(e, Indices)
  BY DEF Applied, Core, Columns, Rebuild, Indices, Backfill, LegacyAlerts, Thesis
<1>4. View(p).keyed
  BY <1>1, <1>2, KeyedAfterRebuild DEF Listed
<1>5. CASE View(p).indexed
  <2>1. Moves(p, "record", todo[p]) /\ UNCHANGED <<disk, work, writer>>
    BY <1>5 DEF CreateIndices, Moves, Goto, IInv, TypeOK
  <2> QED
    BY <1>1, <1>2, <1>3, <1>5, <2>1, QuietMigrationStep
<1>6. CASE ~View(p).indexed
  <2> DEFINE d == [View(p) EXCEPT !.indexed = TRUE]
  <2>1. Moves(p, "commit_apply", todo[p]) /\ Ddl(p, d)
    BY <1>6 DEF CreateIndices, Moves, Goto, IInv, TypeOK
  <2>2. View(p) \in Database /\ Whole(View(p))
    BY <1>1, ViewFacts
  <2>3. d \in Database /\ Extends(View(p), d) /\ d.ledger = View(p).ledger
        /\ d.indexed /\ d.keyed /\ d.events = View(p).events
        /\ d.copied = View(p).copied /\ d.copy = View(p).copy
    BY <2>2, <1>4 DEF Database, Extends
  <2>4. \A n \in d.ledger : Applied(d, n)
    BY <2>2, <2>3, ExtendsApplied DEF Whole, Database
  <2>5. Whole(d)
    BY <2>2, <2>3, <2>4 DEF Whole
  <2> QED
    BY <1>1, <1>2, <1>3, <2>1, <2>3, <2>5, DdlMigrationStep
<1> QED
  BY <1>5, <1>6

-----------------------------------------------------------------------------
(* The rebuild of holdings. *)

\* Whoever finds holdings without id is the writer, and nothing is on disk.
LEMMA RebuildCheckStep ==
    ASSUME IInv, NEW p \in Procs, RebuildCheck(p)
    PROVE  IInv'
<1>1. pc[p] = "apply" /\ Doing(p, Rebuild) /\ UNCHANGED <<disk, work, writer>>
  BY DEF RebuildCheck, At
<1>2. Rebuild \in Migrations /\ Core \in Migrations /\ Core < Rebuild
  BY DEF Core, Rebuild, Migrations
<1>3. CASE View(p).keyed
  <2>1. Moves(p, "record", todo[p])
    BY <1>3 DEF RebuildCheck, Moves, Goto, IInv, TypeOK
  <2>2. Applied(View(p), Rebuild)
    BY <1>3 DEF Applied, Core, Columns, Rebuild, Indices, Backfill, LegacyAlerts, Thesis
  <2> QED
    BY <1>1, <1>2, <2>1, <2>2, QuietMigrationStep
<1>4. CASE ~View(p).keyed
  <2>1. Moves(p, "drop_copy", todo[p]) /\ todo[p] \in SUBSET Migrations
    BY <1>4 DEF RebuildCheck, Moves, Goto, IInv, TypeOK
  <2>2. Core \in View(p).ledger
    BY <1>1, <1>2, RecordedBefore DEF Listed
  <2>3. writer = p /\ ~work.keyed
    BY <1>4, <2>2 DEF IInv, View
  <2>4. disk.ledger = {}
    BY <1>1, <1>4, ViewWhole DEF IInv, Extends
  <2>5. \A n \in Migrations \ todo[p] : n \in View(p).ledger
    BY <1>1 DEF IInv, Position, Listed
  <2>6. Position(p)'
    <3>1. pc'[p] = "drop_copy" /\ todo'[p] = todo[p]
      BY <2>1, Arrival DEF IInv
    <3> QED
      BY <1>1, <2>3, <2>4, <2>5, <3>1 DEF Position, View, Doing
  <2> QED
    BY <1>1, <2>1, <2>6, QuietStep DEF Labels, Listed, RebuildLabels
<1> QED
  BY <1>3, <1>4

\* What holds of a process at one of the rebuild labels.
LEMMA AtRebuild ==
    ASSUME IInv, NEW p \in Procs, pc[p] \in RebuildLabels
    PROVE  /\ writer = p /\ Doing(p, Rebuild) /\ View(p) = work
           /\ ~work.keyed /\ disk.ledger = {}
           /\ work \in Database /\ todo[p] \in SUBSET Migrations
           /\ \A n \in Migrations \ todo[p] : n \in work.ledger
BY DEF IInv, Position, TypeOK, View, Listed

\* A statement of the rebuild, up to the copying of the rows.
LEMMA CopyStep ==
    ASSUME IInv, NEW p \in Procs, pc[p] \in RebuildLabels, pc[p] # "rename_copy",
           NEW d \in Database, Ddl(p, d) \/ Dml(p, d),
           d = [work EXCEPT !.copied = d.copied, !.copy = d.copy],
           ~d.copied => d.copy = {},
           NEW label \in {"create_copy", "copy_rows", "drop_holdings"},
           label = "copy_rows" => d.copied /\ d.copy = {},
           label = "drop_holdings" => d.copied /\ d.copy = d.rows,
           Moves(p, label, todo[p])
    PROVE  IInv'
<1>1. /\ writer = p /\ Doing(p, Rebuild) /\ View(p) = work
      /\ ~work.keyed /\ disk.ledger = {}
      /\ work \in Database /\ todo[p] \in SUBSET Migrations
      /\ \A n \in Migrations \ todo[p] : n \in work.ledger
  BY AtRebuild
<1>2. Whole(work) /\ \A r \in Rows : work.events[r] <= 1
  BY <1>1, ViewFacts
<1>3. Extends(work, d) /\ d.ledger = work.ledger /\ d.indexed = work.indexed
      /\ d.events = work.events /\ d.keyed = work.keyed
  BY <1>1 DEF Extends, Database
<1>4. Whole(d)
  BY <1>1, <1>2, <1>3, ExtendsWhole
<1>5. work' = d /\ writer' = p /\ disk' = disk
  BY <1>1, ProcsAssumption DEF Ddl, Dml
<1>6. pc'[p] = label /\ todo'[p] = todo[p]
  BY Arrival DEF IInv
<1>7. Position(p)'
  BY <1>1, <1>3, <1>5, <1>6 DEF Position, View, Doing
<1> QED
  BY <1>1, <1>3, <1>4, <1>7, DdlStep, DmlStep DEF Labels, Listed, RebuildLabels

\* 023 up to the copy of the rows.
LEMMA CopySteps ==
    ASSUME IInv, NEW p \in Procs, DropCopy(p) \/ CreateCopy(p) \/ CopyRows(p)
    PROVE  IInv'
<1>1. pc[p] \in RebuildLabels /\ pc[p] # "rename_copy"
  BY DEF DropCopy, CreateCopy, CopyRows, At, RebuildLabels
<1>2. View(p) = work /\ work \in Database
  BY <1>1, AtRebuild
<1>3. ~work.copied => work.copy = {}
  BY <1>1, <1>2, ViewFacts
<1>4. CASE DropCopy(p)
  <2> DEFINE d == [work EXCEPT !.copied = FALSE, !.copy = {}]
  <2>1. Ddl(p, d) /\ Moves(p, "create_copy", todo[p])
    BY <1>2, <1>4 DEF DropCopy, Moves, Goto, IInv, TypeOK
  <2>2. d \in Database /\ d.copy = {} /\ ~d.copied
        /\ d = [work EXCEPT !.copied = d.copied, !.copy = d.copy]
    BY <1>2 DEF Database
  <2> HIDE DEF d
  <2> QED
    BY <1>1, <2>1, <2>2, CopyStep
<1>5. CASE CreateCopy(p)
  <2> DEFINE d == [work EXCEPT !.copied = TRUE]
  <2>1. Ddl(p, d) /\ Moves(p, "copy_rows", todo[p])
    BY <1>2, <1>5 DEF CreateCopy, Moves, Goto, IInv, TypeOK
  <2>2. work.copy = {}
    BY <1>2, <1>3, <1>5 DEF CreateCopy
  <2>3. d \in Database /\ d.copy = {} /\ d.copied
        /\ d = [work EXCEPT !.copied = d.copied, !.copy = d.copy]
    BY <1>2, <2>2 DEF Database
  <2> HIDE DEF d
  <2> QED
    BY <1>1, <2>1, <2>3, CopyStep
<1>6. CASE CopyRows(p)
  <2> DEFINE d == [work EXCEPT !.copy = @ \cup work.rows]
  <2>1. Dml(p, d) /\ Moves(p, "drop_holdings", todo[p])
    BY <1>2, <1>6 DEF CopyRows, Moves, Goto, IInv, TypeOK
  <2>2. work.copied /\ work.copy = {}
    BY <1>6 DEF CopyRows, At, IInv, Position
  <2>3. d \in Database /\ d.copy = d.rows /\ d.copied
        /\ d = [work EXCEPT !.copied = d.copied, !.copy = d.copy]
    BY <1>2, <2>2 DEF Database
  <2> HIDE DEF d
  <2> QED
    BY <1>1, <2>1, <2>3, CopyStep
<1> QED
  BY <1>4, <1>5, <1>6

\* The DROP TABLE: the copy has all the rows that are on disk.
LEMMA DropHoldingsStep ==
    ASSUME IInv, NEW p \in Procs, DropHoldings(p)
    PROVE  IInv'
<1> DEFINE e == [work EXCEPT !.tables = @ \ {"holdings"}, !.rows = {},
                             !.columns = @ \ HoldingsColumns, !.indexed = FALSE]
<1>1. pc[p] = "drop_holdings" /\ pc[p] \in RebuildLabels
  BY DEF DropHoldings, At, RebuildLabels
<1>2. /\ writer = p /\ Doing(p, Rebuild) /\ View(p) = work
      /\ ~work.keyed /\ disk.ledger = {}
      /\ work \in Database /\ todo[p] \in SUBSET Migrations
      /\ \A n \in Migrations \ todo[p] : n \in work.ledger
  BY <1>1, AtRebuild
<1>3. Ddl(p, e) /\ Moves(p, "rename_copy", todo[p])
  BY <1>2 DEF DropHoldings, Moves, Goto, IInv, TypeOK
<1>4. work.copied /\ work.copy = work.rows
  BY <1>1 DEF IInv, Position
<1>5. Extends(disk, work) /\ Whole(work) /\ Whole(disk)
  BY <1>1, <1>2, ViewWhole DEF IInv
<1>6. work' = e /\ writer' = p /\ disk' = disk
  BY <1>2, <1>3, ProcsAssumption DEF Ddl
<1>7. e \in Database
  BY <1>2 DEF Database
<1>8. Dropped(disk, e)
  <2>1. /\ e.rows = {} /\ e.copy = work.rows /\ e.ledger = work.ledger /\ e.copied
        /\ e.keyed = work.keyed /\ ~e.indexed /\ e.tables = work.tables \ {"holdings"}
        /\ e.columns = work.columns \ HoldingsColumns /\ e.filled = work.filled
        /\ e.alerts = work.alerts /\ e.events = work.events
    BY <1>2, <1>4 DEF Database
  <2>2. \A m \in work.ledger : m < Rebuild
    BY <1>2, <1>5 DEF Whole, Database, Rebuild, Migrations
  <2>3. Core \in work.ledger => "holding_events" \in work.tables
    BY <1>5 DEF Whole, Applied, CoreTables
  <2>4. \A m \in work.ledger \cap Columns : m \in work.columns
    BY <1>5 DEF Whole, Applied
  <2>5. ~disk.keyed /\ ~disk.indexed /\ disk.rows = work.rows
    BY <1>2, <1>5 DEF Whole, Extends
  <2> HIDE DEF e
  <2> QED
    BY <1>2, <1>5, <2>1, <2>2, <2>3, <2>4, <2>5 DEF Dropped, Extends, Whole
<1>9. pc'[p] = "rename_copy" /\ todo'[p] = todo[p]
  BY <1>3, Arrival DEF IInv
<1>10. e.ledger = work.ledger /\ e.keyed = work.keyed
  BY <1>2 DEF Database
<1> HIDE DEF e
<1>11. TypeOK'
  BY <1>2, <1>3, <1>6, <1>7 DEF IInv, TypeOK, Moves, Labels
<1>12. Writing'
  BY <1>6, <1>8, <1>9, ProcsAssumption DEF Writing, Listed, RebuildLabels
<1>13. Position(p)'
  BY <1>2, <1>6, <1>9, <1>10 DEF Position, View, Doing
<1>14. ASSUME NEW q \in Procs, q # p PROVE Position(q)'
  <2>1. pc'[q] = pc[q] /\ todo'[q] = todo[q]
    BY <1>3, <1>14 DEF Moves, IInv, TypeOK
  <2> QED
    BY <1>2, <1>6, <1>11, <1>14, <2>1, OthersKeep DEF IInv
<1>15. Whole(disk)' /\ (disk.ledger # {} => disk.keyed)'
  BY <1>6 DEF IInv, Whole, Applied
<1> QED
  BY <1>11, <1>12, <1>13, <1>14, <1>15 DEF IInv

\* The renaming puts the rows back, with an id.
LEMMA RenameCopyStep ==
    ASSUME IInv, NEW p \in Procs, RenameCopy(p)
    PROVE  IInv'
<1> DEFINE d == [work EXCEPT !.tables = @ \cup {"holdings"}, !.rows = work.copy,
                             !.columns = @ \cup HoldingsColumns,
                             !.keyed = TRUE, !.copied = FALSE, !.copy = {}]
<1>1. pc[p] = "rename_copy" /\ pc[p] \in RebuildLabels
  BY DEF RenameCopy, At, RebuildLabels
<1>2. /\ writer = p /\ Doing(p, Rebuild) /\ View(p) = work
      /\ ~work.keyed /\ disk.ledger = {}
      /\ work \in Database /\ todo[p] \in SUBSET Migrations
      /\ \A n \in Migrations \ todo[p] : n \in work.ledger
  BY <1>1, AtRebuild
<1>3. Ddl(p, d) /\ Moves(p, "commit_apply", todo[p])
  BY <1>2 DEF RenameCopy, Moves, Goto, IInv, TypeOK
<1>4. Dropped(disk, work)
  BY <1>1, <1>2, ProcsAssumption DEF IInv, Writing
<1>5. work' = d /\ writer' = p /\ disk' = disk
  BY <1>2, <1>3, ProcsAssumption DEF Ddl
<1>6. d \in Database
  BY <1>2 DEF Database
<1>7. /\ d.rows = work.copy /\ d.copy = {} /\ d.ledger = work.ledger /\ d.keyed
      /\ d.indexed = work.indexed /\ d.tables = work.tables \cup {"holdings"}
      /\ d.columns = work.columns \cup HoldingsColumns /\ d.filled = work.filled
      /\ d.alerts = work.alerts /\ d.events = work.events
  BY <1>2 DEF Database
<1> HIDE DEF d
<1>8. Extends(disk, d)
  BY <1>4, <1>7 DEF Dropped, Extends
<1>9. Whole(d)
  <2>1. ASSUME NEW m \in d.ledger PROVE Applied(d, m) /\ (m >= Rebuild => d.keyed)
    <3>1. m \in Migrations /\ m < Rebuild
      BY <1>4, <1>6, <1>7 DEF Dropped, Database
    <3>2. m = Core => CoreTables \subseteq d.tables
      BY <1>4, <1>7 DEF Dropped, CoreTables
    <3>3. m \in Columns => m \in d.columns
      BY <1>4, <1>7 DEF Dropped
    <3> QED
      BY <1>7, <3>1, <3>2, <3>3
         DEF Applied, Rebuild, Indices, Backfill, LegacyAlerts, Thesis, Migrations
  <2> QED
    BY <1>4, <1>7, <2>1 DEF Whole, Dropped
<1>10. Rebuild \in Migrations /\ Applied(d, Rebuild)
  BY <1>7 DEF Applied, Core, Columns, Rebuild, Indices, Backfill, LegacyAlerts, Thesis,
              Migrations
<1>11. View(p)' = d
  BY <1>5 DEF View
<1>12. Position(p)'
  BY <1>2, <1>3, <1>7, <1>10, <1>11, ArrivalDone DEF IInv
<1>13. pc'[p] = "commit_apply" /\ todo'[p] = todo[p]
  BY <1>3, Arrival DEF IInv
<1>14. TypeOK'
  BY <1>2, <1>3, <1>5, <1>6 DEF IInv, TypeOK, Moves, Labels
<1>15. Writing'
  BY <1>5, <1>8, <1>9, <1>13, ProcsAssumption DEF Writing, Listed
<1>16. ASSUME NEW q \in Procs, q # p PROVE Position(q)'
  <2>1. pc'[q] = pc[q] /\ todo'[q] = todo[q]
    BY <1>3, <1>16 DEF Moves, IInv, TypeOK
  <2> QED
    BY <1>2, <1>5, <1>14, <1>16, <2>1, OthersKeep DEF IInv
<1>17. Whole(disk)' /\ (disk.ledger # {} => disk.keyed)'
  BY <1>5 DEF IInv, Whole, Applied
<1> QED
  BY <1>12, <1>14, <1>15, <1>16, <1>17 DEF IInv

-----------------------------------------------------------------------------
(* The backfills, the commits, failures and commands. *)

\* 025, the UPDATEs.
LEMMA FillMetadataStep ==
    ASSUME IInv, NEW p \in Procs, FillMetadata(p)
    PROVE  IInv'
<1> DEFINE d == [View(p) EXCEPT !.filled = @ \cup View(p).rows]
<1>1. pc[p] = "apply" /\ Doing(p, Backfill) /\ Dml(p, d) /\ Moves(p, "infer", todo[p])
      /\ todo[p] \in SUBSET Migrations
  BY DEF FillMetadata, At, Moves, Goto, IInv, TypeOK
<1>2. /\ View(p) \in Database /\ Whole(View(p))
      /\ \A r \in Rows : View(p).events[r] <= 1
      /\ ~View(p).copied => View(p).copy = {}
  BY <1>1, ViewFacts
<1>3. d \in Database /\ Extends(View(p), d) /\ d.ledger = View(p).ledger
      /\ d.indexed = View(p).indexed /\ d.events = View(p).events
      /\ d.copied = View(p).copied /\ d.copy = View(p).copy /\ d.rows \subseteq d.filled
  BY <1>2 DEF Database, Extends
<1> HIDE DEF d
<1>4. Whole(d)
  BY <1>2, <1>3, ExtendsWhole
<1>5. work' = d /\ writer' = p
  BY <1>1 DEF Dml
<1>6. pc'[p] = "infer" /\ todo'[p] = todo[p]
  BY <1>1, Arrival DEF IInv
<1>7. \A n \in Migrations \ todo[p] : n \in d.ledger
  BY <1>1, <1>3 DEF IInv, Position, Listed
<1>8. Position(p)'
  BY <1>1, <1>3, <1>5, <1>6, <1>7 DEF Position, View, Doing, RebuildLabels
<1> QED
  BY <1>1, <1>3, <1>4, <1>8, DmlStep DEF Listed

\* A backfill that ends with a commit: rows and ledger stay.
LEMMA DmlMigrationStep ==
    ASSUME IInv, NEW p \in Procs, pc[p] \in {"apply", "infer"},
           NEW m \in Migrations, Doing(p, m), m > Rebuild,
           NEW d \in Database, Dml(p, d), Extends(View(p), d), Whole(d),
           d.ledger = View(p).ledger, Applied(d, m),
           Moves(p, "commit_apply", todo[p])
    PROVE  IInv'
<1>1. View(p)' = d
  BY NewView
<1>2. \A n \in Migrations \ todo[p] : n \in d.ledger
  BY DEF IInv, Position, Listed
<1>3. d.keyed
  BY KeyedAfterRebuild DEF Extends, Listed
<1>4. Position(p)'
  BY <1>1, <1>2, <1>3, ArrivalDone DEF IInv
<1>5. todo[p] \in SUBSET Migrations
  BY DEF IInv, TypeOK
<1> QED
  BY <1>4, <1>5, DmlStep DEF Listed

\* 025, the inferred events: one for each row that has none.
LEMMA InferEventsStep ==
    ASSUME IInv, NEW p \in Procs, InferEvents(p)
    PROVE  IInv'
<1> DEFINE bare == {r \in View(p).rows : View(p).events[r] = 0}
           d == [View(p) EXCEPT !.events =
                    [r \in Rows |-> IF r \in bare THEN 1 ELSE View(p).events[r]]]
<1>1. pc[p] = "infer" /\ Dml(p, d) /\ Moves(p, "commit_apply", todo[p])
  BY DEF InferEvents, At, Moves, Goto, IInv, TypeOK
<1>2. /\ View(p) \in Database /\ Whole(View(p))
      /\ \A r \in Rows : View(p).events[r] <= 1
      /\ ~View(p).copied => View(p).copy = {}
  BY <1>1, ViewFacts
<1>3. Doing(p, Backfill) /\ View(p).rows \subseteq View(p).filled
  BY <1>1 DEF IInv, Position, View
<1>4. Backfill \in Migrations /\ Backfill > Rebuild
  BY DEF Backfill, Rebuild, Migrations
<1>5. View(p).rows \subseteq Rows
      /\ \A r \in Rows : View(p).events[r] = 0 \/ View(p).events[r] = 1
  BY <1>2 DEF Database
<1>6. d \in Database /\ d.ledger = View(p).ledger
      /\ d.indexed = View(p).indexed /\ d.rows = View(p).rows
      /\ d.copied = View(p).copied /\ d.copy = View(p).copy
      /\ d.filled = View(p).filled
      /\ \A r \in Rows : d.events[r] = IF r \in bare THEN 1 ELSE View(p).events[r]
  BY <1>2 DEF Database
<1>7. Extends(View(p), d)
  <2>1. d.tables = View(p).tables /\ d.columns = View(p).columns /\ d.keyed = View(p).keyed
        /\ d.alerts = View(p).alerts
    BY <1>2 DEF Database
  <2> HIDE DEF d
  <2> QED
    BY <1>6, <2>1 DEF Extends
<1> HIDE DEF d
<1>8. (\A r \in Rows : d.events[r] <= 1) /\ \A r \in d.rows : d.events[r] > 0
  BY <1>5, <1>6
<1>9. Whole(d)
  BY <1>2, <1>6, <1>7, <1>8, ExtendsWhole
<1>10. Applied(d, Backfill)
  BY <1>3, <1>6, <1>8
     DEF Applied, Core, Columns, Rebuild, Indices, Backfill, LegacyAlerts, Thesis
<1> QED
  BY <1>1, <1>3, <1>4, <1>6, <1>7, <1>9, <1>10, DmlMigrationStep

\* 026.
LEMMA CarryAlertsStep ==
    ASSUME IInv, NEW p \in Procs, CarryAlerts(p)
    PROVE  IInv'
<1> DEFINE d == [View(p) EXCEPT !.alerts = @ \cup (View(p).rows \cap Flagged)]
<1>1. pc[p] = "apply" /\ Doing(p, LegacyAlerts) /\ Moves(p, "commit_apply", todo[p])
  BY DEF CarryAlerts, At, Moves, Goto, IInv, TypeOK
<1>2. LegacyAlerts \in Migrations /\ LegacyAlerts > Rebuild
  BY DEF LegacyAlerts, Rebuild, Migrations
<1>3. \A e : e.rows \cap Flagged \subseteq e.alerts => Applied(e, LegacyAlerts)
  BY DEF Applied, Core, Columns, Rebuild, Indices, Backfill, LegacyAlerts, Thesis
<1>4. /\ View(p) \in Database /\ Whole(View(p))
      /\ \A r \in Rows : View(p).events[r] <= 1
      /\ ~View(p).copied => View(p).copy = {}
  BY <1>1, ViewFacts
<1>5. CASE View(p).rows \cap Flagged = {}
  <2>1. UNCHANGED <<disk, work, writer>>
    BY <1>5 DEF CarryAlerts
  <2>2. View(p).keyed
    BY <1>1, <1>2, KeyedAfterRebuild DEF Listed
  <2>3. Applied(View(p), LegacyAlerts)
    BY <1>3, <1>5
  <2> QED
    BY <1>1, <1>2, <2>1, <2>2, <2>3, QuietMigrationStep
<1>6. CASE View(p).rows \cap Flagged # {}
  <2>1. Dml(p, d)
    BY <1>6 DEF CarryAlerts
  <2>2. d \in Database /\ Extends(View(p), d) /\ d.ledger = View(p).ledger
        /\ d.indexed = View(p).indexed /\ d.events = View(p).events
        /\ d.copied = View(p).copied /\ d.copy = View(p).copy
        /\ d.rows \cap Flagged \subseteq d.alerts
    BY <1>4, RowsAssumption DEF Database, Extends, Rows
  <2> HIDE DEF d
  <2>3. Whole(d)
    BY <1>4, <2>2, ExtendsWhole
  <2> QED
    BY <1>1, <1>2, <1>3, <2>1, <2>2, <2>3, DmlMigrationStep
<1> QED
  BY <1>5, <1>6

\* The commit inside migrations 023 to 026.
LEMMA CommitApplyStep ==
    ASSUME IInv, NEW p \in Procs, CommitApply(p)
    PROVE  IInv'
<1>1. pc[p] = "commit_apply" /\ pc[p] # "rename_copy" /\ Commit(p)
  BY DEF CommitApply, At
<1>2. Moves(p, "record", todo[p]) /\ todo[p] \in SUBSET Migrations
  BY DEF CommitApply, Moves, Goto, IInv, TypeOK
<1>3. /\ View(p).keyed
      /\ \A n \in Migrations \ todo[p] : n \in View(p).ledger
      /\ \A m \in Migrations : Doing(p, m) => Applied(View(p), m)
  BY <1>1 DEF IInv, Position, Listed
<1>4. View(p)' = View(p)
  BY <1>1, ProcsAssumption DEF Commit, View
<1>5. pc'[p] = "record" /\ todo'[p] = todo[p]
  BY <1>2, Arrival DEF IInv
<1>6. \A m \in Migrations : Doing(p, m)' => Applied(View(p)', m)
  BY <1>3, <1>4, <1>5 DEF Doing
<1>7. Position(p)'
  BY <1>3, <1>4, <1>5, <1>6 DEF Position, RebuildLabels
<1> QED
  BY <1>1, <1>2, <1>3, <1>7, CommitStep DEF Labels

\* An error or a kill.
LEMMA FailureSteps ==
    ASSUME IInv, NEW p \in Procs, Fail(p) \/ Crash(p)
    PROVE  IInv'
<1>1. CASE Fail(p)
  <2>1. Moves(p, "failed", {}) /\ Rollback(p)
    BY <1>1 DEF Fail, Moves, Goto, IInv, TypeOK
  <2> QED
    BY <2>1, RollbackStep
<1>2. CASE Crash(p)
  <2>1. Moves(p, "start", {}) /\ Rollback(p)
    BY <1>2, ProcsAssumption DEF Crash, Moves, Goto, IInv, TypeOK
  <2> QED
    BY <2>1, RollbackStep
<1> QED
  BY <1>1, <1>2

\* A row that a command adds has its metadata and its event.
LEMMA CommandStep ==
    ASSUME IInv, NEW p \in Procs, Command(p)
    PROVE  IInv' /\ disk.rows \subseteq disk'.rows
<1>1. PICK r \in NewRows \ disk.rows :
          disk' = [disk EXCEPT !.rows = @ \cup {r}, !.filled = @ \cup {r}, !.events[r] = 1]
  BY DEF Command
<1>2. pc[p] = "ready" /\ writer = Null /\ writer' = Null /\ work' = disk'
      /\ Moves(p, "done", todo[p])
  BY DEF Command, At, Moves, Goto, IInv, TypeOK
<1>3. disk \in Database /\ Whole(disk) /\ r \in Rows
  BY <1>1 DEF IInv, TypeOK, Rows
<1>4. /\ disk'.rows = disk.rows \cup {r} /\ disk'.filled = disk.filled \cup {r}
      /\ disk'.events = [disk.events EXCEPT ![r] = 1]
      /\ disk'.ledger = disk.ledger /\ disk'.keyed = disk.keyed
      /\ disk'.indexed = disk.indexed /\ disk'.tables = disk.tables
      /\ disk'.columns = disk.columns /\ disk'.alerts = disk.alerts
      /\ disk'.copied = disk.copied /\ disk'.copy = disk.copy
      /\ disk' \in Database
  <2>1. [disk.events EXCEPT ![r] = 1] \in [Rows -> 0..2]
    BY <1>3 DEF Database
  <2>2. disk.rows \cup {r} \subseteq Rows /\ disk.filled \cup {r} \subseteq Rows
    BY <1>3 DEF Database
  <2>3. disk' = [disk EXCEPT !.rows = disk.rows \cup {r}, !.filled = disk.filled \cup {r},
                             !.events = [disk.events EXCEPT ![r] = 1]]
    BY <1>1
  <2> QED
    BY <1>3, <2>1, <2>2, <2>3 DEF Database
<1>5. /\ \A s \in Rows : disk'.events[s] = IF s = r THEN 1 ELSE disk.events[s]
      /\ disk.rows \subseteq Rows
  BY <1>3, <1>4 DEF Database
<1>6. \A m \in Migrations : Applied(disk, m) => Applied(disk', m)
  <2>1. disk'.rows \cap Flagged = disk.rows \cap Flagged
    BY <1>1, <1>4, RowsAssumption
  <2>2. (\A s \in disk.rows : s \in disk.filled /\ disk.events[s] > 0)
        => \A s \in disk'.rows : s \in disk'.filled /\ disk'.events[s] > 0
    BY <1>3, <1>4, <1>5
  <2> QED
    BY <1>4, <2>1, <2>2 DEF Applied
<1>7. Whole(disk') /\ (disk'.ledger # {} => disk'.keyed)
  BY <1>3, <1>4, <1>5, <1>6 DEF Whole, IInv, Database
<1>8. TypeOK'
  BY <1>2, <1>4 DEF IInv, TypeOK, Moves, Labels, Resting
<1>9. Writing'
  BY <1>2, ProcsAssumption DEF Writing
<1>10. ASSUME NEW q \in Procs PROVE Position(q)'
  <2>1. CASE q = p
    BY <1>2, <2>1, Arrival DEF IInv, Position, Listed, RebuildLabels
  <2>2. CASE q # p
    <3>1. pc'[q] = pc[q] /\ todo'[q] = todo[q]
      BY <1>2, <2>2 DEF Moves, IInv, TypeOK
    <3> QED
      BY <1>2, <1>4, <1>6, <1>8, <3>1, OthersKeep, ProcsAssumption DEF IInv
  <2> QED
    BY <2>1, <2>2
<1> QED
  BY <1>4, <1>7, <1>8, <1>9, <1>10 DEF IInv

-----------------------------------------------------------------------------
(* The invariant. *)

\* Databases of older releases.
LEMMA InitDatabase ==
    ASSUME Init PROVE disk \in Database /\ Whole(disk) /\ (disk.ledger # {} => disk.keyed)
<1>1. NoTables \in Database
  BY DEF NoTables, Database
<1>2. CASE disk = NoTables
  BY <1>1, <1>2 DEF NoTables, Whole
<1>3. CASE disk \in OlderThanLedger
  <2>1. PICK t \in {{"holdings"}, CoreTables}, n \in 1..(NumColumns + 1),
             keyed \in BOOLEAN, cut \in BOOLEAN :
          disk = BeforeLedger(t, n, keyed, ~keyed /\ cut)
    BY <1>3 DEF OlderThanLedger
  <2> DEFINE halfway == ~keyed /\ cut
  <2>2. t \in SUBSET {"holdings", "holding_events", "holding_thesis_versions"}
        /\ LegacyRows \in SUBSET Rows /\ halfway \in BOOLEAN
    BY DEF CoreTables, Rows
  <2>3. {c \in Columns : c <= n /\ \E u \in t : c \in ColumnsOf(u)} \in SUBSET Columns
    OBVIOUS
  <2> HIDE DEF halfway
  <2>4. disk \in Database
    BY <1>1, <2>1, <2>2, <2>3 DEF BeforeLedger, Database, halfway
  <2>5. disk.ledger = {} /\ ~disk.indexed /\ disk.copy = {}
        /\ disk.events = [r \in Rows |-> 0]
    BY <2>1 DEF BeforeLedger, NoTables
  <2> QED
    BY <2>4, <2>5 DEF Whole
<1>4. CASE disk \in OlderRelease
  <2>1. PICK late \in SUBSET (Columns \cup {Thesis}) : disk = Without(late)
    BY <1>4 DEF OlderRelease
  <2>2. /\ disk.ledger = Migrations \ late /\ disk.keyed /\ disk.indexed
        /\ disk.columns = Columns \ late /\ disk.rows = LegacyRows
        /\ disk.filled = LegacyRows /\ disk.alerts = Flagged /\ disk.copy = {}
        /\ disk.events = [r \in Rows |-> IF r \in LegacyRows THEN 1 ELSE 0]
        /\ disk.tables = CoreTables \cup (IF Thesis \in late THEN {}
                                           ELSE {"holding_thesis_versions"})
    BY <2>1 DEF Without, NoTables
  <2>3. CoreTables \cup (IF Thesis \in late THEN {} ELSE {"holding_thesis_versions"})
          \in SUBSET {"holdings", "holding_events", "holding_thesis_versions"}
    BY DEF CoreTables
  <2>4. [r \in Rows |-> IF r \in LegacyRows THEN 1 ELSE 0] \in [Rows -> 0..2]
    OBVIOUS
  <2>5. LegacyRows \in SUBSET Rows /\ Flagged \in SUBSET Rows
        /\ Migrations \ late \in SUBSET Migrations /\ Columns \ late \in SUBSET Columns
    BY RowsAssumption DEF Rows
  <2>6. disk \in Database
    BY <1>1, <2>1, <2>3, <2>4, <2>5 DEF Without, Database
  <2>7. ASSUME NEW m \in disk.ledger PROVE Applied(disk, m)
    <3>1. m \notin late
      BY <2>2, <2>7
    <3>2. \A r \in disk.rows : r \in disk.filled /\ disk.events[r] > 0
      BY <2>2, <2>5
    <3> QED
      BY <2>2, <3>1, <3>2 DEF Applied
  <2> QED
    BY <2>2, <2>6, <2>7 DEF Whole
<1> QED
  BY <1>2, <1>3, <1>4 DEF Init

\* The invariant holds of every database that a release left behind.
LEMMA InitIInv == Init => IInv
<1> SUFFICES ASSUME Init PROVE IInv
  OBVIOUS
<1>1. TypeOK
  BY InitDatabase, ProcsAssumption DEF Init, TypeOK, Labels, Resting
<1>2. Writing
  BY DEF Init, Writing
<1>3. ASSUME NEW p \in Procs PROVE Position(p)
  BY DEF Init, Position, Listed, RebuildLabels
<1> QED
  BY <1>1, <1>2, <1>3, InitDatabase DEF IInv

\* Nothing happens.
LEMMA StutterIInv == IInv /\ UNCHANGED vars => IInv'
<1> SUFFICES ASSUME IInv, UNCHANGED vars PROVE IInv'
  OBVIOUS
<1>1. TypeOK' /\ Writing' /\ Whole(disk)'
  BY DEF vars, IInv, TypeOK, Writing, Whole, Applied, Extends, Dropped
<1>2. ASSUME NEW p \in Procs PROVE Position(p)'
  BY OthersRest DEF vars, IInv
<1> QED
  BY <1>1, <1>2 DEF IInv, vars

\* Every step keeps the invariant.
LEMMA NextIInv == IInv /\ [Next]_vars => IInv'
<1> SUFFICES ASSUME IInv, [Next]_vars PROVE IInv'
  OBVIOUS
<1>1. CASE AllDone \/ UNCHANGED vars
  BY <1>1, StutterIInv DEF AllDone
<1>2. ASSUME NEW p \in Procs, Run(p) \/ Crash(p) PROVE IInv'
  BY <1>2, LockSteps, CreateLedgerStep, ListPendingStep, RecordStep, CommitLedgerStep,
     CreateTableStep, CoreDoneStep, AddColumnStep, RebuildCheckStep, CopySteps,
     DropHoldingsStep, RenameCopyStep, CreateIndicesStep, FillMetadataStep,
     InferEventsStep, CarryAlertsStep, CommitApplyStep, CreateThesisStep, FailureSteps,
     CommandStep
     DEF Run, Bootstrap
<1> QED
  BY <1>1, <1>2 DEF Next

\* The invariant holds always.
LEMMA Invariance == Spec => []IInv
BY InitIInv, NextIInv, PTL DEF Spec

-----------------------------------------------------------------------------
(* What follows. *)

\* Every reachable state has its type, for any number of processes, columns, rows
\* and crashes.
THEOREM SchemaTypeCorrect == Spec => []TypeOK
BY Invariance, PTL DEF IInv

\* bootstrap_schema: the committed ledger never names a migration whose effect is
\* not committed, whatever crashes and however many processes race, even with
\* different lock files.
THEOREM LedgerIsTruthful == Spec => []RecordedIsApplied
<1>1. IInv => RecordedIsApplied
  BY DEF IInv, Whole, RecordedIsApplied
<1> QED
  BY <1>1, Invariance, PTL

\* get_db: a connection that this release hands out is to a migrated database.
THEOREM ReadyIsMigrated == Spec => []MigratedWhenReady
<1>1. IInv => MigratedWhenReady
  BY DEF IInv, Whole, Position, MigratedWhenReady
<1> QED
  BY <1>1, Invariance, PTL

\* backfill_holding_metadata is idempotent: no row gets two opening events.
THEOREM BackfillIsIdempotent == Spec => []BackfilledOnce
<1>1. IInv => BackfilledOnce
  BY DEF IInv, Whole, BackfilledOnce
<1> QED
  BY <1>1, Invariance, PTL

\* A DDL statement reaches the disk only when nobody has a transaction.
LEMMA DdlRows ==
    ASSUME IInv, NEW p \in Procs, NEW d, Ddl(p, d), writer = p \/ d.rows = View(p).rows
    PROVE  disk.rows \subseteq disk'.rows
BY ProcsAssumption DEF Ddl, View

\* A commit publishes every row that was on disk.
LEMMA CommitRows ==
    ASSUME IInv, NEW p \in Procs, pc[p] # "rename_copy", Commit(p)
    PROVE  disk.rows \subseteq disk'.rows
BY ViewWhole DEF Commit, Extends

\* _migrate_holdings_autoincrement_id: no step takes a row of holdings off the disk.
THEOREM RowsSurvive == Spec => NoRowLost
<1>1. ASSUME IInv, [Next]_vars PROVE disk.rows \subseteq disk'.rows
  <2>1. CASE AllDone \/ UNCHANGED vars
    BY <2>1 DEF AllDone, vars
  <2>2. ASSUME NEW p \in Procs, Run(p) \/ Crash(p) PROVE disk.rows \subseteq disk'.rows
    <3>1. CASE Lock(p) \/ FindLedger(p) \/ ListPending(p) \/ CoreDone(p)
               \/ RebuildCheck(p) \/ Retry(p) \/ Leave(p)
      BY <3>1 DEF Lock, FindLedger, ListPending, CoreDone, RebuildCheck, Retry, Leave
    <3>2. CASE Record(p) \/ CopyRows(p) \/ FillMetadata(p) \/ InferEvents(p) \/ CarryAlerts(p)
      BY <3>2 DEF Record, CopyRows, FillMetadata, InferEvents, CarryAlerts, Dml
    <3>3. CASE CommitLedger(p) \/ CommitApply(p)
      BY <1>1, <3>3, CommitRows DEF CommitLedger, CommitApply, At
    <3>4. CASE Fail(p) \/ Crash(p)
      BY <3>4 DEF Fail, Crash, Rollback
    <3>5. CASE Command(p)
      BY <1>1, <3>5, CommandStep
    <3>6. CASE DropHoldings(p) \/ RenameCopy(p)
      <4>1. writer = p
        BY <1>1, <3>6, AtRebuild DEF DropHoldings, RenameCopy, At, RebuildLabels
      <4> QED
        BY <4>1, <3>6, ProcsAssumption DEF DropHoldings, RenameCopy, Ddl
    <3>7. CASE CreateLedger(p)
      <4>1. View(p) = disk /\ disk \in Database
        BY <1>1, <3>7, WriterIsListed
           DEF CreateLedger, At, Listed, RebuildLabels, IInv, TypeOK
      <4> QED
        BY <1>1, <3>7, <4>1, DdlRows DEF CreateLedger, Database
    <3>8. CASE CreateTable(p) \/ DropCopy(p) \/ CreateCopy(p) \/ CreateThesis(p)
      <4>1. View(p) \in Database
        BY <1>1, ViewTyped DEF IInv
      <4> QED
        BY <1>1, <3>8, <4>1, DdlRows
           DEF CreateTable, DropCopy, CreateCopy, CreateThesis, Database
    <3>9. CASE AddColumn(p) \/ CreateIndices(p)
      <4>1. View(p) \in Database
        BY <1>1, ViewTyped DEF IInv
      <4> QED
        BY <1>1, <3>9, <4>1, DdlRows DEF AddColumn, CreateIndices, Database
    <3> QED
      BY <2>2, <3>1, <3>2, <3>3, <3>4, <3>5, <3>6, <3>7, <3>8, <3>9 DEF Run, Bootstrap
  <2> QED
    BY <1>1, <2>1, <2>2 DEF Next
<1>2. IInv /\ [Next]_vars => [disk.rows \subseteq disk'.rows]_vars
  BY <1>1
<1> QED
  BY <1>2, Invariance, PTL DEF Spec, NoRowLost

-----------------------------------------------------------------------------
(* One lock file. *)

\* The lock admits one process, which finds nothing that another one or a crash
\* left half done.
Alone == \A p, q \in Procs : pc[p] \notin Resting /\ pc[q] \notin Resting => p = q
Unhindered(p) ==
    /\ pc[p] # "failed"
    /\ pc[p] = "create_ledger" => ~disk.ledgered
    /\ pc[p] \in Listed => View(p).ledger \cap todo[p] = {}
    /\ pc[p] = "create_copy" => ~work.copied
SerialInv == Alone /\ \A p \in Procs : Unhindered(p)

\* A process in the list is in the bootstrap.
LEMMA ListedNotResting == Listed \cap Resting = {} /\ "create_ledger" \notin Resting
BY DEF Listed, RebuildLabels, Resting

\* 023 finds all the columns that it copies.
LEMMA ColumnsAreThere ==
    ASSUME IInv, NEW p \in Procs, pc[p] = "copy_rows"
    PROVE  CanCopy(View(p))
<1>1. pc[p] \in RebuildLabels /\ pc[p] \in Listed
  BY DEF RebuildLabels, Listed
<1>2. Doing(p, Rebuild) /\ View(p) = work /\ Rebuild \in Migrations
  BY <1>1, AtRebuild DEF Rebuild, Migrations
<1>3. \A n \in 1..(NumColumns + 1) : n \in View(p).ledger
  BY <1>1, <1>2, RecordedBefore DEF Rebuild, Migrations
<1>4. \A n \in 1..(NumColumns + 1) : Applied(View(p), n)
  BY <1>1, <1>3, ViewWhole DEF Whole
<1>5. "holdings" \in View(p).tables
  BY <1>4 DEF Applied, Core, CoreTables
<1>6. HoldingsColumns \subseteq View(p).columns
  BY <1>4, ColumnsAssumption DEF Applied, Columns
<1>7. View(p).copied
  BY <1>2 DEF IInv, Position
<1> QED
  BY <1>5, <1>6, <1>7 DEF CanCopy

\* With nobody else in the bootstrap, SQLite refuses nothing.
LEMMA NothingFails ==
    ASSUME IInv, SerialInv, NEW p \in Procs
    PROVE  ~Fail(p)
<1>1. ~Refused(p) \/ pc[p] \in Resting
  <2>1. ~(At(p, "create_ledger") /\ disk.ledgered)
    BY DEF SerialInv, Unhindered, At
  <2>2. ~(At(p, "record") /\ \E m \in View(p).ledger : Doing(p, m))
    BY DEF SerialInv, Unhindered, At, Doing, Listed
  <2>3. ~(At(p, "create_copy") /\ View(p).copied)
    BY AtRebuild DEF SerialInv, Unhindered, At, RebuildLabels
  <2>4. ~(At(p, "copy_rows") /\ ~CanCopy(View(p)))
    BY ColumnsAreThere DEF At
  <2> QED
    BY <2>1, <2>2, <2>3, <2>4 DEF Refused
<1>2. ~Busy(p) \/ pc[p] \in Resting
  <2>1. ASSUME writer \notin {Null, p}, pc[p] \notin Resting PROVE FALSE
    <3>1. writer \in Procs /\ pc[writer] \in Listed
      BY <2>1 DEF IInv, TypeOK, Writing
    <3> QED
      BY <2>1, <3>1, ListedNotResting DEF SerialInv, Alone
  <2> QED
    BY <2>1 DEF Busy, Free
<1> QED
  BY <1>1, <1>2 DEF Fail

\* A step of the process that is in the bootstrap.
LEMMA AloneStep ==
    ASSUME IInv, SerialInv, NEW p \in Procs, pc[p] \notin Resting, NEW label,
           pc' = [pc EXCEPT ![p] = label], Unhindered(p)'
    PROVE  SerialInv'
<1>1. ASSUME NEW q \in Procs, q # p PROVE pc'[q] = pc[q] /\ pc[q] \in Resting
  BY <1>1 DEF SerialInv, Alone, IInv, TypeOK
<1>2. Alone'
  BY <1>1 DEF Alone
<1>3. ASSUME NEW q \in Procs, q # p PROVE Unhindered(q)'
  BY <1>1, <1>3, ListedNotResting DEF SerialInv, Unhindered, Resting
<1> QED
  BY <1>2, <1>3 DEF SerialInv

\* Every statement of the bootstrap but one leaves the ledger's rows alone.
LEMMA StatementStep ==
    ASSUME IInv, SerialInv, NEW p \in Procs, pc[p] \in Listed,
           NEW d \in Database, View(p)' = d, d.ledger = View(p).ledger,
           NEW label \in Listed, Moves(p, label, todo[p]),
           label = "create_copy" => ~d.copied /\ writer' = p
    PROVE  SerialInv'
<1>1. pc'[p] = label /\ todo'[p] = todo[p]
  BY Arrival DEF IInv
<1>2. Unhindered(p)'
  BY <1>1 DEF Unhindered, SerialInv, View, Listed, RebuildLabels
<1> QED
  BY <1>2, AloneStep, ListedNotResting DEF Moves

\* A step of a process that is not in the bootstrap, and stays out of it.
LEMMA OutsideStep ==
    ASSUME IInv, SerialInv, NEW p \in Procs, pc[p] \in Resting, NEW label \in Resting,
           label # "failed", Moves(p, label, todo[p]),
           disk'.ledger = disk.ledger, disk'.ledgered = disk.ledgered,
           UNCHANGED <<work, writer>> \/ (writer = Null /\ writer' = Null)
    PROVE  SerialInv'
<1>1. pc'[p] = label /\ \A q \in Procs : q # p => pc'[q] = pc[q] /\ todo'[q] = todo[q]
  BY Arrival DEF IInv, Moves, TypeOK
<1>2. Alone'
  BY <1>1 DEF SerialInv, Alone
<1>3. ASSUME NEW q \in Procs PROVE Unhindered(q)'
  <2>1. CASE q = p
    BY <1>1, <2>1, ListedNotResting DEF Unhindered, Resting
  <2>2. CASE q # p
    <3>1. pc[q] = "create_copy" => writer = q
      BY AtRebuild DEF RebuildLabels
    <3>2. View(q)'.ledger = View(q).ledger
      BY ProcsAssumption DEF View
    <3> QED
      BY <1>1, <2>2, <3>1, <3>2, ProcsAssumption DEF SerialInv, Unhindered
  <2> QED
    BY <2>1, <2>2
<1> QED
  BY <1>2, <1>3 DEF SerialInv

\* The lock: a process enters when nobody is inside.
LEMMA LockStep ==
    ASSUME IInv, SerialInv, NEW p \in Procs, Lock(p),
           \A q, r \in Procs : LockOf[q] = LockOf[r]
    PROVE  SerialInv'
<1>1. /\ \A q \in Procs : pc[q] \in Resting
      /\ pc'[p] = "ledger" /\ \A q \in Procs : q # p => pc'[q] = pc[q]
      /\ UNCHANGED <<disk, work, writer, todo>>
  BY DEF Lock, Goto, IInv, TypeOK
<1>2. Alone'
  BY <1>1 DEF Alone
<1>3. ASSUME NEW q \in Procs PROVE Unhindered(q)'
  BY <1>1, ListedNotResting DEF SerialInv, Unhindered, Resting, Listed, RebuildLabels
<1> QED
  BY <1>2, <1>3 DEF SerialInv

\* The steps before the first migration, and a crash.
LEMMA LedgerSteps ==
    ASSUME IInv, SerialInv, NEW p \in Procs,
           FindLedger(p) \/ CreateLedger(p) \/ ListPending(p) \/ CommitLedger(p) \/ Crash(p)
    PROVE  SerialInv'
<1>1. pc[p] \notin Resting
  BY DEF FindLedger, CreateLedger, ListPending, CommitLedger, Crash, At, Resting
<1>2. CASE FindLedger(p)
  <2>1. pc'[p] \in {"pending", "create_ledger"} /\ (pc'[p] = "create_ledger" => ~disk.ledgered)
        /\ UNCHANGED disk
    BY <1>2 DEF FindLedger, Goto, IInv, TypeOK
  <2>2. Unhindered(p)'
    BY <2>1 DEF Unhindered, Listed, RebuildLabels
  <2> QED
    BY <1>1, <1>2, <2>2, AloneStep DEF FindLedger, Goto
<1>3. CASE CreateLedger(p)
  <2>1. pc'[p] = "pending"
    BY <1>3 DEF CreateLedger, Goto, IInv, TypeOK
  <2>2. Unhindered(p)'
    BY <2>1 DEF Unhindered, Listed, RebuildLabels
  <2> QED
    BY <1>1, <1>3, <2>2, AloneStep DEF CreateLedger, Goto
<1>4. CASE ListPending(p)
  <2>1. View(p) = disk
    BY <1>4, WriterIsListed DEF ListPending, At, Listed, RebuildLabels
  <2>2. pc'[p] \in {"ready", "apply"} /\ todo'[p] = Migrations \ disk.ledger
        /\ View(p)' = disk
    BY <1>4, <2>1 DEF ListPending, Goto, IInv, TypeOK, View
  <2>3. Unhindered(p)'
    BY <2>2 DEF Unhindered
  <2> QED
    BY <1>1, <1>4, <2>3, AloneStep DEF ListPending, Goto
<1>5. CASE CommitLedger(p) \/ Crash(p)
  <2>1. pc'[p] \in {"ready", "start"}
    BY <1>5 DEF CommitLedger, Crash, Goto, IInv, TypeOK
  <2>2. Unhindered(p)'
    BY <2>1 DEF Unhindered, Listed, RebuildLabels
  <2> QED
    BY <1>1, <1>5, <2>2, AloneStep DEF CommitLedger, Crash, Goto
<1> QED
  BY <1>2, <1>3, <1>4, <1>5

\* The INSERT into the ledger takes the migration off the list.
LEMMA RecordAlone ==
    ASSUME IInv, SerialInv, NEW p \in Procs, Record(p)
    PROVE  SerialInv'
<1>1. PICK m \in Migrations :
          /\ pc[p] = "record" /\ Dml(p, [View(p) EXCEPT !.ledger = @ \cup {m}])
          /\ todo' = [todo EXCEPT ![p] = @ \ {m}]
          /\ Goto(p, IF todo[p] = {m} THEN "commit_ledger" ELSE "apply")
  BY DEF Record, At
<1>2. View(p) \in Database /\ View(p).ledger \cap todo[p] = {}
  BY <1>1, ViewTyped DEF IInv, SerialInv, Unhindered, Listed
<1>3. View(p)'.ledger = View(p).ledger \cup {m} /\ todo'[p] = todo[p] \ {m}
  BY <1>1, <1>2 DEF Dml, View, Database, IInv, TypeOK
<1>4. pc'[p] \in {"commit_ledger", "apply"}
  BY <1>1 DEF Goto, IInv, TypeOK
<1>5. Unhindered(p)'
  BY <1>2, <1>3, <1>4 DEF Unhindered
<1>6. pc[p] \notin Resting
  BY <1>1 DEF Resting
<1> QED
  BY <1>1, <1>5, <1>6, AloneStep DEF Goto

\* The statements of the migrations.
LEMMA StatementSteps ==
    ASSUME IInv, SerialInv, NEW p \in Procs,
           \/ CreateTable(p) \/ CoreDone(p) \/ AddColumn(p) \/ RebuildCheck(p)
           \/ DropCopy(p) \/ CreateCopy(p) \/ CopyRows(p) \/ DropHoldings(p)
           \/ RenameCopy(p) \/ CreateIndices(p) \/ FillMetadata(p) \/ InferEvents(p)
           \/ CarryAlerts(p) \/ CommitApply(p) \/ CreateThesis(p)
    PROVE  SerialInv'
<1>1. View(p) \in Database
  BY ViewTyped DEF IInv
<1>2. CASE CoreDone(p) \/ RebuildCheck(p) \/ CommitApply(p)
  <2>1. View(p)' = View(p) /\ pc[p] \in {"apply", "commit_apply"}
    BY <1>2, ProcsAssumption DEF CoreDone, RebuildCheck, CommitApply, Commit, View, At
  <2>2. PICK label \in {"record", "drop_copy"} : Moves(p, label, todo[p])
    BY <1>2 DEF CoreDone, RebuildCheck, CommitApply, Moves, Goto, IInv, TypeOK
  <2> QED
    BY <1>1, <2>1, <2>2, StatementStep DEF Listed, RebuildLabels
<1>3. CASE CreateTable(p) \/ CreateThesis(p)
  <2>1. PICK d \in Database :
            (Ddl(p, d) \/ Dml(p, d)) /\ d.ledger = View(p).ledger
    <3>1. CASE CreateThesis(p)
      BY <1>1, <3>1 DEF CreateThesis, Database
    <3>2. CASE CreateTable(p)
      <4> DEFINE t == IF "holdings" \notin View(p).tables THEN "holdings"
                      ELSE "holding_events"
                 d == [View(p) EXCEPT !.tables = @ \cup {t},
                                      !.columns = @ \cup ColumnsOf(t),
                                      !.keyed = IF t = "holdings" THEN TRUE ELSE @]
      <4>1. Ddl(p, d)
        BY <3>2 DEF CreateTable
      <4>2. d \in Database /\ d.ledger = View(p).ledger
        BY <1>1 DEF Database, ColumnsOf
      <4> HIDE DEF d
      <4> QED
        BY <4>1, <4>2
    <3> QED
      BY <1>3, <3>1, <3>2
  <2>2. View(p)' = d /\ pc[p] = "apply"
    BY <1>3, <2>1, NewView DEF CreateTable, CreateThesis, At
  <2>3. PICK label \in {"apply", "record"} : Moves(p, label, todo[p])
    BY <1>3, <2>2 DEF CreateTable, CreateThesis, Moves, Goto, IInv, TypeOK
  <2> QED
    BY <2>1, <2>2, <2>3, StatementStep DEF Listed
<1>4. CASE AddColumn(p) \/ CreateIndices(p) \/ CarryAlerts(p)
  <2>1. PICK d \in Database : View(p)' = d /\ d.ledger = View(p).ledger
    <3>1. CASE UNCHANGED <<disk, work, writer>>
      BY <1>1, <3>1 DEF View
    <3>2. CASE AddColumn(p) /\ ~UNCHANGED <<disk, work, writer>>
      <4>1. PICK c \in Columns : Ddl(p, [View(p) EXCEPT !.columns = @ \cup {c}])
        BY <3>2 DEF AddColumn
      <4> DEFINE d == [View(p) EXCEPT !.columns = @ \cup {c}]
      <4>2. d \in Database /\ d.ledger = View(p).ledger
        BY <1>1 DEF Database
      <4> HIDE DEF d
      <4> QED
        BY <4>1, <4>2, NewView DEF d
    <3>3. CASE CreateIndices(p) /\ ~UNCHANGED <<disk, work, writer>>
      <4> DEFINE d == [View(p) EXCEPT !.indexed = TRUE]
      <4>1. Ddl(p, d)
        BY <3>3 DEF CreateIndices
      <4>2. d \in Database /\ d.ledger = View(p).ledger
        BY <1>1 DEF Database
      <4> HIDE DEF d
      <4> QED
        BY <4>1, <4>2, NewView
    <3>4. CASE CarryAlerts(p) /\ ~UNCHANGED <<disk, work, writer>>
      <4> DEFINE d == [View(p) EXCEPT !.alerts = @ \cup (View(p).rows \cap Flagged)]
      <4>1. Dml(p, d)
        BY <3>4 DEF CarryAlerts
      <4>2. d \in Database /\ d.ledger = View(p).ledger
        BY <1>1, RowsAssumption DEF Database, Rows
      <4> HIDE DEF d
      <4> QED
        BY <4>1, <4>2, NewView
    <3> QED
      BY <1>4, <3>1, <3>2, <3>3, <3>4
  <2>2. pc[p] = "apply"
    BY <1>4 DEF AddColumn, CreateIndices, CarryAlerts, At
  <2>3. PICK label \in {"record", "commit_apply"} : Moves(p, label, todo[p])
    BY <1>4 DEF AddColumn, CreateIndices, CarryAlerts, Moves, Goto, IInv, TypeOK
  <2> QED
    BY <2>1, <2>2, <2>3, StatementStep DEF Listed
<1>5. CASE FillMetadata(p) \/ InferEvents(p)
  <2>1. View(p)' = work' /\ work'.ledger = View(p).ledger
    BY <1>1, <1>5 DEF FillMetadata, InferEvents, Dml, View, Database
  <2>2. work' \in Database
    BY <1>5, FillMetadataStep, InferEventsStep DEF IInv, TypeOK
  <2>3. pc[p] \in {"apply", "infer"}
    BY <1>5 DEF FillMetadata, InferEvents, At
  <2>4. PICK label \in {"infer", "commit_apply"} : Moves(p, label, todo[p])
    BY <1>5 DEF FillMetadata, InferEvents, Moves, Goto, IInv, TypeOK
  <2> QED
    BY <2>1, <2>2, <2>3, <2>4, StatementStep DEF Listed
<1>6. CASE DropCopy(p) \/ CreateCopy(p) \/ CopyRows(p) \/ DropHoldings(p) \/ RenameCopy(p)
  <2>1. pc[p] \in RebuildLabels /\ pc[p] \in Listed
    BY <1>6 DEF DropCopy, CreateCopy, CopyRows, DropHoldings, RenameCopy, At,
                RebuildLabels, Listed
  <2>2. writer = p /\ View(p) = work /\ work \in Database
    BY <2>1, AtRebuild
  <2>3. writer' = p /\ View(p)' = work' /\ work'.ledger = View(p).ledger
    BY <1>6, <2>2, ProcsAssumption
       DEF DropCopy, CreateCopy, CopyRows, DropHoldings, RenameCopy, Ddl, Dml, View, Database
  <2>4. work' \in Database
    BY <1>6, CopySteps, DropHoldingsStep, RenameCopyStep DEF IInv, TypeOK
  <2>5. PICK label \in {"create_copy", "copy_rows", "drop_holdings", "rename_copy",
                        "commit_apply"} :
            Moves(p, label, todo[p]) /\ (label = "create_copy" => DropCopy(p))
    BY <1>6 DEF DropCopy, CreateCopy, CopyRows, DropHoldings, RenameCopy, Moves, Goto,
                IInv, TypeOK
  <2>6. DropCopy(p) => ~work'.copied
    BY <2>2, ProcsAssumption DEF DropCopy, Ddl, Database
  <2> QED
    BY <2>1, <2>3, <2>4, <2>5, <2>6, StatementStep DEF Listed, RebuildLabels
<1> QED
  BY <1>2, <1>3, <1>4, <1>5, <1>6

\* get_db under schema_process_lock: when all processes use one lock file, no
\* bootstrap ever fails, whatever crashed before it and at whatever point.
THEOREM LockedBootstrapSucceeds ==
    ASSUME \A q, r \in Procs : LockOf[q] = LockOf[r]
    PROVE  Spec => []NoBootstrapFails
<1>1. Init => SerialInv
  BY DEF Init, SerialInv, Alone, Unhindered, Resting, Listed, RebuildLabels
<1>2. ASSUME IInv, SerialInv, [Next]_vars PROVE SerialInv'
  <2>1. CASE AllDone \/ UNCHANGED vars
    BY <1>2, <2>1 DEF AllDone, vars, SerialInv, Alone, Unhindered, View
  <2>2. ASSUME NEW p \in Procs, Run(p) \/ Crash(p) PROVE SerialInv'
    <3>1. CASE Retry(p)
      BY <1>2, <3>1 DEF Retry, At, SerialInv, Unhindered
    <3>2. CASE Leave(p) \/ Command(p)
      <4>1. pc[p] \in Resting /\ Moves(p, "done", todo[p])
        BY <1>2, <3>2 DEF Leave, Command, At, Resting, Moves, Goto, IInv, TypeOK
      <4>2. disk'.ledger = disk.ledger /\ disk'.ledgered = disk.ledgered
        BY <1>2, <3>2 DEF Leave, Command, IInv, TypeOK, Database
      <4>3. UNCHANGED <<work, writer>> \/ (writer = Null /\ writer' = Null)
        BY <3>2 DEF Leave, Command
      <4> QED
        BY <1>2, <4>1, <4>2, <4>3, OutsideStep DEF Resting
    <3> QED
      BY <1>2, <2>2, <3>1, <3>2, NothingFails, LockStep, LedgerSteps, RecordAlone,
         StatementSteps
         DEF Run, Bootstrap
  <2> QED
    BY <1>2, <2>1, <2>2 DEF Next
<1>3. SerialInv => NoBootstrapFails
  BY DEF SerialInv, Unhindered, NoBootstrapFails, Apart
<1> QED
  BY <1>1, <1>2, <1>3, Invariance, PTL DEF Spec
=============================================================================
