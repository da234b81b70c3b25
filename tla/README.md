# A verification development for a-stock-agent-skills

TLA+ modules, TLC instances and TLAPS proofs about the runtime of
`a-stock-agent-skills`: the CLI `a-stock-cache` with its SQLite database, and the
programs around it. Every definition that models code is tied to the lines it
models in `PROJECT.json` ("map"); the hazards of the code and the properties that
cover them are listed there too. Paths below are relative to
`src/src/a_stock_agent_runtime/` unless they say otherwise.

## 1. The system

The repository ships agent skills (markdown), a Python runtime of about 17,700
lines, and tests. Nothing in it is a server. The programs are short-lived
processes started by agents, by cron and by users, often several at once, and
everything they share is one SQLite file (WAL, `busy_timeout` 30 s), a lock file
and a few files beside it.

Three facts about that set-up decide most of what can go wrong, and all modules
are built on them:

* Python's `sqlite3` in its legacy transaction mode runs a `SELECT` in autocommit
  and opens a transaction only before the first `INSERT`, `UPDATE` or `DELETE`. A
  command that does not say `BEGIN IMMEDIATE` first therefore reads one database
  and writes another.
* A DDL statement outside a transaction is committed at once; inside one it
  belongs to it.
* A process may end between any two statements. What it has not committed is gone,
  what it has not yet done is never done.

### Components, their state and what makes them correct

| Component | State | Operations | Hard part | Correct when |
|---|---|---|---|---|
| Holding ledger (`commands_holdings.py`) | tables `holdings`, `holding_events`, child rows of a lot, `retro_notes` | add, buy, sell, close, corporate action, dividend, remove, framework, tier, alert, retro, cleanup | FIFO sales over several lots; commands that read before they lock; legacy rows without shares | shares equal the events; a lot is closed in the step that empties it and stays closed; history is never rewritten; only an overtaken writer leaves old stops or records of a removed lot |
| Schema bootstrap (`schema.py`, `schema_ledger.py`, `db.py`) | the schema, `schema_migrations`, a lock file | migrate on first connection | autocommitted DDL against transactional bookkeeping; table rebuild; kills; processes of the previous release | the ledger never claims what is not committed; no row is lost; each backfill happens once; every process gets through |
| Thesis versions and L3 conditions (`commands_monitor.py`) | `holding_thesis_versions`, `holding_l3_conditions` | l3-add, l3-update, l3-list, thesis-rewrite | check and insert in two transactions; torn listings | conditions in force are those of the newest thesis; a governed lot always has one; retired ones are frozen |
| Research cache (`store.py`, `commands_analysis.py`) | `stock_fundamentals`, `quote_snapshots`, `analysis_results` | fetch, set, regulatory-evidence, set-analysis, set-score, set-score-breakdown, flags, cleanup, clear | slow fetches against evidence; three writers of one row; deleting by what was read | evidence survives a refresh; newest quote stays; flags stay; cleanup deletes only what is expired; a row agrees with itself |
| Risk gates and stored evidence (`risk_gates.py`, `store.py`, `commands_analysis.py`) | verdicts within `stock_fundamentals` | P0 to P2, their aggregation, carry-forward, judging again, score-fundamentals | verdicts that outlive their facts or their rule; facts missing in any combination | what is cleared or scored rests on facts that are there, official, dated and clean |
| Alerts, liquidity gate and cron entry (`commands_monitor.py`, `commands_holdings.py`, `risk_gates.py`, `src/scripts/check-holdings-cron.sh`) | `holding_alerts`, a lock file | check-holdings, alert-open, alert-pending, alert-resolve, the cron run | a window that is proposed, stored later and kept twice; hanging checks and failed pushes | the deadline never moves; nothing is released early; a cron run that says success has pushed what is unsettled, or logged it where pushes are disabled |
| Stop alerts (`commands_holdings.py`) | a JSON state file, the output buffer of a run | stop-alert | printed first, saved later, flushed last; overlapping runs; one temporary name | what was seen is pushed, unless a run dies between its memory and its exit; a level is repeated only after an overlap, an error or a kill |
| Fetcher (`fetcher.py`, `market_quotes.py`) | child processes and queues, the row and the bond snapshot it writes | timed calls, retries, fetch, batch | late answers, silent deaths, partial failure | every run ends; a row is made of answers to its own fetch; the summary is true |
| Monitor snapshot (`commands_monitor.py`, `monitor_contract.py`, `monitor_research.py`, `risk_budget.py`) | none | snapshot, contract, brief | a dozen sources that fail one by one; builder and contract written apart | what is called clean or fit for a trade rests on complete facts; a snapshot satisfies its contract |
| Cost basis (`commands_holdings.py`, `position_ledger.py`, `trading_costs.py`, `boards.py`) | money columns of a lot | weighted cost, main entry rollover, lot quantities | boundaries and rounding | cost follows the cash flow; odd lots only when a position ends |
| Dividend check | none | unrecorded_dividends | overlapping windows | every entitlement is reported or recorded |
| Installer (`install.py`) | directories, backups, a manifest | install, swap, rollback | failure in the middle, kill in the middle | all or nothing; nothing without a backup |
| State migration (`src/scripts/migrate_state.py`) | a second database | describe, back up, compare | a live writer | what is reported as equal is equal |
| Policy, scenarios, sizing | none | precedence, exposure, bounds | missing sources | the strictest source wins |
| Performance (`performance.py`) | none | segments, returns | gaps in observations | segments are not mixed |
| Decision contract, checklist, catalogues | none | validation, rendering | | |
| Research client (`research_client.py`) | none here (an HTTP service outside the repository) | submit, resume | lost answers | |
| Dispatch, paths, skills | none | | | |

The parts meet in the database only. The ledger, the thesis commands and the
research cache write different tables, and `cleanup` and `remove-holding` delete in
all of them; each module has its own part of those two commands. Every process runs
the bootstrap before its first statement, so what `SchemaBootstrap` establishes is
what the other modules take for granted. The gates join the parts by their data:
the fetcher delivers facts, the store keeps facts and verdicts, and scores and
snapshots are drawn from them. That chain is composed as `RiskGates`, `Fundamentals`
and `Monitor`, each extending the one before.

## 2. The modules

### HoldingLedger, LotLifecycle, HoldingLedgerProofs

`HoldingLedger` has the tables as functions of the row id (`rows`, `holdings`,
`ledger`, `children`, `retros`, `nextId`) and, for each process, where it is and what
it remembers (`pc`, `seen`).

* A command that says `BEGIN IMMEDIATE` before its first read is one action
  (`AddHolding`, `BuyHolding`, `SellHolding`, `CorporateAction`, `RemoveHolding`, ...).
  A command that does not is two: a read, which keeps what the code keeps in local
  variables, and a write that uses it (`DividendRead`/`DividendWrite`,
  `FrameworkRead`/`FrameworkWrite`, the child rows, `retro-add`, the two paths of
  `close-holding`). `cleanup`'s first `DELETE` opens its transaction before the orphan
  deletes, so those are one action. Two reads of one command that only look at
  columns that cannot change between them are merged (`record-dividend`,
  `holding-framework`).
* Shares are counted in units the exchange's quantity rule accepts. Prices are left
  out; a row has instead the number of times its reference cost was recomputed, and
  its stops say which reference cost and which framework they were computed from.
  The events of a lot are totals per type. Network checks (`_require_report`) come
  before the transaction and decide only whether the command goes on.
* `Init` also has the open rows, tracked or price-only, that migration 025 leaves.
  Closed legacy rows and rows without a framework are not included.

`LotLifecycle` is what the ledger promises about one lot, with no process,
transaction or row in it. `HoldingLedger` implements it (`ImplementsLifecycle`),
position and stage being read off the row and its events.

### SchemaBootstrap, SchemaBootstrapProofs

`disk` is the committed database, `work` what the open transaction of `writer` has
made of it. Each process goes through the lock, the ledger, each pending migration
statement by statement where a kill between statements makes a difference, and its
commit. `Crash` can strike at every step; `Veterans` are processes of the previous
release that keep an open connection and add rows during the migration. They
bootstrap only if there is no database yet.

Migrations are named by their position in the list that is really run. One core
table, `holding_events`, stands for those that are not rebuilt. The thread lock in
`db.py` is not modelled apart: a thread is a process with the same lock file. `Busy`
is a guard only of statements that need the write lock. Rows are values without
an id.

### ThesisVersions, ThesisVersionsProofs

One stock code and the lots it has over time. `l3-add` and `l3-list` are an action
per `SELECT`; `thesis-rewrite` (`BEGIN IMMEDIATE`) and `l3-update` (one `UPDATE`) are
one. A condition is valid for action iff it has a thesis: that is what the payload
check of the rewrite amounts to. A rewrite names the conditions to retire, as its author
saw them in some earlier listing; `ThesisRewrite` takes any set of conditions for that
list and goes on only where it is exactly what is active within the transaction, so
the list of a rewrite that came too late is refused. The error paths of the rewrite
roll back and are not steps.

### ResearchCache, ResearchCacheProofs

One stock code: its fundamentals with the regulatory evidence in them, its quotes,
its analyses by day. A fetch asks its providers at `FetchStart` and stores at
`FetchStore` what they said then, with the evidence that it finds in the row at that
moment. The evidence is what its facts amount to (clean, a breach, unclear), and
`Judge` is the rule: a breach blocks under any rule, nothing is clear once the
review of the rule is due. `set-analysis` is the fresh quote, the row of the day
and the upsert; `set-score`, `set-score-breakdown` and `cleanup` are a read and a
write. `cleanup` opens its transaction with its first `DELETE`, which is before it
reads the analyses if the fundamentals have expired and after it otherwise; both
orders are there (`CleanupDelete`, or `CleanupRead` and `CleanupRows`).

Timestamps are readings of one clock that does not go back: the branches for clock
skew and for timestamps that cannot be parsed are left out. The facts behind a
verdict are in `Fundamentals`, the market indicator table is in `Fetcher`, and
`qualitative_only_securities` is in no module.

### StopAlert, StopAlertProofs

A run of `stop-alert` is `Fetch` (the open holdings and the level that each quote
gives), `Load` (the memory of the day), `PrintLines` (the lines of the codes whose level is
new or worse), the save in three steps (`OpenTmp` empties the one temporary file,
`WriteTmp` fills it, `Replace` renames it), and `Exit`. Nothing locks the file. Two runs
may share the temporary file, so the model follows the inode: a run that has opened it
goes on writing to it after another has renamed it (`inode`).

What counts as pushed is what has left the process. Nothing in the code flushes the
output, and in the pipe of a scheduler it is block-buffered, so the lines leave when
the interpreter exits, after the rename. `PrintLines` puts them into the run's buffer
(`out`) and lets through any part of them, which is a terminal or a buffer that filled
up; `Exit` delivers the rest. A step may fail (`Raise`): the interpreter still flushes.
The exception and its flush are one step, since the exception changes nothing that
another run sees and a kill before the flush is a kill before the exception. A kill
(`Crash`), or a reader that has gone, loses the buffer. The flush at the exit delivers
all or nothing.

`disturbed` and `lost` are history: the days on which runs overlapped, or one failed or
died between its first line of output and its rename; and the lines that were lost by
a run that had already written its memory.

### Deferral, DeferralProofs

One holding whose second stop is reached in a market crash, and everything that
handles its one-shot deferral: `check-holdings` as a read of the database (`CheckRead`)
and a look at quote and market that puts out a window (`CheckPrint`), the three alert
commands, a user who moves the stop line, and the cron entry with its notification
mode, its lock, its `timeout`, its decision whether to push, and the push. `Notify` says
of each cron run whether it is configured for Telegram or has notifications disabled,
which is the default: then it only logs and succeeds (`report`). A mode without
credentials, or an unknown one, fails before the lock. The gate is the operator
`Gate`; `CheckVerdict` and `MonitorVerdict` are what the two commands make of it.
A market is absent (what the providers of this version deliver), calm or a shock.
The deadline exists twice, as `due` and as the start within the evidence; that the
two can part is what the module is about.

### Fetcher

A fetch is a fixed sequence of steps. Those that ask a provider fork a child
(`StartCall`), which may answer, fail, hang or die (`ChildAnswers`, `ChildEnds`); the
parent takes the answer or gives up at the timeout (`Answered`, `TimedOut`), retries
two of the steps, and goes on or ends the fetch. An answer is the code that it was
asked for; a row is the set of the codes its answers were asked for. The batch takes
the codes one by one in one process, with its industry map read once. The bond
snapshot has a time and no value. Its theorems stand in `FundamentalsProofs`, which
extends `Fetcher` beside `Monitor`, so its specification has names of its own
(`FetcherInit`, `FetcherNext`, `FetcherSpec`) and its codes are the `Batch`.

### RiskGates, Fundamentals, FundamentalsProofs, Monitor

`RiskGates` is pure: P0 on the supplied evidence under the dated rules of a board, P1
and P2 on the statements, and the aggregate. A fact is `None` when it is missing,
sources are known by their class, amounts are small integers around each threshold.

`Fundamentals` has the stored rows, with facts, verdicts, missing fields and reasons:
`Fetch` builds the payload with its defaults, carries old evidence forward and judges
it again under today's rule, and stores what passes the store's validation;
`RegulatoryEvidence` judges supplied facts; `Cleanup` and `NextDay` expire rows.
`score-fundamentals` writes nothing and is the operator `ScoreOf`. Each command is one
write transaction, so each is one action; their interleavings are in `ResearchCache`.

`Monitor` has no action of its own, because `monitor-snapshot` writes nothing:
`Snapshot(in)` is a function of the stored rows and of what is read besides (`in`:
holdings, quotes, theses, tiers, alerts, policy, industries, Research cards), and
`ValidSnapshot` is the contract, in the parts of `monitor_contract.py`. What comes
from other modules comes in as an input, in any combination that the bounds allow, so
the module does not rest on what those modules establish. A position has at most one
condition and one open alert.

### Installer, InstallerProofs

A process runs `a-stock-install` once; `target` is what is at the client entries,
`runtime` the release directories, and each installer has its phase, a cursor over
the targets in the order of the code (Skill entries, then scripts), its backups and
whether its manifest is on disk. `Build` is the exclusive `mkdir` of the release,
`Fill` everything up to the staged candidates (nobody else sees any of it), then one
`Backup` per target, the manifest, and for each target `Clear` and `Place`, so a
kill finds the entry removed and not yet replaced. `Fail` may happen at any step;
the restore is a `Remove` and a `Recreate` per entry, each of which may fail and
leave the entry, nothing, or half a directory. `Kill` is also the exception that the
handler does not name (Ctrl-C): the `finally` block removes candidates only.

Entries that are plain files, the checks that return 2 before anything is written,
dry runs and restrictions to one client are not in it. The several reads of one
target during its backup are one step. `before`, `alone` and `unrestored` are history:
what was there, whether another installer has run since, and what the installer
reported as "restore failed".

## 3. What TLC checks

The `MC` modules add model values, symmetry sets and, for `Monitor_day`, the inputs.
Deadlock is checked unless noted.

| Run | Question | Answer |
|---|---|---|
| `HoldingLedger_concurrent` | two processes, every ledger command on one code: do share column, exits and the identity of rows survive, is every step one of `LotLifecycle`, and who can leave old stops or records of a removed lot? | holds; only a writer that was overtaken between its read and its write |
| `HoldingLedger_legacy` | two open rows of one code older than the ledger, tracked or price-only, two days, two processes: are the oldest sold first? | holds |
| `SchemaBootstrap_live` | two new processes with one lock file and a veteran with another, no database or an older one, two kills: is the ledger truthful, does no row get lost, does each backfill happen once, who meets an error, does every process get through? | holds, the last with fairness; errors and failing commands only where lock files differ |
| `ThesisVersions_races` | two processes adding, listing, rewriting, updating, closing, removing, reopening | conditions in force are current, no vacuum, no stale condition called valid |
| `ThesisVersions_bypass` | does the refusal of `l3-add` under an active thesis hold? | violated: a rewrite between its check and its insert |
| `ResearchCache_races` | two processes with every command on one code, over two days and a new annual report | evidence, newest quote, flags and fresh rows survive; a row contradicts itself only under an overtaken writer |
| `Installer_overlap` | two installers, alone or overlapping, over every mix of earlier entries, with failures, failing restores and kills | undisturbed: all or nothing, torn at one place; always: no dangling link, nothing lost that is not listed |
| `StopAlert_days` | three runs of two processes over two days, overlapping, with buffered output, and errors and kills at any step: what may be lost, what may be repeated? | what a successful run keeps to itself was pushed, is on its way out, or was lost by a run between its memory and its exit; repeated only after an overlap, an error or a kill |
| `Deferral_window` | one person and two cron runs, one of them with notifications disabled, quotes and markets of every kind, stop lines that move | the deadline stays, nothing is released early or above its line, monitor-snapshot is never ahead of check-holdings, no silent success, the lock comes free |
| `Deferral_restart` | is the start of a deferral never reset, as the specification says? | violated: two checks propose a window before either is stored, and the later one replaces the start |
| `Fetcher_batch` | a batch whose calls hang, fail, die, answer late and are retried | every run ends; rows hold answers of their own code; the summary is true |
| `Monitor_day` | statements and evidence come in, are judged, carried on, judged again, expire; at every state every score, and a snapshot over every input within the bounds | no breach is cleared, every payload is accepted, totals and conclusions are earned, only a holding without name or framework makes the contract refuse |

The runs with a violation are in `PROJECT.json` under "findings", each with the line
of the repository that says otherwise.

`CHECK_DEADLOCK FALSE` is said in `ResearchCache_races`, `Installer_overlap`,
`StopAlert_days` and `Fetcher_batch`: there the commands stop, because their number,
the clock or the codes to fetch have run out.

### Bounds

* `HoldingLedger`: two processes, because every race in the code is between one
  command's read and one other command; two lots, because FIFO and the reuse of a
  code need a second lot and nothing needs a third; shares and trades up to 2 or 3,
  enough for a partial sale, a full sale and a sale over two lots; one recomputation
  of the reference cost; two days where dates matter. A single child table, since all
  of them are written the same way.
* `SchemaBootstrap`: two new processes and a veteran; three column migrations, one of
  them on another table; two legacy rows, one flagged; one row added by a veteran;
  two kills, so that a recovery can be killed too. A command that failed and is given
  again counts as one of the two: without that bound, processes with different lock
  files could make each other fail for ever.
* `ThesisVersions`: two lots, three conditions, two theses, two conditions in one
  rewrite: a rewrite that replaces one of two conditions of a first thesis after the
  lot was reopened.
* `ResearchCache`: three ticks in two days, so that a day boundary and every age
  limit (1) fall inside; two annual reports; three quotes at a retention of one;
  two scores, one flag; four commands in a behaviour, which is one more than the
  longest scenario needs (a command that prepares a row, and three that overlap by
  turns).
* `Installer`: two installers and two releases, so that a release is tried twice or
  two are mixed; one Skill entry and one script, which have different candidates in
  copy mode and of which one is switched before the other. Installers run once.
* `StopAlert`: two codes of which one has both stops and the other only the first; a
  price at the second stop and one just above the first; three runs, so that a third one loads
  what two overlapping ones left; two days, so that a memory of yesterday is read.
* `Deferral`: a window of two ticks in a clock of three, so that a check falls before,
  at and after the deadline; two stop lines and two prices, at the lower and at the
  higher one, so that a quote is at, above or below the line in force and the higher one
  is at the first stop of the lower line; two cron runs, of which one meets the other's
  lock. The run with the violation has two people and a window of one.
* `Fetcher`: two codes and two tries, so that an answer could be left over for the
  other code and for the other try; one process, since two share nothing but the row
  and the bond snapshot, which each writes in one statement (the theorems are
  for any number); a fresh bond snapshot is
  one of the same tick.
* `Monitor_day`: two codes and three days, in which a rule comes due for review, a
  report appears and rows expire. The facts are ordered by how many of them differ
  from an ordinary, clean company; each odd value is a threshold, one beyond it, or a
  missing one. Stored facts differ in one respect (in two for a few combinations that
  a single one would hide), stored facts and inputs together in two. Two are needed:
  what a snapshot concludes is a conjunction of flags, so a forgotten one shows with
  one deviation, and a flag that hides another with two.

### Fairness

* `SchemaBootstrap_live`: weak fairness of each process, which means that the
  operating system runs a process that can run. No strong fairness is needed for the
  lock: each process takes it once for one bootstrap, `flock` blocks until it is free,
  and kills are bounded. Where lock files differ, a process may end with an error
  instead.
* `Deferral_window`: weak fairness of the kill by `timeout` and of the end of the push,
  which `curl -m 10` bounds. That the check itself answers is not assumed.
* `Fetcher_batch`: weak fairness of the parent, which waits with a timeout, and of the
  end of a child that has already answered. A child that works owes nothing.

Commands of the other modules promise nothing that must eventually happen.

### Mutants

Every property of a passing run has a mutant in `PROJECT.json`: a definition with the
defect a change of the code could bring in (a forgotten condition, the wrong order,
a row replaced instead of updated), under which the run finds the property violated.
The mutated forms stand in front of the definitions they replace, marked "Mutant".

## 4. What is proved

All theorems are for every value of the constants: any number of processes, codes,
lots, days, migrations, kills, facts. Every safety invariant and every action property
of the runs is stated by one.

| Module | Theorem | Property |
|---|---|---|
| HoldingLedgerProofs | TypeCorrect, SharesAlwaysMatch, ClosedAlwaysEmpty, AtMostOneOpenRow | `TypeOK`, `SharesMatchLedger`, `ClosedIsEmpty`, `OneOpenRowPerCode` |
| HoldingLedgerProofs | LedgerImplementsLifecycle | `ImplementsLifecycle` |
| HoldingLedgerProofs | EventsNeverLost, ClosedForGood, SalesFirstInFirstOut, NewLotsAreClean | `EventsAreImmutable`, `ClosedIsFinal`, `SalesAreFifo`, `NewLotInheritsNothing` |
| HoldingLedgerProofs | StopsTearOneWay, OrphansHaveAnAuthor | `StopsTornOnlyByOvertaken`, `OrphansOnlyByOvertaken` |
| SchemaBootstrapProofs | SchemaTypeCorrect, LedgerIsTruthful, ReadyIsMigrated, BackfillIsIdempotent, RowsSurvive, LockedBootstrapSucceeds | `TypeOK`, `RecordedIsApplied`, `MigratedWhenReady`, `BackfilledOnce`, `NoRowLost`, `NoBootstrapFails` |
| ThesisVersionsProofs | ThesisTypeCorrect, OnlyNewestIsInForce, NeverUnguarded, HistoryIsKept, ListingIsCurrent | `TypeOK`, `ContractIsCurrent`, `NoVacuum`, `RetiredIsFrozen`, `OnlyCurrentActs` |
| InstallerProofs | TypeCorrect, SwitchIsAllOrNothing, KillTearsOnePlace, NoDanglingLink, EverythingIsListed | `TypeOK`, `AllOrNothing`, `TornAtOnePlace`, `LinksResolve`, `NothingLost` |
| ResearchCacheProofs | TypeCorrect, EvidenceIsCarried, QuotesNeverRegress, FlagsStay, FreshStays, OnlyOvertakenWritersTear | `TypeOK`, `EvidenceSurvivesRefresh`, `LatestNeverRegresses`, `FlagsNotLost`, `FreshSurvivesCleanup`, `OnlyRacesTear` |
| StopAlertProofs | TypeCorrect, EverySightingIsAccountedFor, RepeatedOnlyIfDisturbed | `TypeOK`, `NothingUnreported`, `OncePerLevelAndDay` |
| DeferralProofs | TypeCorrect, Invariant, EveryUnsettledRunIsHeard, NothingIsReleasedEarly, SnapshotNeverAhead, DeadlineNeverMoves | `TypeOK`, `IInv`, `NoSilentRun`, `NoEarlyAction`, `MonitorNeverAhead`, `DeadlineKept` |
| FundamentalsProofs | FundamentalsSound, BreachesNeverClear, ScoresAreEarned, PayloadsAreAccepted | `TypeOK` and the soundness of every stored row, `NoBreachClears`, `ScoreIsEarned`, `PayloadAccepted` |
| FundamentalsProofs | ConclusionsAreEarned, SnapshotsAreAccepted | `ConclusionIsEarned`, `OnlyNamelessRefused` of `Monitor` |
| FundamentalsProofs | RowsAreFetchedForTheirCode, SummariesAreTrue | `RowsAreOfOneCode`, `SummaryIsTrue` of `Fetcher` |

`ClosedIsEmpty`, `OneOpenRowPerCode`, `EventsAreImmutable` and `RetiredIsFrozen` are
proved and no longer repeated by a run.

Assumptions: only the ones the modules name (`BoundsAssumption`, `NullAssumption`,
`RowsAssumption`, `ThesisBounds`, `CacheBounds`, `DeferralAssumption`,
`NotifyAssumption`, `FundamentalsAssumption`, `InputsAssumption`, ...): bounds are
natural numbers, `Null` is no datum, veterans are processes, no cron run is a user, and
a set of inputs holds inputs. `MonitorAssumption` says that there are finitely many
codes, without which the totals of a budget mean nothing, and that `None` is no code.
`LockedBootstrapSucceeds` adds that all processes use one lock file. `FetcherAssumption`
says that the answer "error" and the missing one are no codes. TLC evaluates all of them
in the runs.

The arguments:

* **HoldingLedger.** That the share column equals the events is not inductive. The
  invariant `Sound(row, book)` says of each lot how its row and its events go
  together: price-only or tracked, open or closed, with its dates. Every command
  either writes rows and events of some lots by one of a few helpers or leaves them
  alone, so the lemmas `StepOnRows` and `StepOnOneRow` reduce each action to one lot.
  The refinement sorts the steps into trades, openings, closings, removals and quiet
  ones, each mapped to its step of `LotLifecycle`. Torn stops and orphaned records may
  exist, so there is no invariant to say that they do not: the two theorems are about
  the step that makes one. Whoever reads and writes in one transaction computes the
  stops of the cost it leaves and deletes all that a removed lot had; what is left is
  the write of a command whose read another one had overtaken.
* **SchemaBootstrap.** As long as `holdings` has no id, nothing is recorded on disk:
  the core migration is recorded in a transaction that stays open until the rebuild
  has committed. Whoever rebuilds is therefore the writer and alone, with or without
  the lock file. The ledger's primary key makes a second backfill impossible. With
  one lock file, mutual exclusion gives that no step meets an error.
* **ThesisVersions.** Beside the types: ids are never reused, an active thesis is the
  newest of its lot, an active versioned condition is bound to it, every lot with a
  version has one in force, and a listing shows nothing before its last read.
* **ResearchCache.** What a process between two steps has read is what its next step
  needs (`Ready`: what it will delete had expired, what it will write was checked),
  there are finitely many quotes, and a breach is never recorded as anything but
  blocked. `NewestKeeps` shows that pruning leaves at most the retention and never
  the newest out; it rests on the well-foundedness of the strict subset order, from
  the library, to find the newest and the oldest of finitely many quotes.
* **Installer.** Every step writes one target at most, with one of four kinds of
  content (`OneTarget`). `Resolved` adds the backups to the links that must resolve,
  since a restore brings them back; `Listed` says whose manifest is on disk and that
  what is backed up and still in place is listed somewhere; `Progress` says for each
  phase which targets of an undisturbed installer are new, and which as before.
* **StopAlert.** A level is accounted for if it or a worse one was pushed on its day, is
  in the buffer of a run that has written its memory, or was lost with one. What is
  accounted for stays so (`AccountedStays`): a line under way arrives, stays under way
  or is lost. A memory is honest if every level it names is accounted for (`Honest`).
  The file and the temporary file are honest, and what a run carries is honest but for
  the codes that it has still to print or has in its buffer (`Carries`); by writing its
  memory it becomes one of those that account for them. Neither an overlap nor a kill
  makes a memory dishonest: it only makes one forget, and then a level is pushed again.
  That this takes an overlap, an error or a kill is the second invariant, `Serial`: on
  every other day the runs come one after the other, every push of the day is in the
  file or carried by the one run under way (`Kept`), and nothing is pushed ahead of the
  calendar (`Future`), so what a run prints is new. A run that delivers at its exit finds
  its own memory in the file.
* **Fundamentals.** The gates are read backwards, a lemma for each, from a verdict to
  the facts behind it. A row is sound when its verdicts still follow from the facts
  it stores; a step stores a row only if it is sound under today's rule (`Stored`).
  A score is then earned because judging the cash flow again uses the same facts.
  A stored payload passes the validation of a reader (`ValidInv`) because that part
  of a judgement follows from the evidence alone and not from the day.
* **Monitor.** It has no step, so its theorems are about every sound row under every
  input. `clean` and a proposed trade need complete data, complete data means an empty
  set of gaps, and each gap is read backwards to the fact that it misses. The budget is
  a fold over the codes: `Total` is defined by a recursion whose existence has to be
  shown (`AddsExists`), and then is at least each of its amounts and positive only if
  one is (`TotalBounds`). Both go by a smallest set that is a counterexample
  (`MinimalSubset`), because the library's induction theorems are out of reach. The
  contract is proved in its parts, and only `HoldingsOk` needs the name and the
  framework of a holding.
* **Fetcher.** That rows hold answers of their own code needs `OwnAnswers`: there is an
  answer, or a wait for one, only in a step that calls, and every answer and result is
  of the code that the process is at. A child killed at its timeout leaves nothing
  that a later call could take for its own, so leaving a step or a fetch with no wait
  is all that matters; the industry map and the bond snapshot carry no code.
* **Deferral.** What the gate returns is stated branch by branch (`GateReleases`,
  `GateWithoutMarket`, `SilenceIsSettled`). The two copies of the deadline are related
  by `Original`: while nobody has replaced the evidence of an unresolved event, its due
  date, where it has one, is its start plus the window. Without the exception
  the invariant is false, which is the finding of `Deferral_restart`. `Offered` is
  needed because `alert-open` stores what an earlier check put out, possibly long ago.

Only model-checked: `EventuallyReady`, `LockIsFreed` and `EveryRunEnds`, since liveness
under fairness is out of the prover's reach. What the mutants show, that a defect in
the code breaks a property, is also TLC's.

## 5. Not modelled

* **State migration**: a copy made by hand before the runtime is switched over. Its
  one concurrent case, a writer during the copy, is excluded by its instructions and
  reported as a mismatch.
* **Cost basis, trading costs, lot quantities, lifecycle return, performance**: money
  arithmetic on events whose order and integrity `HoldingLedger` establishes. It keeps
  no state of its own, and money columns would multiply the ledger's states.
* **Unrecorded dividend check, position-size, scenarios, precedence of policy sources,
  decision contract, checklist, catalogues**: functions of their input without state,
  reached by unit tests with concrete values.
* **Research client**: one request per call to a service outside the repository, which
  keeps the state of a request; `Monitor` has its outcomes as an input.
* **Daily brief, tables and reports, parsing of provider frames, argument parsing,
  paths, skills**: formatting and prose.
* Of the snapshot: Research candidates, prompts and opportunity costs, the snapshot of
  an unreadable database, batches of more than 800 codes, totals that overflow, and
  several conditions or alerts of one position.
* Of the gates: verdicts given by hand, in rows stored with `set` or in overrides of
  `score-fundamentals`. They rest on no facts that could be checked.

### Known and not covered by a run

Ledger:

* The path of `close-holding` for price-only rows may pass over a tracked row when a
  code has a price-only, a tracked and another price-only legacy row and two closes
  overlap. Rows of one code newer than the ledger cannot coexist.
* `holding-framework` computes stops from a cost that it reads before it has the write
  lock (`commands_monitor.py:1848`); the child rows that a command inserts after
  `remove-holding` stay until the next `cleanup`. `StopsTornOnlyByOvertaken` and
  `OrphansOnlyByOvertaken` say that nothing else does either, and no later lot inherits
  such a row (`NewLotInheritsNothing`).
* The date check looks at the first buy only (`commands_holdings.py:107`), so an exit
  may be dated before a later purchase.
* A dividend recorded inside the window of another counts for both
  (`commands_holdings.py:942`), and one of them is not reported.

Processes and files:

* The lock file of the bootstrap depends on `TMPDIR` (`schema_ledger.py:22`): two
  processes with different ones are kept apart by the ledger and the write lock alone.
  No data is harmed, which the proofs cover (only `LockedBootstrapSucceeds` asks for
  one lock file), but one of them may meet an error.
* The comment in `schema.py` that DDL autocommits holds for the first pending
  migration of a process only; from its ledger row on a transaction is open.
* Two overlapping installers can leave a suite of two releases, and one that fails
  restores what it backed up over what the other installed. Nothing is lost or
  dangling then (`NothingLost`, `LinksResolve`).

* `stop-alert` saves its memory before its output has left the process
  (`commands_holdings.py:1190`; stdout is not flushed). A kill or a closed reader in
  between loses the alert, and the following runs of the day are silent about that
  level and succeed. `NothingUnreported` says that nothing else loses one; no document
  of the repository promises more.

Cache and gates:

* `set-score` and `set-analysis`, or `set-score-breakdown` and `set-score`, overlapping
  on one day can leave a score on an incomplete row or a breakdown whose total is not
  the score. `OnlyRacesTear` says that exactly these overtaken writers can do it.
* Once `cleanup` has deleted expired fundamentals, the regulatory evidence in them is
  gone, and a later fetch of the same annual report starts without.
* A stored clear verdict of P0 stays clear after its rule has come due for review,
  until a fetch judges it again or the row expires. `NoBreachClears` is therefore said
  of the step that stores.
* A statement without a date is given the quote's (`fetcher.py:2116`), so
  `score-fundamentals` judges it as dated when a review is supplied; `ScoreIsEarned`
  leaves the date out. Framework B needs no cash flow and hence no source for one.

Deferral and snapshot:

* In a crash, a due deferral whose stop line has moved away, or whose quote is stale,
  is printed as normal and not pushed. After `alert-pending` has dropped the evidence,
  a calm market makes the gate release the sale whatever the line.
* The batch of quotes that `monitor-snapshot` reads carries neither tradability nor
  market breadth, so P3 is never decided there and a reached second stop always makes
  the snapshot partial.
* `holdings.name` and `framework` may be NULL, but the contract of the snapshot wants
  them: one such holding makes the command refuse the snapshot of all
  (`OnlyNamelessRefused`).
* The daily brief ends with exit code 0 and no text when every quote fails.
