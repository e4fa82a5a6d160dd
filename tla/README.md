# A verification development of pg-compact

pg-compact shrinks bloated PostgreSQL tables in place. It rewrites the rows of
the last pages of a relation, so that PostgreSQL places the new versions in free
space nearer to the head of the file, and lets VACUUM truncate the emptied tail.
This directory holds TLA+ models of the program, the configurations with which
TLC checks them, and theorems that TLAPS proves about them. Paths below are
relative to the repository (`src/pg_compact/...`).

Run a check with `tlc -config MCCompactLoop.cfg MCCompactLoop.tla` and the like
(the table of runs below names each pair), and a proof with
`tlapm CompactLoopProofs.tla`.

## 1. The system

| Component | Source | State it keeps | Operations | Talks to |
|---|---|---|---|---|
| Run of the program | `cli.py` `main`, `compactor.py` `compact_table` | configuration, connection, advisory lock, `session_replication_role`, `lock_timeout`, outcomes of the phases, exit status | connect, check the server, banner, guards, lock, measure, decide, heap phase, TOAST phase, final VACUUM / REINDEX / ANALYZE, unlock, report | the loop (calls), the server (session state), other runs (advisory lock) |
| Shared loop | `compactor.py` `_compact_relation` | cursor, pages cleared since the last VACUUM, landing estimate, sizes before and now, iteration | prime, probe, size a window, collect, rewrite, advance, check the disk, VACUUM, plateau check, clean up | a target's callbacks, the disk guard, the server |
| Heap target | `compactor.py` `_make_heap_target` | the drain transaction: `from_page`, size before, attempts | collect ctids, drain, VACUUM | the table, which applications write to as well |
| TOAST targets | `compactor.py`, `toast.py` | PG17: none; PG12-16: the chunk map (a temporary table) and the function that scans the heap for it | set up, collect, rewrite, rebuild the map, tear down | the table and its TOAST relation |
| Free space prediction and statistics | `fsm_predict.py`, `stats.py`, `db.py` | none | which page is offered to a row, the bloat split, the page targets | the free space map |
| Disk guard | `disk_guard.py` and its call in the loop | time since the last check, the pause, the warning flag | three tiers of checks, pause, time out | the server, the file system through it |
| Reindexing | `reindex.py` | `is_reindex_active`; across runs, invalid indexes in the catalog | drop invalid indexes, REINDEX CONCURRENTLY | the interrupt handler of `cli.py` |
| Display, logging, arguments | `ui.py`, `logging_utils.py`, `cli.py` | none that the compaction reads | output and parsing | - |

pg-compact is one thread with one connection in autocommit mode. What makes it
hard is its environment: applications and autovacuum change the relation between
any two statements; any statement may be cancelled by `statement_timeout`, wait
for a lock, or fail; the connection may be lost; Ctrl+C may come at any point;
two runs may be started on one table. On top of that the loop defers its VACUUM
for speed, works from a cached estimate of the free space, and has five ways out.

What makes each component correct:

* loop: the dead tail it leaves behind while VACUUM is deferred is bounded, and
  gone when the loop returns; a window never holds more pages than there are to
  land on; the cursor only descends; the loop ends.
* heap target: a drain is all or nothing; nothing is left above the old end.
* TOAST targets: the rewrite of a window touches only rows with a chunk in it, and
  what makes it touch others is known; no page of the tail is passed over; no
  scaffold is left in the session.
* run: one live run per table; session settings undone before anything else is
  executed; a dry run or a skip changes nothing; a run that made progress exits with 0,
  one that raised or got stuck in both phases does not;
  the lock is free in the end.
* prediction: a page that is predicted to be offered fits the row, but for the last
  8 bytes of an empty page; the SQL and
  the predictor agree; the reported parts add up; the target can be reached.
* guard: checks are not forgotten, pauses end, a low disk stops the run.
* reindexing: what interrupted runs leave behind does not pile up, a run that
  says it has reindexed leaves nothing invalid, and whoever stops a run is told
  when something may be left.

`PROJECT.json` lists the hazards at their lines, with the property for each.

## 2. The modules

| Module | Models |
|---|---|
| `CompactLoop` | `_compact_relation`, one action per statement or decision. |
| `TailWalk` | The abstract specification of the loop: a front that descends, a debt that only a truncation pays. |
| `CompactLoopProofs` | The inductive invariant of the loop and its theorems. |
| `HeapCompaction` | Extends `CompactLoop`: the heap target over an explicit relation. |
| `HeapCompactionProofs` | The inductive invariant of the heap phase, its properties, and its refinement of the loop. |
| `ToastCompaction` | Extends `CompactLoop`: both TOAST targets over an explicit TOAST relation, with the chunk map. |
| `ToastCompactionProofs` | The same for the TOAST phase. |
| `CompactSession` | `main` around `compact_table`, for any number of runs on one table. |
| `CompactSessionProofs` | The session's invariants, for any number of runs. |
| `FsmPredict` | The arithmetic of `fsm_predict.py`, `_bloat_from_occupied` and the page targets of both phases. |
| `Placement` | Pages that fill and empty as `FsmPredict` admits. |
| `PlacementProofs` | Theorems about `FsmPredict` and `Placement`. |
| `DiskGuard` | `check_disk_space`, `wait_for_disk_space` and the throttled check of the loop. |
| `DiskGuardProofs` | The guard's type and timing, and what an archive failure does to a pause. |
| `Reindex` | `reindex.py` and the interrupt report of `cli.py`, over several runs beside another session's index build. |
| `ReindexProofs` | The leftovers' invariants, for any set of indexes and number of runs. |
| `SetLemmas` | Facts about finite sets of numbers and about sums, which the proofs share. |
| `MC...` | Instances for TLC. |

Definitions named `X_Something` with a comment that begins "Mutant" are variants
of `X` with one plausible bug. They are used by no specification: each shows that
a property fails when the bug is put in the place of `X`.

### CompactLoop

`pc` is the next statement; the other variables are the function's locals under
their own names (`cursor`, `cleared` for `cleared_since_vacuum`, `landing` for
`landing_estimate`, `winStart`, ...). `_do_vacuum` is called from four places, so
it is a small procedure of four steps (`VacuumMeasure`, `Vacuum`,
`VacuumRemeasure`, `VacuumLanding`) with a return label `resume`. What is read
from the server is a parameter of the action that reads it; `ReadServer` lets any
value come back, because others may have grown, shrunk or filled the relation.
Only `pg_freespace` is held to what it must satisfy: at most as many free pages
as there are pages in front of the page it is asked about.

`QueryCanceled` comes only from statements and is caught (`Cancel`, `Rollback`);
any other exception, Ctrl+C among them, leaves through `Teardown`
(`Fail`), or does not if the `try` was not reached (`FailEarly`). The cleanup may
fail too (`TeardownFails`). Left out: the adaptive throttle (it only sleeps), log
lines and progress updates.

`windows` and `starved` are history: they count what the iterations were spent on.

### HeapCompaction

Its state is a relation at the level pg-compact depends on: on which page each row's
live version is, dead versions per page, the length of the file, the free space map.
The rules of PostgreSQL it relies on are stated in `Targets` (a new version goes to
its own page if there is room, else to a page the map offers, else to the last page,
else it extends the file), `HeapVacuum` (frees dead versions, or leaves some that a
long-running snapshot may still need, rewrites the map, truncates the empty tail, or
part of it) and `Undo` (a rollback revives the old versions and gives no page back).
`held` is history: a VACUUM has left versions behind. The drain is modelled row by
row, with the attempts, the growth check and the rollback of `rewrite`. `DrainBegin`
reads the length of the file and opens the transaction; `DrainUpdate` is the snapshot
of an UPDATE, so others may write between the two, and between the ctids that were
collected and either. Applications insert and delete between any two steps; a row that
the drain has updated is locked by its transaction. Every failure of the loop rolls
the open transaction back (`HeapBreak`).

`ImplementsLoop` states that this system satisfies `CompactLoop`'s `Spec`: the
properties proved of the loop carry over to the heap phase.

### ToastCompaction

The relation is again PostgreSQL's, one slot for one chunk: `at` gives the page of
each chunk of each value in the order of `chunk_seq`. A rewritten value gets a new
`chunk_id` and its old chunks are dead until `ToastVacuum`; a chunk is placed by
the map, else on the last page, else by extension (`Targets`; unlike a heap version
it never prefers the page it came from). VACUUM truncates the whole empty tail or
none of it. `scaffolded` of the loop tells the two strategies apart:

* native: `CollectNative` finds rows by the chunk with `chunk_seq = 0` of the value
  of their first toastable column, which is all that the query of the code asks for;
* bulk: `CreateFunction`, `BuildBegin` and `ScanTuple` are the set-up. The heap is
  read tuple by tuple while applications write; its length was read before, so what
  they append is not scanned. `chunkMap` holds pairs of a value's *present* chunk_id
  and a ctid: one for each tuple, live or dead, that the scan found to point to it. A
  value whose pointer is not the first of its tuple has none, because the function's
  `position()` finds one pointer per tuple; a value that has been rewritten has none,
  because its chunk_id is new. `CollectBulk` and `RebuildDrop` follow the staleness
  test, `RebuildFails` is the call of the function that `drop_chunk_map` has just
  dropped.

Of the heap there are the ctids. `home` is where each row's live version is, `older`
the dead tuples that still hold a pointer. A new version goes to any vacant ctid
(`NewHomes`), also to one that the map or a collected list names for another row: a
ctid is reused as soon as nothing live, and nothing a rollback would revive, is at it.

`rewrite` is one UPDATE of whatever rows are at the ctids when it takes its snapshot
(`RewriteBegin`). It locks its rows one by one, as it reaches them (`RewriteRow`), and
writes the chunks of each one by one (`RewriteChunk`); an exception undoes all of it
(`Undo`). Applications update, delete or replace values of any row that is not locked,
at any step of the set-up and of the loop; a row that the UPDATE has in its snapshot
and has not reached may be changed under it, and is then followed or left out
(`NewVersion`). `ImplementsLoop` is the same statement as for the heap.

One simplification: VACUUM of the TOAST relation frees every dead chunk; that one may
have to leave some is modelled in `HeapCompaction`.

### CompactSession

One process per run. `pc` walks through `main` and `compact_table`; a phase is one
action whose result is the `Outcome` of `_compact_relation` or an exception.
Measurements (size, bloat, columns, triggers) are free choices at the point where
they are read. `Raise` is an error, an interrupt or a lock timeout at any
statement; `Handler` says which `finally` it reaches first. `LoseConnection` ends
the server session: the lock and the settings go, the process goes on and finds
out at its next statement. `did` is history.

### FsmPredict and Placement

`FsmPredict` is a transcription of pure functions, with the default block size. In
`Placement` a version of one of a few sizes lands on any page that `fsm_admits`
predicts from the reported free space and that has the room, and is freed later; the
statistics are evaluated in every state that results. Sizes go up to the whole page of
8168 bytes that `stats.py` asks for when it does not know the row size, and a page
without versions may still have line pointers of old ones, so that its free space is
anywhere around the top category.

### DiskGuard

Each tier is a step of its own, so the disk, the archiver and the errors of statements
may change between the tiers and between the polls. `site` says which of the four
calls of `check_disk_space` is under way. The order is the loop's: a window is written
first (`RewriteWindow`), then the throttle is asked (`CheckNotDue`, `CheckDue`). Time
is counted in small numbers: a window or a VACUUM (`RunVacuum`, after a window or in
an iteration without landing space, which comes back to the head of the loop without a
check) takes 1 to `MaxDelay` units, a poll its interval and up to `MaxDelay` more.

### Reindex

A run of this module is a run of the program that reaches `reindex_table`. The
client (`Find`, `Drop`, `DropFails`, `Send`, `Return`, `Interrupt`, `Crash`) and
the server's statement (`StatementBegins`, `StatementDone`, `StatementFails`) are
two processes: Ctrl+C or a kill of the client may leave the statement running as an
orphan, which completes or dies later. `copies` holds the invalid entries, each with
the run that made it; those of the TOAST table's index have a name of their own,
since `find_invalid_indexes` asks for the indexes of the table only. A foreign
session builds an index CONCURRENTLY at any time: that index is invalid until it is
complete, or for ever if the build fails. PostgreSQL's locks exclude two of these
statements from working at once (`TableFree`). A transaction of one more session
(`txn`) may use the table: `DROP INDEX CONCURRENTLY` and the swap of `REINDEX` wait
for its end. The next run begins when the dead
client's session has ended, because that session holds the advisory lock: this is
`MutualExclusion` of `CompactSession`.

## 3. The runs

Passing runs:

| Run | Instance | Question |
|---|---|---|
| `loop` | `MCCompactLoop` | Do the loop's guarantees hold whatever the server answers and wherever it fails? |
| `heap_shared` | `MCHeapCompaction` / `MCHeapShared` | Beside applications that write, is a drain all or nothing, does the phase end, does it implement the loop? In the behaviours in which nobody else writes: is no row left above the old end of the relation, nor a dead version that VACUUM was free to remove, and is COMPLETED said only when it is shorter? |
| `toast` | `MCToastCompaction` / `MCToast` | Does either TOAST strategy rewrite only rows of the window unless another session wrote or a dead tuple was mapped, pass over no page, drop its scaffold, end, and implement the loop? |
| `session_alone` | `MCCompactSession` / `MCSessionAlone` | For all 64 combinations of flags and one failure or more anywhere: settings, dry run, exit status, lock. |
| `session_race` | `MCCompactSession` / `MCSessionRace` | Can two live runs get past the lock? |
| `placement` | `MCPlacement` | Do admission, threshold, split and the targets of both phases hold for every filling of three pages, with requests up to a whole page? |
| `disk_guard` | `MCDiskGuard` | Is the guard on time, does it end, does it act on a low disk? |
| `reindex` | `MCReindex` | Over three runs that are interrupted, killed or fail anywhere, beside another session's index build: do leftovers pile up, are they reported, does a run end unless another session holds it up for ever? |

Runs that end in a counterexample, each a statement of the documentation, a comment
or a test that the code does not keep (`findings` in `PROJECT.json` has the details,
and further disagreements that reading alone shows and that have no run):

| Run | What it shows |
|---|---|
| `session_stuck` | A run whose only phase got stuck is COMPLETED with exit status 0, because the outcome of a skipped phase stays at its initial COMPLETED. |
| `toast_rebuild` | A stale chunk map is to be rebuilt before the loop goes on; the rebuild drops the scan function together with the map and then calls it, so the run fails there. |
| `toast_grows` | "The relation never grows", says the comment on the VACUUM cadence. A window's pages hold only some chunks of the values they touch; the rewrite writes these values whole, and the first window, clamped by free pages and not by chunks, can make the TOAST relation longer for good. |
| `reindex_drops_valid` | "Such an index is inert" and "left by an interrupted run": the names are read first and dropped one by one later, and an index that another session has finished building in between is dropped although it is valid. |

### Bounds, and why they are enough

* `loop`: page counts 0..4, a trial window of 2 pages, at most 3, a cadence of 3
  pages, a slack of 1. The window is smaller than the cadence and the cadence
  smaller than the relation, so windows accumulate before a VACUUM, a VACUUM is
  followed by more windows, both clamps of the window bite, and the iteration cap
  is reached. The theorems do not depend on these numbers.
* `heap_shared`: 3 rows on 4 pages of 2 slots, a file of at most 7 pages, at most 3
  attempts of a drain (50 in the code), one write by applications or none. A drain
  fills the page ahead, spills over, grows the file, is rolled back and is followed
  by another window; rows can be packed on 2 pages, so there is something to gain
  and something that cannot be gained. Any VACUUM may leave dead versions on any set
  of pages. An application that writes to the window again and again is not met with
  one write; what bounds a drain then, its attempts and the growth check, is met
  because rows that find no room stay above `from_page` by themselves.
* `toast`: two rows, one with a value of two chunks in its first column, the other
  with a value of one chunk in its second, on every placement of the chunks on 3
  pages of 3 slots in a file of at most 4 pages; 4 heap tuples, with or without a dead
  one that points to a value, and one write by an application. A ctid that the map or
  a list names can be taken over by the other row, by the phase's own rewrite or by
  the application's. Values straddle windows, the native strategy meets a row
  it does not look for, the map goes stale. The map is stale below 50 % here (80 %
  in the code and in the other two runs), so that with two values it can be both
  partly hit and not stale; the trial window is one page, so that windows of
  different sizes follow each other.
* `toast_rebuild`, `toast_grows`: the same without applications, with a second value
  in the first row, and with two values of two chunks.
* `session_alone`: every subset of the six flags. `session_race`: two runs with the
  longest path, TOAST and reindexing included; what two runs do to one another is
  the lock, which the number of runs does not change. `SessionSymmetry`
  permutes runs with equal configurations, in a run that has only an invariant.
* `placement`: a full TOAST chunk, two tuple sizes whose sums end within categories,
  and the whole page of `stats.py`, on three interchangeable pages that start with none
  to two old line pointers, to exhaustion.
* `disk_guard`: a timeout of two polls and a check every other window: several
  polls, several pauses, and every tier's answer in each of the four sites.
* `reindex`: two indexes beside those of the TOAST table and of the other session,
  and three runs: one that leaves copies, one that fails to drop some of them, and
  one that finds the rest; one build and one transaction of other sessions.

### Fairness

The fair specifications of the loop, the heap and TOAST phases and the guard ask for
weak fairness of the code's own steps only, not of failures, of applications or of the
server's changes. The code is one thread without a wait of its own, except the pause
of the guard, which has a timeout: `PauseEnds` is checked for it, and `CompactLoop`
takes from it that `disk_wait` is left. A statement returns or fails; one that waits
for ever for a row lock in a TOAST phase without `lock_timeout` does not (a finding),
and is outside this assumption. In `CompactSession` each run is weakly fair as a
process, its failures included. `Reindex` asks for it of the program's steps and of a
REINDEX that has what it waits for. Other sessions owe it nothing: `lock_timeout` is
reset before the final maintenance (`compactor.py:1183`), so a build or an open
transaction may hold a run up for ever. `RunEnds` says that nothing else does.

## 4. The proofs

All theorems are checked by TLAPS for every value of the constants that
the named assumptions allow: page counts are naturals, the windows and the
cadence are positive, the slack is a natural. `RowsAssumption` of the heap and TOAST
modules says that a table has finitely many rows, since the code counts what it finds
on a page, and that `Absent` is not a page number. Every safety property that a
passing run checks is also a theorem, and so are the three refinements.

**CompactLoopProofs.** The properties of the run `loop` other than `Termination`.
None is inductive by itself; `IInv` strengthens them with
* `FreshOK`: before `Start` the walk has not begun (all zero), after it the label
  and the failure flags fit together;
* `DebtOK`: which labels can be reached with pages still cleared, so that every path
  to a normal return passes the final VACUUM;
* `WindowOK`: inside an iteration the cursor is above the ideal size, and a window is
  at most the trial window, which gives the "one window more" of `DeadTailBounded`;
* `BudgetOK`: each iteration begun is a window or a starved VACUUM, each window costs
  at least one page, and no two starved VACUUMs follow each other without a window.
  This is what turns the iteration cap into a safety net.

`InitInv`, `StepInv` (one step per action) and the consequences give
`Spec => []IInv`, from which the invariants, the action property `CursorDescends`
and the refinement `Spec => Walk!Spec` follow. For the refinement the stage of
`TailWalk` is read off `pc` and the two failure flags; `Advance` is `Clear`,
`VacuumRemeasure` is `Truncate`, `Teardown` without a failure is `Settle`, and
`DebtOK` is needed to show that it settles without debt.

**HeapCompactionProofs.** `HeapTypeOK`, `NeverEndsLonger`, `CompletedMeansShorter`,
`DrainAllOrNothing` and `ImplementsLoop`, for any finite set of rows, any page size
and any length of the file. The inductive invariant `HeapInv` is `IInv` of the loop,
`HeapTypeOK` and
* `DrainTypeOK`: a transaction is open only while the loop is in `rewrite`, and all of
  its fields are reset when it is not;
* `FileOK`: what is dead is in the file too, so a truncation loses nothing;
* `DrainOK`: for each page, the old versions that the transaction has left there are
  among its dead ones. This is what makes `Undo` fit: the rows go back to pages that
  still have the slots, although a row may have moved several times and others may
  have inserted. It also says that a row updated so far is below `from_page`, or is
  about to be updated again, which is `DrainAllOrNothing` when nothing is left to do;
* `EndOK`, for runs nobody writes beside and until something fails: no row settles
  above the old end, and what hangs over it is recorded in `cleared`, so that the
  final VACUUM, which the loop's `DebtOK` guarantees, takes it away, unless it has to
  leave dead versions (`held`). While a
  transaction is open a row counts as where it is if that is undone: versions
  appended on the way may be above the old end, but what is committed is below
  `from_page` by `DrainOK` (`CommittedBelow`).

`HeapStepIsLoopStep` maps every step to a step of `CompactLoop` or a stutter; what
it needs of the invariant is that the map reports at most as many free pages in front
of a page as there are pages (`FreePagesCount`) and that the length of the file is a
page count. With the loop's own refinement it gives `HeapPhaseWalks`:
the heap phase implements `TailWalk`.

**ToastCompactionProofs.** `ToastTypeOK`, `StrayRowsExplained`, `NoPageSkipped`,
`NoScaffoldLeft` and `ImplementsLoop`, for any table, any number of columns and
chunks, both strategies. `ToastInv` is `IInv` and
* `StorageInv`: no page is overfilled (`StoreOK`); a value is whole or gone, but for
  the one that is being written (`WholeOK`); what the running UPDATE has replaced is
  dead where it was, so that it can be undone chunk by chunk (`UpdateOK`);
* `HomeOK`: no two rows share a ctid, and those a rollback would give back are free
  for it;
* `MapOK`: the types of the map and of what is left of the scan;
* `TargetOK`, until another session writes, something fails or the map is given a dead
  tuple's ctid: what has been collected, or is being written, has a chunk in the
  window, judged by where its chunks were when the UPDATE began (`SnapshotPages`).
  Nothing is assumed of the ctids: that a row may take over one that is named for
  another is harmless because a rewritten value has left the map, and the values of
  the map are all at home (`MapIsExact`, in `SkipOK`);
* `SkipOK`, without other writers and until something fails: every chunk that the
  strategy looks for, at the cursor or above, is of a value that has been rewritten
  (`Walked`), and of a value that the map still knows, at its row's ctid, if it has
  not. The two halves need each other: `CollectBulk` finds everything in the window
  only because what it does not know has been rewritten;
* `NoScaffoldLeft` itself.

The proof goes conjunct by conjunct over the steps (`StorageStep`, `MapStep`,
`TargetStep`, `SkipStep`, `ScaffoldStep`), because each conjunct has its own few
steps that disturb it; `RewriteChunk` is the long one. `ToastPhaseWalks` is the
composition with the loop's refinement.

**SetLemmas.** `HasLeast` and `HasGreatest` say that there is a lowest collected page
(`from_page`) and a last occupied one, which is where a truncation stops. `AddsUp` and
the lemmas that follow are about the sums of `FiniteSetsExt`: that the recursive
function behind `MapThenSumSet` exists (`SumExists`), is bounded and grows with its
set. An induction over the size of a set is written as the search for a smallest set
where the statement fails, which needs no induction theorem with an operator
parameter.

**CompactSessionProofs.** `MutualExclusion`, `MaintenanceIsOrdinary`, `NothingWritten`
and `ExitStatusHonest`, for any number of runs, any set of configurations and any
failures. The lock is the only thing the runs share, so the invariant is
`MutualExclusion` and, for each run, three facts about where it can be: `SettingsOK`
(at which labels the replica role and the lock timeout can be in force), `WritesOK`
(what can have been written before which label, and with which outcome) and `ReportOK`
(which labels an exception leads to; which outcomes of the phases and which progress
go with success). `RunInv` has one step per label of the program; a loss of the
connection is one of them, since it frees the lock of a run that does not know yet.

**ReindexProofs.** `OneLeftoverPerIndex`, `ReindexedMeansClean` and
`LeftoversAreExplained`, for any set of indexes and any number of runs. The argument
is `CleanStart`: when a statement begins there is no invalid copy on the table,
because the run has found all of them and goes on only when it has dropped what it
found, and nobody else makes copies meanwhile; so all copies on the table are of one
run (`Unique`). `StatementOK` ties the server's statement to its client, orphans
included; `ReportOK` says that `is_reindex_active` is up exactly while the client
waits for the statement.

**DiskGuardProofs.** `GuardIsTimely`, for all intervals, timeouts and delays; beside
the type invariant it needs `LoopOnTime`, how old the last check can be before and
after the one VACUUM that may come between two windows; and `ArchiveFailureIsFinal`:
`Doomed` names where a pause can be after an archive failure, and `StaysDoomed`
that only an error of the WAL tier's statement leads out of it.

**PlacementProofs.** `AdmissionIsThreshold`, `ReportedIsEnough` and `AdmittedFits`
are the arithmetic behind `AdmittedPageFits` and `ThresholdIsAdmission`, for all free
spaces and requests; `SplitAddsUp`, `HeapTargetAboveFloor` and
`ToastTargetNearFullRewrite` that of the report and of both page targets, for every
relation, fillfactor and estimate. `AdmittedPagesFit` and `ThresholdHolds` are the
invariants `AdmittedPageFits` and `ThresholdIsAdmission` of `Placement`, for any set of
pages and any set of sizes up to a whole page. A page that is admitted has the room, or
the 8160 bytes of the top category if more was asked for: the request is clamped to 255
like the page, so that 8160 free bytes are admitted for the 8168 that `stats.py:208`
asks for (a finding). `BreakdownHolds`, `HeapTargetHolds` and `ToastTargetHolds` are
`BreakdownAddsUp`, `HeapTargetIsReachable` and `ToastTargetNearFloor`: what the
arithmetic takes for granted, that the free bytes summed over the pages are at most
the relation and those of some pages at most those of all, is `SumAvailBounds`, from
`SetLemmas`.

The type invariants of the session and of the guard are proved and not listed with
a run; those of the loop, of the heap and TOAST phases and of reindexing are also
checked by their runs. `HeapInv` and `ToastInv` were checked by TLC, part by part on
the instances of the runs, beside their proofs.

**Only model-checked.** `Termination`, `HeapTermination`, `ToastTermination`,
`EventuallyReleased`, `RunEnds`, `PauseEnds` and `LowDiskStopsTheRun`: they need
fairness and ENABLED, which TLAPS 1.4 does not reason about. For the loop, what makes
it end is proved: the iteration cap and the windows' budget in `BudgetOK`.

## 5. Not modelled

* `build_fragmentation_map`, the progress display, log messages and the summary:
  they read and print, and nothing of the compaction reads them back.
* The parsing of arguments and of connection parameters: pure, and without state.
* The adaptive throttle, which only sleeps; the throttle of the progress updates.
* HOT chains and pruning by others, which `HeapCompaction` covers by letting a
  version stay on its own page while there is room; TOAST compression; a VACUUM of
  the TOAST relation that has to leave dead chunks.
* Query builders of `toast.py` and `db.py` that no path of the program calls.
* The bytes of the heap page in the function of the chunk map: what its scan finds
  is modelled (one pointer per tuple, dead tuples included), not how.

## 6. Plan

1. `CompactLoop`, `TailWalk` and their proofs - done.
2. `HeapCompaction`, composed with the loop - done.
3. `CompactSession` and its proofs - done.
4. `FsmPredict`, `Placement` and their proofs, the targets of both phases - done.
5. `DiskGuard` and the proof of its invariant - done.
6. `ToastCompaction`: both strategies over the shared loop - done.
7. `Reindex` and its proofs - done.
8. `HeapCompactionProofs` and `ToastCompactionProofs`: both phases' own properties and
   their refinements of the loop; `ArchiveFailureIsFinal`; the sums of `Placement` - done.
9. Left: a variant for the loop's termination as a safety statement (what each lap
   spends), so that only the fairness of a step remains for TLC.
