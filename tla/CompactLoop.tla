---------------------------- MODULE CompactLoop ----------------------------
(***************************************************************************)
(* The shared tail-to-head loop of pg-compact: _compact_relation in        *)
(* compactor.py.  A cursor walks from the physical end of a relation down  *)
(* to an ideal page count; the rows of each window are rewritten, which    *)
(* leaves a dead tail, and VACUUM runs only once in a while to truncate it. *)
(*                                                                         *)
(* This module is the control of the loop.  What it reads from the server  *)
(* (page counts, free pages, whether a window holds rows) is an argument   *)
(* of the action that reads it: the server is shared with applications and *)
(* with autovacuum, so any value may come back.  HeapCompaction supplies   *)
(* these arguments from an explicit relation.                              *)
(***************************************************************************)
EXTENDS Integers

CONSTANTS
    PageCounts,                 \* the page counts pg_relation_size can report
    INITIAL_TAIL_WINDOW_PAGES,  \* 2000 in the code
    MAX_TAIL_WINDOW_PAGES,      \* 20000 in the code
    VACUUM_EVERY_PAGES,         \* 50000 in the code
    ITERATION_SLACK,            \* 100 in the code: iterations beyond one per page
    PLATEAU_TRUNCATE_PERCENT    \* 20 in the code: _PLATEAU_TRUNCATE_RATIO

ASSUME PageCountsAssumption == PageCounts \subseteq Nat
ASSUME WindowAssumption ==
    /\ INITIAL_TAIL_WINDOW_PAGES \in Nat \ {0}
    /\ MAX_TAIL_WINDOW_PAGES \in Nat \ {0}
ASSUME CadenceAssumption ==
    /\ VACUUM_EVERY_PAGES \in Nat \ {0}
    /\ ITERATION_SLACK \in Nat
    /\ PLATEAU_TRUNCATE_PERCENT \in Nat

VARIABLES
    pc,            \* the next statement of _compact_relation
    ideal,         \* target.ideal_pages
    scaffolded,    \* target.setup and target.teardown are given (bulk TOAST)
    pagesBefore,   \* pages_before
    pagesCurrent,  \* pages_current: size after the last VACUUM
    cursor,        \* first page that is not yet cleared, from the tail
    cleared,       \* cleared_since_vacuum
    landing,       \* landing_estimate
    iteration,     \* _iteration, the number of iterations begun
    winStart,      \* win_start of the window being processed
    resume,        \* where _do_vacuum returns to
    beforeVacuum,  \* before_vacuum, measured by _do_vacuum
    batch,         \* cleared: the batch the periodic VACUUM followed
    failed,        \* an exception is leaving the try block
    cancelled      \* QueryCanceled was caught

\* History, not in the code: what the iterations were spent on.
VARIABLES windows, starved

params  == <<ideal, scaffolded, pagesBefore>>
walk    == <<cursor, cleared, landing, pagesCurrent>>
locals  == <<iteration, winStart, resume, beforeVacuum, batch>>
exits   == <<failed, cancelled>>
history == <<windows, starved>>
state   == <<params, walk, locals, exits, history>>
vars    == <<pc, state>>

Least(a, b)    == IF a <= b THEN a ELSE b
Greatest(a, b) == IF a >= b THEN a ELSE b

reclaimable == Greatest(pagesBefore - ideal, 0)
vacuumEvery == Greatest(1, Least(VACUUM_EVERY_PAGES, reclaimable))

(* Mutant: range() excludes its end and the code forgot to add one.        *)
maxIterations_OneShort == reclaimable + ITERATION_SLACK - 1
maxIterations == reclaimable + ITERATION_SLACK

----------------------------------------------------------------------------
(* Labels.  QueryCanceled can only come from a statement sent to the       *)
(* server; any other exception (a lost connection, a lock timeout, a       *)
(* deadlock, the KeyboardInterrupt of Ctrl+C) anywhere inside the try.     *)
(* check_disk_space swallows the errors of its own statements.             *)

StatementLabels ==
    {"measure", "vacuum", "remeasure", "relanding", "probe", "collect", "rewrite"}
TryLabels ==
    StatementLabels \union
    {"head", "admit", "advance", "disk", "disk_wait", "periodic", "plateau", "final"}
Labels ==
    TryLabels \union {"start", "setup", "rollback", "teardown", "returned", "raised"}

Goto(from, to) == pc = from /\ pc' = to
Jump(from, to) == Goto(from, to) /\ UNCHANGED state

Init ==
    /\ pc = "start"
    /\ ideal \in PageCounts
    /\ scaffolded \in BOOLEAN
    /\ pagesBefore = 0 /\ pagesCurrent = 0
    /\ cursor = 0 /\ cleared = 0 /\ landing = 0
    /\ iteration = 0 /\ winStart = 0
    /\ resume = "head" /\ beforeVacuum = 0 /\ batch = 0
    /\ failed = FALSE /\ cancelled = FALSE
    /\ windows = 0 /\ starved = 0

(* Entry: measure the relation; the cursor starts at its physical end.     *)
Start(pages) ==
    /\ Goto("start", IF scaffolded THEN "setup" ELSE "measure")
    /\ pagesBefore' = pages
    /\ pagesCurrent' = pages
    /\ cursor' = pages
    /\ UNCHANGED <<ideal, scaffolded, cleared, landing, locals, exits, history>>

(* target.setup(conn) runs before the try block.                           *)
Setup == Jump("setup", "measure")

----------------------------------------------------------------------------
(* _do_vacuum, called from four places: measure, VACUUM, measure again,    *)
(* then count the free pages in front of the new end of the relation.      *)

CallVacuum(from, site) ==
    /\ Goto(from, "measure")
    /\ resume' = site

VacuumMeasure(pages) ==
    /\ Goto("measure", "vacuum")
    /\ beforeVacuum' = pages
    /\ UNCHANGED <<params, walk, iteration, winStart, resume, batch, exits, history>>

Vacuum == Jump("vacuum", "remeasure")

(* Mutant: cursor follows the new size even where it is larger.            *)
VacuumRemeasure_CursorJumps(pages) ==
    /\ Goto("remeasure", "relanding")
    /\ pagesCurrent' = pages
    /\ cursor' = pages
    /\ cleared' = 0
    /\ UNCHANGED <<params, landing, locals, exits, history>>

(* Mutant: cleared_since_vacuum is not reset.                              *)
VacuumRemeasure_KeepsCleared(pages) ==
    /\ Goto("remeasure", "relanding")
    /\ pagesCurrent' = pages
    /\ cursor' = Least(cursor, pages)
    /\ UNCHANGED <<params, landing, cleared, locals, exits, history>>

VacuumRemeasure(pages) ==
    /\ Goto("remeasure", "relanding")
    /\ pagesCurrent' = pages
    /\ cursor' = Least(cursor, pages)
    /\ cleared' = 0
    /\ UNCHANGED <<params, landing, locals, exits, history>>

VacuumLanding(free) ==
    /\ Goto("relanding", resume)
    /\ landing' = free
    /\ UNCHANGED <<params, cursor, cleared, pagesCurrent, locals, exits, history>>

----------------------------------------------------------------------------
(* The loop.                                                               *)

LoopExit ==
    /\ iteration = maxIterations \/ cursor <= ideal
    /\ Jump("head", "final")

(* A new iteration; the cached landing estimate is probed again when low.  *)
Iterate ==
    /\ iteration < maxIterations
    /\ cursor > ideal
    /\ Goto("head", IF landing < INITIAL_TAIL_WINDOW_PAGES THEN "probe" ELSE "admit")
    /\ iteration' = iteration + 1
    /\ UNCHANGED <<params, walk, winStart, resume, beforeVacuum, batch, exits, history>>

Probe(free) ==
    /\ Goto("probe", "admit")
    /\ landing' = free
    /\ UNCHANGED <<params, cursor, cleared, pagesCurrent, locals, exits, history>>

(* No landing space, but a dead tail that VACUUM can turn into some.       *)
Starve ==
    /\ landing < 1
    /\ cleared > 0
    /\ CallVacuum("admit", "head")
    /\ starved' = starved + 1
    /\ UNCHANGED <<params, walk, iteration, winStart, beforeVacuum, batch, exits, windows>>

(* No landing space and nothing for VACUUM to reclaim: stop.               *)
GiveUp ==
    /\ landing < 1
    /\ cleared <= 0
    /\ Jump("admit", "final")

(* Mutant: the window is not clamped to the landing estimate.              *)
windowPages_NoLanding ==
    Least(Least(INITIAL_TAIL_WINDOW_PAGES, Greatest(cursor - ideal, 1)), MAX_TAIL_WINDOW_PAGES)

windowPages ==
    Least(Least(INITIAL_TAIL_WINDOW_PAGES, Greatest(cursor - ideal, 1)),
          Least(MAX_TAIL_WINDOW_PAGES, Greatest(landing, 1)))

(* Mutant: neither clamp of the window to what is left above the ideal.    *)
OpenWindow_Unclamped ==
    /\ landing >= 1
    /\ Goto("admit", "collect")
    /\ winStart' = cursor - Least(INITIAL_TAIL_WINDOW_PAGES, MAX_TAIL_WINDOW_PAGES)
    /\ UNCHANGED <<params, walk, iteration, resume, beforeVacuum, batch, exits, history>>

OpenWindow ==
    /\ landing >= 1
    /\ Goto("admit", "collect")
    /\ winStart' = Greatest(cursor - windowPages, ideal)
    /\ UNCHANGED <<params, walk, iteration, resume, beforeVacuum, batch, exits, history>>

(* collect_ctids over [win_start, cursor - 1]; an empty window is skipped. *)
Collect(found) == Jump("collect", IF found THEN "rewrite" ELSE "advance")

(* target.rewrite returned, whatever it achieved; the throttle only sleeps. *)
Rewrite == Jump("rewrite", "advance")

windowSpan == cursor - winStart

(* Mutant: counts the trial window instead of the pages of this one.       *)
Advance_CountsTrialWindow ==
    /\ Goto("advance", "disk")
    /\ cleared' = cleared + INITIAL_TAIL_WINDOW_PAGES
    /\ cursor' = winStart
    /\ landing' = Greatest(landing - windowSpan, 0)
    /\ windows' = windows + 1
    /\ UNCHANGED <<params, pagesCurrent, locals, exits, starved>>

Advance ==
    /\ Goto("advance", "disk")
    /\ cleared' = cleared + windowSpan
    /\ cursor' = winStart
    /\ landing' = Greatest(landing - windowSpan, 0)
    /\ windows' = windows + 1
    /\ UNCHANGED <<params, pagesCurrent, locals, exits, starved>>

(* Mutant: wait_for_disk_space neither returns nor times out.              *)
DiskOk_WaitsForEver == Jump("disk", "periodic") \/ Jump("disk_wait", "disk_wait")

(* The disk check: not due or space is fine, or space is low and the loop  *)
(* blocks in wait_for_disk_space, which returns or (Fail) times out.       *)
DiskOk  == Jump("disk", "periodic") \/ Jump("disk_wait", "periodic")
DiskLow == Jump("disk", "disk_wait")

PeriodicVacuum ==
    /\ cleared >= vacuumEvery
    /\ CallVacuum("periodic", "plateau")
    /\ batch' = cleared
    /\ UNCHANGED <<params, walk, iteration, winStart, beforeVacuum, exits, history>>

(* Mutant: > where the code has >=.                                        *)
DeferVacuum_OneMore ==
    /\ cleared <= vacuumEvery
    /\ Jump("periodic", "head")

DeferVacuum ==
    /\ cleared < vacuumEvery
    /\ Jump("periodic", "head")

(* truncated < cleared * _PLATEAU_TRUNCATE_RATIO                           *)
unproductive ==
    (beforeVacuum - pagesCurrent) * 100 < batch * PLATEAU_TRUNCATE_PERCENT

(* beforeVacuum and batch are not read again, and are forgotten here.      *)
Plateau ==
    /\ Goto("plateau", IF unproductive THEN "final" ELSE "head")
    /\ beforeVacuum' = 0
    /\ batch' = 0
    /\ UNCHANGED <<params, walk, iteration, winStart, resume, exits, history>>

(* After the loop: truncate whatever dead tail is left.                    *)
FinalVacuum ==
    /\ cleared > 0
    /\ CallVacuum("final", "teardown")
    /\ UNCHANGED <<params, walk, iteration, winStart, beforeVacuum, batch, exits, history>>

(* Mutant: a small dead tail is left for autovacuum.                       *)
NoFinalVacuum_SmallTail ==
    /\ cleared < vacuumEvery
    /\ Jump("final", "teardown")

NoFinalVacuum ==
    /\ cleared <= 0
    /\ Jump("final", "teardown")

----------------------------------------------------------------------------
(* Exceptions and the way out.                                             *)

(* QueryCanceled is caught: roll back, keep the partial progress.          *)
Cancel ==
    /\ pc \in StatementLabels
    /\ pc' = "rollback"
    /\ cancelled' = TRUE
    /\ UNCHANGED <<params, walk, locals, failed, history>>

Rollback == Jump("rollback", "teardown")

Raise(to) ==
    /\ pc' = to
    /\ failed' = TRUE
    /\ UNCHANGED <<params, walk, locals, cancelled, history>>

(* Any other exception inside the try block, or from the handler.          *)
Fail ==
    /\ pc \in TryLabels \union {"rollback"}
    /\ Raise("teardown")

(* An exception before the try block: teardown is not reached.             *)
FailEarly ==
    /\ pc \in {"start", "setup"}
    /\ Raise("raised")

Teardown == Jump("teardown", IF failed THEN "raised" ELSE "returned")

(* drop_chunk_map fails: its exception replaces a normal return.           *)
TeardownFails ==
    /\ pc = "teardown"
    /\ scaffolded
    /\ Raise("raised")

(* Mutant: no change in size counts as success.                            *)
outcome_NotLonger == IF pagesBefore - pagesCurrent >= 0 THEN "COMPLETED" ELSE "INCOMPLETE_STUCK"

(* The value returned.                                                     *)
outcome == IF pagesBefore - pagesCurrent > 0 THEN "COMPLETED" ELSE "INCOMPLETE_STUCK"

Finished == pc \in {"returned", "raised"}

----------------------------------------------------------------------------
ReadServer ==
    \/ \E pages \in PageCounts : Start(pages) \/ VacuumMeasure(pages) \/ VacuumRemeasure(pages)
    \/ \E free \in 0 .. pagesCurrent : VacuumLanding(free)
    \/ \E free \in 0 .. cursor : Probe(free)
    \/ \E found \in BOOLEAN : Collect(found)

Proceed ==
    \/ ReadServer
    \/ Setup \/ Vacuum \/ LoopExit \/ Iterate \/ Starve \/ GiveUp \/ OpenWindow
    \/ Rewrite \/ Advance \/ DiskOk \/ DiskLow \/ PeriodicVacuum \/ DeferVacuum
    \/ Plateau \/ FinalVacuum \/ NoFinalVacuum \/ Rollback \/ Teardown

Break == FailEarly \/ Cancel \/ Fail \/ TeardownFails

Next == Proceed \/ Break \/ (Finished /\ UNCHANGED vars)

Spec == Init /\ [][Next]_vars

(* Every statement returns or raises (statement_timeout, the timeout of    *)
(* wait_for_disk_space) and the loop is one thread, so it keeps stepping.  *)
FairSpec == Spec /\ WF_vars(Proceed)

----------------------------------------------------------------------------
(* Properties.                                                             *)

TypeOK ==
    /\ pc \in Labels
    /\ ideal \in Nat /\ pagesBefore \in Nat /\ pagesCurrent \in Nat
    /\ scaffolded \in BOOLEAN
    /\ cursor \in Nat /\ cleared \in Nat /\ landing \in Nat
    /\ iteration \in Nat /\ winStart \in Nat
    /\ resume \in {"head", "plateau", "teardown"}
    /\ beforeVacuum \in Nat /\ batch \in Nat
    /\ failed \in BOOLEAN /\ cancelled \in BOOLEAN
    /\ windows \in Nat /\ starved \in Nat

(* Labels inside an iteration, from its start to the cursor's advance.     *)
InWindow == pc \in {"collect", "rewrite", "advance"}
InIteration == InWindow \/ pc \in {"probe", "admit"}

(* "the relation does not grow" rests on VACUUM never being deferred for   *)
(* too long: an iteration begins with less than one cadence of cleared     *)
(* pages, and at most one more window is cleared before VACUUM is called.  *)
DeadTailBounded ==
    /\ InIteration => cleared < vacuumEvery
    /\ pc # "start" => cleared < vacuumEvery + INITIAL_TAIL_WINDOW_PAGES

(* What is waiting for VACUUM was walked over by the cursor: the pages     *)
(* cleared and the pages still ahead never exceed what was there at first. *)
DeadTailIsWalked == cleared + cursor <= pagesBefore

(* The window the loop rewrites is never empty, never reaches below the    *)
(* ideal size, and never holds more pages than the landing estimate, so    *)
(* the max(..., 0) on the decremented estimate is never what saves it.     *)
WindowFitsLanding ==
    InWindow => /\ winStart >= ideal
                /\ windowSpan \in 1 .. landing

(* A loop that was not interrupted does not leave a dead tail behind: on   *)
(* every path to a normal return the last window is followed by a VACUUM.  *)
NoDeadTailLeft == pc = "returned" /\ ~cancelled => cleared = 0

(* The iteration cap is a safety net and not a budget: it stops the loop   *)
(* above the ideal size only after more starved VACUUMs than the slack,    *)
(* each of which was preceded by a window of its own.                      *)
CapOnlyAfterStarvation ==
    /\ starved <= windows
    /\ pc = "head" /\ iteration = maxIterations /\ cursor > ideal
          => starved > ITERATION_SLACK

(* The cursor never climbs back towards the tail, and only a VACUUM that   *)
(* left the relation shorter can take it below the ideal size.             *)
CursorDescends ==
    [][pc # "start" => /\ cursor' <= cursor
                       /\ cursor' < ideal /\ cursor' # cursor => cursor' = pagesCurrent']_vars

(* The loop implements TailWalk: under every interleaving of its deferred  *)
(* VACUUMs, early exits and failures, the front only descends, only VACUUM *)
(* pays debt, and only a debt-free walk is reported as a normal end.       *)
stage ==
    IF failed \/ cancelled THEN "abandoned"
    ELSE CASE pc = "start"    -> "fresh"
           [] pc = "returned" -> "settled"
           [] OTHER           -> "walking"

Walk == INSTANCE TailWalk WITH front <- cursor, debt <- cleared

ImplementsTailWalk == Walk!Spec

(* The loop stops: it cannot alternate VACUUMs and windows for ever.       *)
Termination == <>Finished
=============================================================================
