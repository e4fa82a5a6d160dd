------------------------- MODULE CompactLoopProofs -------------------------
(***************************************************************************)
(* Proofs about the shared loop, for every relation size, window, cadence, *)
(* slack and plateau ratio.  IInv is the inductive invariant; each of its  *)
(* conjuncts says what holds at which labels.                              *)
(***************************************************************************)
EXTENDS CompactLoop, TLAPS

CallLabels == {"measure", "vacuum", "remeasure", "relanding"}

(* Before the entry nothing has been measured.                             *)
FreshOK ==
    /\ pc \in {"start", "setup"} => /\ iteration = 0 /\ windows = 0 /\ starved = 0
                                    /\ cleared = 0 /\ resume = "head"
    /\ pc = "start" => pagesBefore = 0 /\ cursor = 0
    /\ pc \in {"start", "setup"} => ~cancelled

(* How much may be waiting for VACUUM at each label.                       *)
DebtOK ==
    /\ pc = "head" => cleared < vacuumEvery
    /\ pc \in {"relanding", "plateau"} => cleared = 0
    /\ pc \in {"teardown", "returned"} /\ ~failed /\ ~cancelled => cleared = 0
    /\ pc = "rollback" => cancelled
    /\ pc = "returned" => ~failed
    /\ pc = "raised" => failed
    /\ pc \notin {"teardown", "raised"} => ~failed
    /\ pc \notin {"rollback", "teardown", "returned", "raised"} => ~cancelled

(* The window of the current iteration.                                    *)
WindowOK ==
    /\ pc \in {"probe", "admit"} \/ InWindow => cursor > ideal
    /\ InWindow => windowSpan <= INITIAL_TAIL_WINDOW_PAGES

BetweenIterations ==
    \/ pc \in {"head", "disk", "disk_wait", "periodic", "plateau"}
    \/ pc \in CallLabels /\ resume # "teardown"

InLoop == InIteration \/ pc \in {"head", "disk", "disk_wait", "periodic"}

(* What the iterations were spent on: one window or one starved VACUUM     *)
(* each, and no two starved VACUUMs without a window between them.         *)
BudgetOK ==
    /\ InIteration => iteration = windows + starved + 1
    /\ BetweenIterations => iteration = windows + starved
    /\ windows + cursor <= pagesBefore
    /\ starved <= windows
    /\ InLoop /\ cleared > 0 => starved < windows

IInv ==
    /\ TypeOK
    /\ FreshOK
    /\ DeadTailIsWalked
    /\ DeadTailBounded
    /\ DebtOK
    /\ WindowFitsLanding
    /\ WindowOK
    /\ BudgetOK

----------------------------------------------------------------------------
(* The invariant holds before the loop has measured anything.              *)
LEMMA InitInv == Init => IInv
<1> SUFFICES ASSUME Init
             PROVE  IInv
  OBVIOUS
<1>1. ideal \in Nat
  BY PageCountsAssumption DEF Init
<1>2. TypeOK
  BY <1>1 DEF Init, TypeOK, Labels
<1>3. vacuumEvery \in Nat /\ vacuumEvery >= 1
  BY <1>1, CadenceAssumption DEF Init, vacuumEvery, reclaimable, Least, Greatest
<1>4. FreshOK /\ DeadTailIsWalked /\ DebtOK
  BY DEF Init, FreshOK, DeadTailIsWalked, DebtOK
<1>5. DeadTailBounded /\ WindowFitsLanding /\ WindowOK
  BY DEF Init, DeadTailBounded, WindowFitsLanding, WindowOK, InIteration, InWindow
<1>6. BudgetOK
  BY DEF Init, BudgetOK, BetweenIterations, InLoop, InIteration, InWindow, CallLabels
<1>7. QED
  BY <1>2, <1>4, <1>5, <1>6 DEF IInv

(* Every step of the loop, of a failure or of the way out preserves IInv.  *)
(* Advance, OpenWindow and Starve carry the argument; the other actions    *)
(* leave the walk alone or reset it to what the server reports.            *)
LEMMA StepInv == IInv /\ [Next]_vars => IInv'
<1> SUFFICES ASSUME IInv, [Next]_vars
             PROVE  IInv'
  OBVIOUS
<1> USE PageCountsAssumption, WindowAssumption, CadenceAssumption
    DEF IInv, TypeOK, FreshOK, DebtOK, WindowOK, BudgetOK, DeadTailIsWalked,
        DeadTailBounded, WindowFitsLanding, InWindow, InIteration, BetweenIterations,
        InLoop, vacuumEvery, reclaimable, windowSpan, Least, Greatest, Labels,
        TryLabels, StatementLabels, CallLabels, params, walk, locals, exits, history
<1>1. ASSUME NEW pages \in PageCounts, Start(pages)
      PROVE  IInv'
  BY <1>1 DEF Start, Goto
<1>2. ASSUME NEW pages \in PageCounts, VacuumMeasure(pages)
      PROVE  IInv'
  BY <1>2 DEF VacuumMeasure, Goto
<1>3. ASSUME NEW pages \in PageCounts, VacuumRemeasure(pages)
      PROVE  IInv'
  BY <1>3 DEF VacuumRemeasure, Goto
<1>4. ASSUME NEW free \in 0 .. pagesCurrent, VacuumLanding(free)
      PROVE  IInv'
  BY <1>4 DEF VacuumLanding, Goto
<1>5. ASSUME NEW free \in 0 .. cursor, Probe(free)
      PROVE  IInv'
  BY <1>5 DEF Probe, Goto
<1>6. ASSUME NEW found \in BOOLEAN, Collect(found)
      PROVE  IInv'
  BY <1>6 DEF Collect, Jump, Goto, state
<1>7. CASE Setup
  BY <1>7 DEF Setup, Jump, Goto, state
<1>8. CASE Vacuum
  BY <1>8 DEF Vacuum, Jump, Goto, state
<1>9. CASE LoopExit
  BY <1>9 DEF LoopExit, Jump, Goto, state
<1>10. CASE Iterate
  BY <1>10 DEF Iterate, Goto
<1>11. CASE Starve
  <2>1. starved < windows /\ iteration = windows + starved + 1
    BY <1>11 DEF Starve, CallVacuum, Goto
  <2>2. iteration' = windows' + starved' /\ starved' <= windows'
    BY <1>11, <2>1 DEF Starve, CallVacuum, Goto
  <2>3. QED
    BY <1>11, <2>1, <2>2 DEF Starve, CallVacuum, Goto
<1>12. CASE GiveUp
  BY <1>12 DEF GiveUp, Jump, Goto, state
<1>13. CASE OpenWindow
  <2>1. windowPages \in 1 .. landing /\ windowPages <= INITIAL_TAIL_WINDOW_PAGES
    BY <1>13 DEF OpenWindow, windowPages, Goto
  <2>2. winStart' >= ideal /\ winStart' >= cursor - windowPages /\ winStart' < cursor
    BY <1>13, <2>1 DEF OpenWindow, Goto
  <2>3. winStart' \in Nat
    BY <1>13, <2>1 DEF OpenWindow, Goto
  <2>4. QED
    BY <1>13, <2>1, <2>2, <2>3 DEF OpenWindow, Goto
<1>14. CASE Rewrite
  BY <1>14 DEF Rewrite, Jump, Goto, state
<1>15. CASE Advance
  <2>1. windowSpan \in 1 .. landing /\ windowSpan <= INITIAL_TAIL_WINDOW_PAGES
    BY <1>15 DEF Advance, Goto
  <2>2. cleared' + cursor' = cleared + cursor /\ landing' \in Nat
    BY <1>15, <2>1 DEF Advance, Goto
  <2>3. DeadTailBounded'
    BY <1>15, <2>1 DEF Advance, Goto
  <2>4. starved' < windows'
    BY <1>15 DEF Advance, Goto
  <2>5. QED
    BY <1>15, <2>1, <2>2, <2>3, <2>4 DEF Advance, Goto
<1>16. CASE DiskOk
  BY <1>16 DEF DiskOk, Jump, Goto, state
<1>17. CASE DiskLow
  BY <1>17 DEF DiskLow, Jump, Goto, state
<1>18. CASE PeriodicVacuum
  BY <1>18 DEF PeriodicVacuum, CallVacuum, Goto
<1>19. CASE DeferVacuum
  BY <1>19 DEF DeferVacuum, Jump, Goto, state
<1>20. CASE Plateau
  BY <1>20 DEF Plateau, unproductive, Goto
<1>21. CASE FinalVacuum
  BY <1>21 DEF FinalVacuum, CallVacuum, Goto
<1>22. CASE NoFinalVacuum
  BY <1>22 DEF NoFinalVacuum, Jump, Goto, state
<1>23. CASE Rollback
  BY <1>23 DEF Rollback, Jump, Goto, state
<1>24. CASE Teardown
  BY <1>24 DEF Teardown, Jump, Goto, state
<1>25. CASE FailEarly
  BY <1>25 DEF FailEarly, Raise
<1>26. CASE Cancel
  BY <1>26 DEF Cancel
<1>27. CASE Fail
  BY <1>27 DEF Fail, Raise
<1>28. CASE TeardownFails
  BY <1>28 DEF TeardownFails, Raise
<1>29. CASE UNCHANGED vars
  BY <1>29 DEF vars, state
<1>30. QED
  BY <1>1, <1>2, <1>3, <1>4, <1>5, <1>6, <1>7, <1>8, <1>9, <1>10, <1>11, <1>12, <1>13, <1>14, <1>15, <1>16, <1>17, <1>18, <1>19, <1>20, <1>21, <1>22, <1>23, <1>24, <1>25, <1>26, <1>27, <1>28, <1>29
     DEF Next, Proceed, ReadServer, Break

----------------------------------------------------------------------------
(* IInv is an invariant of the loop.                                       *)
THEOREM Invariance == Spec => []IInv
<1>1. Init => IInv
  BY InitInv
<1>2. IInv /\ [Next]_vars => IInv'
  BY StepInv
<1>3. QED
  BY <1>1, <1>2, PTL DEF Spec

(* Every variable of the loop keeps its type: in particular no subtraction *)
(* of _compact_relation ever makes a page number or a counter negative.    *)
THEOREM TypeCorrect == Spec => []TypeOK
<1>1. IInv => TypeOK
  BY DEF IInv
<1>2. QED
  BY <1>1, Invariance, PTL

(* VACUUM is never deferred past one cadence and one window.               *)
THEOREM DeadTailStaysBounded == Spec => []DeadTailBounded
<1>1. IInv => DeadTailBounded
  BY DEF IInv
<1>2. QED
  BY <1>1, Invariance, PTL

(* What waits for VACUUM was walked over by the cursor.                    *)
THEOREM DeadTailAccounted == Spec => []DeadTailIsWalked
<1>1. IInv => DeadTailIsWalked
  BY DEF IInv
<1>2. QED
  BY <1>1, Invariance, PTL

(* Windows are not empty, stay above the ideal size and fit the estimate.  *)
THEOREM WindowsFit == Spec => []WindowFitsLanding
<1>1. IInv => WindowFitsLanding
  BY DEF IInv
<1>2. QED
  BY <1>1, Invariance, PTL

(* A normal return that was not cancelled leaves no dead tail.             *)
THEOREM DeadTailTruncated == Spec => []NoDeadTailLeft
<1>1. IInv => NoDeadTailLeft
  BY DEF IInv, DebtOK, NoDeadTailLeft
<1>2. QED
  BY <1>1, Invariance, PTL

(* The iteration cap can only stop a loop that starved more often than the *)
(* slack: every other iteration moved the cursor by at least one page.     *)
THEOREM CapIsASafetyNet == Spec => []CapOnlyAfterStarvation
<1>1. IInv => CapOnlyAfterStarvation
  <2> SUFFICES ASSUME IInv
               PROVE  CapOnlyAfterStarvation
    OBVIOUS
  <2>1. starved <= windows
    BY DEF IInv, BudgetOK
  <2>2. ASSUME pc = "head", iteration = maxIterations, cursor > ideal
        PROVE  starved > ITERATION_SLACK
    <3>1. iteration = windows + starved /\ windows + cursor <= pagesBefore
      BY <2>2 DEF IInv, BudgetOK, BetweenIterations
    <3>2. reclaimable = pagesBefore - ideal
      BY <2>2, <3>1 DEF IInv, TypeOK, reclaimable, Greatest
    <3>3. QED
      BY <2>2, <3>1, <3>2, CadenceAssumption DEF IInv, TypeOK, maxIterations
  <2>3. QED
    BY <2>1, <2>2 DEF CapOnlyAfterStarvation
<1>2. QED
  BY <1>1, Invariance, PTL

----------------------------------------------------------------------------
(* What a step may do to the cursor.                                       *)
Descent ==
    pc # "start" => /\ cursor' <= cursor
                    /\ cursor' < ideal /\ cursor' # cursor => cursor' = pagesCurrent'

(* The only actions that move the cursor are Advance, which stays at or    *)
(* above the ideal size, and the measurement after a VACUUM.               *)
LEMMA StepDescends == IInv /\ [Next]_vars => Descent
<1> SUFFICES ASSUME IInv, [Next]_vars
             PROVE  Descent
  OBVIOUS
<1>1. CASE Advance
  BY <1>1 DEF Advance, Goto, Descent, IInv, TypeOK, WindowFitsLanding, InWindow, windowSpan
<1>2. ASSUME NEW pages \in PageCounts, VacuumRemeasure(pages)
      PROVE  Descent
  BY <1>2, PageCountsAssumption
     DEF VacuumRemeasure, Goto, Descent, IInv, TypeOK, Least
<1>3. ASSUME NEW pages \in PageCounts, Start(pages)
      PROVE  Descent
  BY <1>3 DEF Start, Goto, Descent
<1>4. CASE cursor' = cursor
  BY <1>4 DEF Descent, IInv, TypeOK
<1>5. ASSUME NEW free \in Nat, VacuumLanding(free) \/ Probe(free)
      PROVE  cursor' = cursor
  BY <1>5 DEF VacuumLanding, Probe
<1>6. QED
  BY <1>1, <1>2, <1>3, <1>4, <1>5
     DEF Next, Proceed, ReadServer, Break, VacuumMeasure, VacuumLanding, Probe,
         Collect, Setup, Vacuum, LoopExit, Iterate, Starve, GiveUp, OpenWindow,
         Rewrite, DiskOk, DiskLow, PeriodicVacuum, DeferVacuum, Plateau,
         FinalVacuum, NoFinalVacuum, Rollback, Teardown, FailEarly, Cancel, Fail,
         TeardownFails, Raise, Jump, state, walk, vars

(* The cursor never climbs, and leaves the ideal size only by truncation.  *)
THEOREM CursorOnlyDescends == Spec => CursorDescends
<1>1. IInv /\ [Next]_vars => Descent
  BY StepDescends
<1>2. Spec => [][Descent]_vars
  BY <1>1, Invariance, PTL DEF Spec
<1>3. QED
  BY <1>2 DEF CursorDescends, Descent

----------------------------------------------------------------------------
(* The loop implements TailWalk.                                           *)

LEMMA InitWalks == Init => Walk!Init
BY DEF Init, Walk!Init, stage

(* While the walk is on, nothing has failed yet: the invariant ties the    *)
(* stage of the abstract walk to the label of the concrete one.            *)
LEMMA StageFact ==
    ASSUME IInv
    PROVE  /\ pc = "start" => stage = "fresh"
           /\ pc \in TryLabels \union {"setup"} => stage = "walking"
           /\ pc = "rollback" => stage = "abandoned"
           /\ pc = "teardown" => stage \in {"walking", "abandoned"}
BY DEF IInv, FreshOK, DebtOK, stage, TryLabels, StatementLabels

(* Advance clears the window, the measurement after a VACUUM truncates,    *)
(* teardown settles, failures abandon, and every other step is invisible.  *)
LEMMA StepWalks == IInv /\ [Next]_vars => [Walk!Next]_(Walk!walkVars)
<1> SUFFICES ASSUME IInv, [Next]_vars
             PROVE  Walk!Next \/ UNCHANGED <<stage, cursor, cleared>>
  BY DEF Walk!walkVars
<1> USE StageFact DEF TryLabels, StatementLabels
<1>1. ASSUME NEW pages \in PageCounts, Start(pages)
      PROVE  Walk!Begin
  BY <1>1 DEF Start, Goto, Walk!Begin, stage, exits, IInv, DebtOK
<1>2. CASE Advance
  <2>1. windowSpan \in 1 .. cursor
    BY <1>2 DEF Advance, Goto, IInv, TypeOK, WindowFitsLanding, InWindow, windowSpan
  <2>2. Walk!Clear(windowSpan)
    BY <1>2, <2>1
       DEF Advance, Goto, Walk!Clear, stage, exits, windowSpan, IInv, TypeOK, DebtOK
  <2>3. QED
    BY <2>1, <2>2 DEF Walk!Next
<1>3. ASSUME NEW pages \in PageCounts, VacuumRemeasure(pages)
      PROVE  Walk!Truncate
  BY <1>3, PageCountsAssumption
     DEF VacuumRemeasure, Goto, Walk!Truncate, stage, exits, IInv, TypeOK, DebtOK, Least
<1>4. CASE Teardown
  <2>1. CASE failed \/ cancelled
    BY <1>4, <2>1 DEF Teardown, Jump, Goto, state, walk, exits, stage
  <2>2. CASE ~failed /\ ~cancelled
    <3>1. Walk!Settle
      BY <1>4, <2>2 DEF Teardown, Jump, Goto, state, walk, exits, stage, Walk!Settle, IInv, DebtOK
    <3>2. QED
      BY <3>1 DEF Walk!Next
  <2>3. QED
    BY <2>1, <2>2
<1>5. CASE FailEarly \/ Fail \/ TeardownFails
  <2>1. stage' = "abandoned" /\ UNCHANGED <<cursor, cleared>>
    BY <1>5 DEF FailEarly, Fail, TeardownFails, Raise, stage, walk
  <2>2. stage \in {"fresh", "walking", "abandoned"}
    BY <1>5 DEF FailEarly, Fail, TeardownFails
  <2>3. QED
    BY <2>1, <2>2 DEF Walk!Next, Walk!Abandon
<1>6. CASE Cancel
  BY <1>6 DEF Cancel, stage, walk, Walk!Next, Walk!Abandon
<1>7. CASE /\ UNCHANGED <<cursor, cleared, failed, cancelled>>
           /\ pc \in TryLabels \union {"setup", "rollback"}
           /\ pc' \in TryLabels \union {"setup", "rollback", "teardown"}
  BY <1>7 DEF stage
<1>8. ASSUME NEW pages \in PageCounts, VacuumMeasure(pages)
      PROVE  UNCHANGED <<stage, cursor, cleared>>
  BY <1>8 DEF VacuumMeasure, Goto, walk, exits, stage
<1>9. ASSUME NEW free \in Nat, VacuumLanding(free) \/ Probe(free)
      PROVE  UNCHANGED <<stage, cursor, cleared>>
  BY <1>9 DEF VacuumLanding, Probe, Goto, exits, stage, IInv, TypeOK
<1>10. ASSUME NEW found \in BOOLEAN, Collect(found)
       PROVE  UNCHANGED <<stage, cursor, cleared>>
  BY <1>10 DEF Collect, Jump, Goto, state, walk, exits, stage
<1>11. CASE Setup \/ Vacuum \/ LoopExit \/ GiveUp \/ Rewrite \/ DiskOk \/ DiskLow
            \/ DeferVacuum \/ NoFinalVacuum \/ Rollback
  BY <1>7, <1>11
     DEF Setup, Vacuum, LoopExit, GiveUp, Rewrite, DiskOk, DiskLow, DeferVacuum,
         NoFinalVacuum, Rollback, Jump, Goto, state, walk, exits
<1>12. CASE Iterate \/ Starve \/ OpenWindow \/ PeriodicVacuum \/ Plateau \/ FinalVacuum
  BY <1>7, <1>12
     DEF Iterate, Starve, OpenWindow, PeriodicVacuum, Plateau, FinalVacuum,
         CallVacuum, Goto, walk, exits
<1>13. CASE UNCHANGED vars
  BY <1>13 DEF vars, state, walk, exits, stage
<1>14. QED
  BY <1>1, <1>2, <1>3, <1>4, <1>5, <1>6, <1>8, <1>9, <1>10, <1>11, <1>12, <1>13
     DEF Next, Proceed, ReadServer, Break, Walk!Next, IInv, TypeOK

(* The loop implements its promise for every relation and every constant.  *)
THEOREM LoopImplementsTailWalk == Spec => ImplementsTailWalk
<1>1. Init => Walk!Init
  BY InitWalks
<1>2. IInv /\ [Next]_vars => [Walk!Next]_(Walk!walkVars)
  BY StepWalks
<1>3. QED
  BY <1>1, <1>2, Invariance, PTL DEF Spec, Walk!Spec, ImplementsTailWalk
=============================================================================
