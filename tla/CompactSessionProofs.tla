------------------------ MODULE CompactSessionProofs ------------------------
(***************************************************************************)
(* Proofs about CompactSession, for any number of runs, any set of         *)
(* configurations and any interleaving of errors, interrupts and lost      *)
(* connections.  Each conjunct of IInv says at which labels a run can be   *)
(* when a piece of its state has a certain value.                          *)
(***************************************************************************)
EXTENDS CompactSession, TLAPS

Ending    == {"unlock", "report", "close", "exited"}
Wrapup    == {"final_rollback", "size_after"} \union MaintenanceLabels
AfterHeap == {"heap_reset", "reset_timeout"} \union ToastLabels \union Wrapup \union Ending
AfterToast == {"toast_reset", "reset_timeout"} \union Wrapup \union Ending
Undecided == {"connect"} \union PreludeLabels \union {"initial_vacuum", "size", "bloat"}

(* Where the settings of the session may still be in force.                *)
SettingsOK(s) ==
    /\ replica[s] => pc[s] \in {"heap_timeout", "heap", "heap_reset", "toast", "toast_reset"}
                                  \union (Ending \ {"exited"})
    /\ lockTimeout[s] => pc[s] \in HeapLabels \union ToastLabels \union {"reset_timeout"}
                                      \union (Ending \ {"exited"})

(* What may have been written, and which outcomes it goes with.            *)
WritesOK(s) ==
    /\ On(s, "dry_run") => did[s] = {} /\ pc[s] \in Undecided \union Ending
    /\ "rewrite" \in did[s] => pc[s] \in AfterHeap
    /\ outcome[s] \notin PhaseOutcomes => "rewrite" \notin did[s] /\ pc[s] \in Ending

(* Exceptions, the outcomes of the phases and the exit status.             *)
ReportOK(s) ==
    /\ raised[s] # "none" => pc[s] \in {"heap_reset", "toast_reset", "unlock", "close", "exited"}
    /\ heapOutcome[s] = "INCOMPLETE_STUCK" => pc[s] \in AfterHeap
    /\ toastOutcome[s] = "INCOMPLETE_STUCK" => pc[s] \in AfterToast
    /\ heapOutcome[s] = "INCOMPLETE_STUCK" /\ toastOutcome[s] = "INCOMPLETE_STUCK"
          => \/ outcome[s] = "INCOMPLETE_STUCK" \/ raised[s] # "none"
             \/ pc[s] \in {"toast_reset", "reset_timeout"}
    /\ exit[s] = "success" =>
          /\ pc[s] \in {"close", "exited"} /\ raised[s] = "none"
          /\ outcome[s] \in SuccessfulOutcomes
          /\ ~(heapOutcome[s] = "INCOMPLETE_STUCK" /\ toastOutcome[s] = "INCOMPLETE_STUCK")
    /\ outcome[s] = "INCOMPLETE_STUCK" => pc[s] \in Wrapup \union Ending
    /\ "progress" \in did[s] =>
          /\ "rewrite" \in did[s] /\ outcome[s] = "COMPLETED"
          /\ pc[s] \notin AfterToast => heapOutcome[s] = "COMPLETED"
          /\ "COMPLETED" \in {heapOutcome[s], toastOutcome[s]}
          /\ pc[s] \in {"close", "exited"} /\ raised[s] = "none" => exit[s] = "success"

IInv ==
    /\ TypeOK /\ MutualExclusion
    /\ \A s \in Sessions : SettingsOK(s) /\ WritesOK(s) /\ ReportOK(s)

----------------------------------------------------------------------------
LEMMA InitInv == Init => IInv
  BY DEF Init, IInv, TypeOK, MutualExclusion, SettingsOK, WritesOK, ReportOK,
         Outcomes, PhaseOutcomes, Labels, LockedLabels, MeasureLabels, HeapLabels, ToastLabels,
         MaintenanceLabels, StatementLabels, PreludeLabels, Undecided

(* A step of one run preserves the invariant.  The lock is what the runs   *)
(* share; everything else is the run's own.                                *)
LEMMA RunInv ==
    ASSUME IInv, NEW s \in Sessions, Run(s) \/ LoseConnection(s)
    PROVE  IInv'
<1>. USE NobodyAssumption
     DEF IInv, TypeOK, MutualExclusion, SettingsOK, WritesOK, ReportOK, On,
         Set, Goto, Call, Record, Skip, settings, phases, results,
         Outcomes, PhaseOutcomes, SuccessfulOutcomes, Labels, LockedLabels, MeasureLabels, HeapLabels,
         ToastLabels, MaintenanceLabels, StatementLabels, PreludeLabels,
         Undecided, Ending, Wrapup, AfterHeap, AfterToast
<1>1. CASE Connect(s)
  <2>1. /\ pc' \in [Sessions -> Labels] /\ UNCHANGED <<config, lock, replica, lockTimeout>>
        /\ UNCHANGED <<phases, outcome, raised>>
    <3>1. pc' \in [Sessions -> Labels]
      BY <1>1 DEF Connect
    <3>. QED
      BY <1>1, <3>1 DEF Connect
  <2>2. /\ connected' \in [Sessions -> BOOLEAN] /\ primed' \in [Sessions -> BOOLEAN]
        /\ exit' \in [Sessions -> {"running", "success", "failed", "interrupted"}]
    BY <1>1 DEF Connect
  <2>3. did' \in [Sessions -> SUBSET {"vacuum", "rewrite", "progress", "reindex"}]
    BY <1>1 DEF Connect
  <2>4. TypeOK'
    BY <2>1, <2>2, <2>3
  <2>5. MutualExclusion'
    BY <1>1 DEF Connect
  <2>6. ASSUME NEW t \in Sessions
        PROVE  SettingsOK(t)' /\ WritesOK(t)'
    BY <1>1 DEF Connect
  <2>7. ASSUME NEW t \in Sessions
        PROVE  ReportOK(t)'
    BY <1>1 DEF Connect
  <2>. QED
    BY <2>4, <2>5, <2>6, <2>7
<1>2. CASE Checks(s)
  <2>1. TypeOK'
    BY <1>2 DEF Checks
  <2>2. MutualExclusion'
    BY <1>2 DEF Checks
  <2>3. ASSUME NEW t \in Sessions
        PROVE  SettingsOK(t)' /\ WritesOK(t)'
    BY <1>2 DEF Checks
  <2>4. ASSUME NEW t \in Sessions
        PROVE  ReportOK(t)'
    BY <1>2 DEF Checks
  <2>. QED
    BY <2>1, <2>2, <2>3, <2>4
<1>3. CASE Banner(s)
  <2>1. /\ pc' \in [Sessions -> Labels] /\ UNCHANGED <<config, lock, replica, lockTimeout>>
        /\ UNCHANGED <<phases, outcome, raised>>
    BY <1>3 DEF Banner
  <2>2. /\ connected' \in [Sessions -> BOOLEAN] /\ primed' \in [Sessions -> BOOLEAN]
        /\ exit' \in [Sessions -> {"running", "success", "failed", "interrupted"}]
    BY <1>3 DEF Banner
  <2>3. did' \in [Sessions -> SUBSET {"vacuum", "rewrite", "progress", "reindex"}]
    BY <1>3 DEF Banner
  <2>4. TypeOK'
    BY <2>1, <2>2, <2>3
  <2>5. MutualExclusion'
    BY <1>3 DEF Banner
  <2>6. ASSUME NEW t \in Sessions
        PROVE  SettingsOK(t)' /\ WritesOK(t)'
    BY <1>3 DEF Banner
  <2>7. ASSUME NEW t \in Sessions
        PROVE  ReportOK(t)'
    BY <1>3 DEF Banner
  <2>. QED
    BY <2>4, <2>5, <2>6, <2>7
<1>4. CASE Exists(s)
  <2>1. TypeOK'
    <3>1. pc' \in [Sessions -> Labels]
      BY <1>4 DEF Exists
    <3>2. outcome' \in [Sessions -> Outcomes]
      BY <1>4 DEF Exists
    <3>3. UNCHANGED <<config, settings, primed, phases, raised, exit, did>>
      BY <1>4 DEF Exists
    <3>. QED
      BY <3>1, <3>2, <3>3
  <2>2. MutualExclusion'
    BY <1>4 DEF Exists
  <2>3. ASSUME NEW t \in Sessions
        PROVE  SettingsOK(t)' /\ WritesOK(t)'
    BY <1>4 DEF Exists
  <2>4. ASSUME NEW t \in Sessions
        PROVE  ReportOK(t)'
    BY <1>4 DEF Exists
  <2>. QED
    BY <2>1, <2>2, <2>3, <2>4
<1>5. CASE Triggers(s)
  <2>1. TypeOK'
    <3>1. pc' \in [Sessions -> Labels]
      BY <1>5 DEF Triggers
    <3>2. outcome' \in [Sessions -> Outcomes]
      BY <1>5 DEF Triggers
    <3>3. UNCHANGED <<config, settings, primed, phases, raised, exit, did>>
      BY <1>5 DEF Triggers
    <3>. QED
      BY <3>1, <3>2, <3>3
  <2>2. MutualExclusion'
    BY <1>5 DEF Triggers
  <2>3. ASSUME NEW t \in Sessions
        PROVE  SettingsOK(t)' /\ WritesOK(t)'
    BY <1>5 DEF Triggers
  <2>4. ASSUME NEW t \in Sessions
        PROVE  ReportOK(t)'
    BY <1>5 DEF Triggers
  <2>. QED
    BY <2>1, <2>2, <2>3, <2>4
<1>6. CASE TryLock(s)
  <2>1. TypeOK'
    BY <1>6 DEF TryLock
  <2>2. MutualExclusion'
    BY <1>6 DEF TryLock
  <2>3. ASSUME NEW t \in Sessions
        PROVE  SettingsOK(t)' /\ WritesOK(t)'
    BY <1>6 DEF TryLock
  <2>4. ASSUME NEW t \in Sessions
        PROVE  ReportOK(t)'
    BY <1>6 DEF TryLock
  <2>. QED
    BY <2>1, <2>2, <2>3, <2>4
<1>7. CASE InitialVacuum(s)
  <2>1. TypeOK'
    BY <1>7 DEF InitialVacuum
  <2>2. MutualExclusion'
    BY <1>7 DEF InitialVacuum
  <2>3. ASSUME NEW t \in Sessions
        PROVE  SettingsOK(t)' /\ WritesOK(t)'
    BY <1>7 DEF InitialVacuum
  <2>4. ASSUME NEW t \in Sessions
        PROVE  ReportOK(t)'
    BY <1>7 DEF InitialVacuum
  <2>. QED
    BY <2>1, <2>2, <2>3, <2>4
<1>8. CASE Size(s)
  <2>1. TypeOK'
    <3>1. pc' \in [Sessions -> Labels]
      BY <1>8 DEF Size
    <3>2. outcome' \in [Sessions -> Outcomes]
      BY <1>8 DEF Size
    <3>3. UNCHANGED <<config, settings, primed, phases, raised, exit, did>>
      BY <1>8 DEF Size
    <3>. QED
      BY <3>1, <3>2, <3>3
  <2>2. MutualExclusion'
    BY <1>8 DEF Size
  <2>3. ASSUME NEW t \in Sessions
        PROVE  SettingsOK(t)' /\ WritesOK(t)'
    BY <1>8 DEF Size
  <2>4. ASSUME NEW t \in Sessions
        PROVE  ReportOK(t)'
    BY <1>8 DEF Size
  <2>. QED
    BY <2>1, <2>2, <2>3, <2>4
<1>9. CASE Decide(s)
  <2>1. TypeOK'
    BY <1>9 DEF Decide
  <2>2. MutualExclusion'
    BY <1>9 DEF Decide
  <2>3. ASSUME NEW t \in Sessions
        PROVE  SettingsOK(t)' /\ WritesOK(t)'
    BY <1>9 DEF Decide
  <2>4. ASSUME NEW t \in Sessions
        PROVE  ReportOK(t)'
    BY <1>9 DEF Decide
  <2>. QED
    BY <2>1, <2>2, <2>3, <2>4
<1>10. CASE Column(s)
  <2>1. TypeOK'
    <3>1. pc' \in [Sessions -> Labels]
      BY <1>10 DEF Column
    <3>2. outcome' \in [Sessions -> Outcomes]
      BY <1>10 DEF Column
    <3>3. UNCHANGED <<config, settings, primed, phases, raised, exit, did>>
      BY <1>10 DEF Column
    <3>. QED
      BY <3>1, <3>2, <3>3
  <2>2. MutualExclusion'
    BY <1>10 DEF Column
  <2>3. ASSUME NEW t \in Sessions
        PROVE  SettingsOK(t)' /\ WritesOK(t)'
    BY <1>10 DEF Column
  <2>4. ASSUME NEW t \in Sessions
        PROVE  ReportOK(t)'
    BY <1>10 DEF Column
  <2>. QED
    BY <2>1, <2>2, <2>3, <2>4
<1>11. CASE SetReplicaRole(s)
  <2>1. TypeOK'
    BY <1>11 DEF SetReplicaRole
  <2>2. MutualExclusion'
    BY <1>11 DEF SetReplicaRole
  <2>3. ASSUME NEW t \in Sessions
        PROVE  SettingsOK(t)' /\ WritesOK(t)'
    BY <1>11 DEF SetReplicaRole
  <2>4. ASSUME NEW t \in Sessions
        PROVE  ReportOK(t)'
    BY <1>11 DEF SetReplicaRole
  <2>. QED
    BY <2>1, <2>2, <2>3, <2>4
<1>12. CASE SetLockTimeout(s)
  <2>1. TypeOK'
    BY <1>12 DEF SetLockTimeout
  <2>2. MutualExclusion'
    BY <1>12 DEF SetLockTimeout
  <2>3. ASSUME NEW t \in Sessions
        PROVE  SettingsOK(t)' /\ WritesOK(t)'
    BY <1>12 DEF SetLockTimeout
  <2>4. ASSUME NEW t \in Sessions
        PROVE  ReportOK(t)'
    BY <1>12 DEF SetLockTimeout
  <2>. QED
    BY <2>1, <2>2, <2>3, <2>4
<1>13. CASE HeapPhase(s)
  <2>1. TypeOK'
    BY <1>13 DEF HeapPhase, Worked
  <2>2. MutualExclusion'
    BY <1>13 DEF HeapPhase, Worked
  <2>3. ASSUME NEW t \in Sessions
        PROVE  SettingsOK(t)' /\ WritesOK(t)'
    BY <1>13 DEF HeapPhase, Worked
  <2>4. ASSUME NEW t \in Sessions
        PROVE  ReportOK(t)'
    <3>1. CASE t # s
      BY <1>13, <3>1 DEF HeapPhase, Worked
    <3>2. CASE t = s
      <4>1. PICK result \in PhaseOutcomes : heapOutcome' = Set(heapOutcome, s, result) /\ Worked(s, result)
        BY <1>13 DEF HeapPhase
      <4>2. CASE result = "COMPLETED"
        BY <1>13, <3>2, <4>1, <4>2 DEF HeapPhase, Worked
      <4>3. CASE result = "INCOMPLETE_STUCK"
        BY <1>13, <3>2, <4>1, <4>3 DEF HeapPhase, Worked
      <4>. QED
        BY <4>2, <4>3
    <3>. QED
      BY <3>1, <3>2
  <2>. QED
    BY <2>1, <2>2, <2>3, <2>4
<1>14. CASE ToastCheck(s)
  <2>1. TypeOK'
    BY <1>14 DEF ToastCheck
  <2>2. MutualExclusion'
    BY <1>14 DEF ToastCheck
  <2>3. ASSUME NEW t \in Sessions
        PROVE  SettingsOK(t)' /\ WritesOK(t)'
    BY <1>14 DEF ToastCheck
  <2>4. ASSUME NEW t \in Sessions
        PROVE  ReportOK(t)'
    BY <1>14 DEF ToastCheck
  <2>. QED
    BY <2>1, <2>2, <2>3, <2>4
<1>15. CASE ToastPhase(s)
  <2>1. TypeOK'
    BY <1>15 DEF ToastPhase, Worked
  <2>2. MutualExclusion'
    BY <1>15 DEF ToastPhase, Worked
  <2>3. ASSUME NEW t \in Sessions
        PROVE  SettingsOK(t)' /\ WritesOK(t)'
    BY <1>15 DEF ToastPhase, Worked
  <2>4. ASSUME NEW t \in Sessions
        PROVE  ReportOK(t)'
    <3>1. CASE t # s
      BY <1>15, <3>1 DEF ToastPhase, Worked
    <3>2. CASE t = s
      <4>1. PICK result \in PhaseOutcomes : toastOutcome' = Set(toastOutcome, s, result) /\ Worked(s, result)
        BY <1>15 DEF ToastPhase
      <4>2. CASE result = "COMPLETED"
        BY <1>15, <3>2, <4>1, <4>2 DEF ToastPhase, Worked
      <4>3. CASE result = "INCOMPLETE_STUCK"
        BY <1>15, <3>2, <4>1, <4>3 DEF ToastPhase, Worked
      <4>. QED
        BY <4>2, <4>3
    <3>. QED
      BY <3>1, <3>2
  <2>. QED
    BY <2>1, <2>2, <2>3, <2>4
<1>16. CASE ResetRole(s)
  <2>1. TypeOK'
    BY <1>16 DEF ResetRole
  <2>2. MutualExclusion'
    BY <1>16 DEF ResetRole
  <2>3. ASSUME NEW t \in Sessions
        PROVE  SettingsOK(t)' /\ WritesOK(t)'
    BY <1>16 DEF ResetRole
  <2>4. ASSUME NEW t \in Sessions
        PROVE  ReportOK(t)'
    BY <1>16 DEF ResetRole
  <2>. QED
    BY <2>1, <2>2, <2>3, <2>4
<1>17. CASE ResetTimeout(s)
  <2>1. TypeOK'
    BY <1>17 DEF ResetTimeout
  <2>2. MutualExclusion'
    BY <1>17 DEF ResetTimeout
  <2>3. ASSUME NEW t \in Sessions
        PROVE  SettingsOK(t)' /\ WritesOK(t)'
    BY <1>17 DEF ResetTimeout
  <2>4. ASSUME NEW t \in Sessions
        PROVE  ReportOK(t)'
    BY <1>17 DEF ResetTimeout
  <2>. QED
    BY <2>1, <2>2, <2>3, <2>4
<1>18. CASE Maintain(s)
  <2>1. TypeOK'
    BY <1>18 DEF Maintain
  <2>2. MutualExclusion'
    BY <1>18 DEF Maintain
  <2>3. ASSUME NEW t \in Sessions
        PROVE  SettingsOK(t)' /\ WritesOK(t)'
    BY <1>18 DEF Maintain
  <2>4. ASSUME NEW t \in Sessions
        PROVE  ReportOK(t)'
    BY <1>18 DEF Maintain
  <2>. QED
    BY <2>1, <2>2, <2>3, <2>4
<1>19. CASE SizeAfter(s)
  <2>1. TypeOK'
    BY <1>19 DEF SizeAfter
  <2>2. MutualExclusion'
    BY <1>19 DEF SizeAfter
  <2>3. ASSUME NEW t \in Sessions
        PROVE  SettingsOK(t)' /\ WritesOK(t)'
    BY <1>19 DEF SizeAfter
  <2>4. ASSUME NEW t \in Sessions
        PROVE  ReportOK(t)'
    BY <1>19 DEF SizeAfter
  <2>. QED
    BY <2>1, <2>2, <2>3, <2>4
<1>20. CASE AdvisoryUnlock(s)
  <2>1. TypeOK'
    BY <1>20 DEF AdvisoryUnlock
  <2>2. MutualExclusion'
    BY <1>20 DEF AdvisoryUnlock
  <2>3. ASSUME NEW t \in Sessions
        PROVE  SettingsOK(t)' /\ WritesOK(t)'
    BY <1>20 DEF AdvisoryUnlock
  <2>4. ASSUME NEW t \in Sessions
        PROVE  ReportOK(t)'
    BY <1>20 DEF AdvisoryUnlock
  <2>. QED
    BY <2>1, <2>2, <2>3, <2>4
<1>21. CASE Report(s)
  <2>1. TypeOK'
    BY <1>21 DEF Report
  <2>2. MutualExclusion'
    BY <1>21 DEF Report
  <2>3. ASSUME NEW t \in Sessions
        PROVE  SettingsOK(t)' /\ WritesOK(t)'
    BY <1>21 DEF Report
  <2>4. ASSUME NEW t \in Sessions
        PROVE  ReportOK(t)'
    BY <1>21 DEF Report
  <2>. QED
    BY <2>1, <2>2, <2>3, <2>4
<1>22. CASE Close(s)
  BY <1>22 DEF Close, EndSession
<1>23. CASE MaintenanceCancelled(s)
  <2>1. TypeOK'
    BY <1>23 DEF MaintenanceCancelled
  <2>2. MutualExclusion'
    BY <1>23 DEF MaintenanceCancelled
  <2>3. ASSUME NEW t \in Sessions
        PROVE  SettingsOK(t)' /\ WritesOK(t)'
    BY <1>23 DEF MaintenanceCancelled
  <2>4. ASSUME NEW t \in Sessions
        PROVE  ReportOK(t)'
    BY <1>23 DEF MaintenanceCancelled
  <2>. QED
    BY <2>1, <2>2, <2>3, <2>4
<1>24. CASE Raise(s)
  BY <1>24 DEF Raise, Handler
<1>25. CASE LoseConnection(s)
  BY <1>25 DEF LoseConnection, EndSession
<1>. QED
  BY <1>1, <1>2, <1>3, <1>4, <1>5, <1>6, <1>7, <1>8, <1>9, <1>10, <1>11, <1>12, <1>13, <1>14, <1>15, <1>16, <1>17, <1>18, <1>19, <1>20, <1>21, <1>22, <1>23, <1>24, <1>25 DEF Run, Proceed

LEMMA Invariant == Spec => []IInv
<1>1. IInv /\ [Next]_vars => IInv'
  <2>1. CASE \E s \in Sessions : Run(s) \/ LoseConnection(s)
    BY <2>1, RunInv
  <2>2. CASE IInv /\ UNCHANGED vars
    BY <2>2 DEF IInv, TypeOK, MutualExclusion, SettingsOK, WritesOK, ReportOK, On,
                vars, settings, phases, results
  <2>. QED
    BY <2>1, <2>2 DEF Next
<1>. QED
  BY <1>1, InitInv, PTL DEF Spec

----------------------------------------------------------------------------
(* The state of every run has its type.                                    *)
THEOREM TypeCorrect == Spec => []TypeOK
<1>1. IInv => TypeOK
  BY DEF IInv
<1>. QED
  BY <1>1, Invariant, PTL

(* Of any number of runs on the table, at most one that still has its      *)
(* connection is past the advisory lock.                                   *)
THEOREM RunsExclude == Spec => []MutualExclusion
<1>1. IInv => MutualExclusion
  BY DEF IInv
<1>. QED
  BY <1>1, Invariant, PTL

(* Role and timeout are reset on every path to the final maintenance.      *)
THEOREM MaintenanceAsUsual == Spec => []MaintenanceIsOrdinary
<1>1. IInv => MaintenanceIsOrdinary
  BY DEF IInv, SettingsOK, MaintenanceIsOrdinary, MaintenanceLabels, HeapLabels, ToastLabels, Ending
<1>. QED
  BY <1>1, Invariant, PTL

(* A dry run writes nothing and a skipped run has rewritten nothing.       *)
THEOREM DryRunsAreDry == Spec => []NothingWritten
<1>1. IInv => NothingWritten
  BY DEF IInv, WritesOK, NothingWritten, PhaseOutcomes
<1>. QED
  BY <1>1, Invariant, PTL

(* A run that raised nothing exits with 0 if a phase of it made progress,  *)
(* and not if both its phases got stuck; one that raised something never   *)
(* does.                                                                   *)
THEOREM ExitIsHonest == Spec => []ExitStatusHonest
<1>1. IInv => ExitStatusHonest
  BY DEF IInv, ReportOK, ExitStatusHonest
<1>. QED
  BY <1>1, Invariant, PTL
=============================================================================
