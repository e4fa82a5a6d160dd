-------------------------- MODULE DiskGuardProofs --------------------------
(***************************************************************************)
(* Proofs about DiskGuard, for every interval, timeout and delay.          *)
(***************************************************************************)
EXTENDS DiskGuard, TLAPS

(* In the loop the last check is less than the interval old, but for the   *)
(* VACUUM that may have been run since, and for the first window.          *)
LoopOnTime ==
    /\ pc = "loop" /\ ~vacuumed => age < disk_check_interval
    /\ pc = "loop" /\ vacuumed => age < disk_check_interval + MaxDelay

IInv == TypeOK /\ GuardIsTimely /\ LoopOnTime

LEMMA StepInv == IInv /\ [Next]_vars => IInv'
<1>. USE TimesAssumption
     DEF IInv, TypeOK, GuardIsTimely, LoopOnTime, Methods, Sites, Ends, server, rights, guard, Check, Answer
<1>. SUFFICES ASSUME IInv, [Next]_vars
              PROVE  IInv'
  OBVIOUS
<1>1. CASE RewriteWindow
  <2>1. PICK d \in 1 .. MaxDelay : age' = age + d
    BY <1>1 DEF RewriteWindow
  <2>2. age' \in Nat /\ age' < disk_check_interval + 2 * MaxDelay
    BY <1>1, <2>1 DEF RewriteWindow
  <2>. QED
    BY <1>1, <2>2 DEF RewriteWindow
<1>14. CASE RunVacuum
  <2>1. PICK d \in 1 .. MaxDelay : age' = age + d
    BY <1>14 DEF RunVacuum
  <2>2. age' \in Nat /\ age' < disk_check_interval + MaxDelay
    BY <1>14, <2>1 DEF RunVacuum
  <2>. QED
    BY <1>14, <2>2 DEF RunVacuum
<1>15. CASE CheckNotDue
  BY <1>15 DEF CheckNotDue
<1>2. CASE Sleep
  <2>1. PICK d \in 0 .. MaxDelay : start' = start + poll_interval_s + d
    BY <1>2 DEF Sleep
  <2>2. start' \in Nat /\ start' <= timeout_s + poll_interval_s + MaxDelay
    BY <1>2, <2>1 DEF Sleep
  <2>. QED
    BY <1>2, <2>2 DEF Sleep
<1>3. CASE CheckDue
  BY <1>3 DEF CheckDue
<1>4. CASE TryDf
  BY <1>4 DEF TryDf
<1>5. CASE TryWal
  <2>1. walOk \in BOOLEAN
    BY DEF walOk
  <2>2. \E m \in {"wal", "unavailable"}, ok \in BOOLEAN :
            status' = [method |-> m, ok |-> ok] /\ pc' = "answered"
    BY <1>5, <2>1, Zenon DEF TryWal
  <2>3. UNCHANGED <<server, rights, site, warned, start, age, vacuumed>>
    BY <1>5 DEF TryWal
  <2>. QED
    BY <2>2, <2>3
<1>6. CASE BeginWait
  BY <1>6 DEF BeginWait
<1>7. CASE EntryAnswer
  <2>1. /\ pc' \in {"df", "waiting"} /\ site' \in {site, "report"} /\ warned' \in {TRUE, warned}
        /\ UNCHANGED <<server, rights, status, start, age, vacuumed>>
    BY <1>7 DEF EntryAnswer, Resume
  <2>. QED
    BY <2>1
<1>8. CASE PollAnswer
  BY <1>8 DEF PollAnswer, Resume
<1>9. CASE TimeOut
  BY <1>9 DEF TimeOut
<1>10. CASE Continue
  BY <1>10 DEF Continue
<1>11. CASE LoopEnds
  BY <1>11 DEF LoopEnds
<1>12. CASE Environment
  BY <1>12 DEF Environment
<1>13. CASE UNCHANGED vars
  BY <1>13 DEF vars
<1>. QED
  BY <1>1, <1>2, <1>3, <1>4, <1>5, <1>6, <1>7, <1>8, <1>9, <1>10, <1>11, <1>12, <1>13,
     <1>14, <1>15 DEF Next, Guard

LEMMA Invariant == Spec => []IInv
<1>1. Init => IInv
  <2>. SUFFICES ASSUME Init
                PROVE  TypeOK /\ GuardIsTimely /\ LoopOnTime
    BY DEF IInv
  <2>1. TypeOK
    <3>1. status \in [method : Methods, ok : BOOLEAN]
      BY DEF Init, Methods
    <3>2. start \in Nat /\ age \in Nat /\ failed_count \in 0 .. 1
      BY TimesAssumption DEF Init
    <3>. QED
      BY <3>1, <3>2 DEF Init, TypeOK, Sites, Ends
  <2>2. GuardIsTimely /\ LoopOnTime
    BY TimesAssumption DEF Init, GuardIsTimely, LoopOnTime
  <2>. QED
    BY <2>1, <2>2
<1>. QED
  BY <1>1, StepInv, PTL DEF Spec

----------------------------------------------------------------------------
(* The guard's variables have their types.                                 *)
THEOREM TypeCorrect == Spec => []TypeOK
<1>1. IInv => TypeOK
  BY DEF IInv
<1>. QED
  BY <1>1, Invariant, PTL

(* For every interval, timeout and poll: no two checks are further apart   *)
(* than the interval, a VACUUM and a window, and no pause overruns its     *)
(* timeout by more than a poll.                                            *)
THEOREM GuardOnTime == Spec => []GuardIsTimely
<1>1. IInv => GuardIsTimely
  BY DEF IInv
<1>. QED
  BY <1>1, Invariant, PTL

----------------------------------------------------------------------------
(* A pause after an archive failure.                                       *)

(* Once such a pause has begun, each poll falls through to the WAL tier,   *)
(* which is never content again, and only the timeout is left.             *)
Doomed ==
    /\ ~mayRunPrograms /\ failed_count > 0
    /\ \/ pc \in {"waiting", "stopped"}
       \/ site = "poll" /\ pc \in {"df", "wal"}
       \/ site = "poll" /\ pc = "answered" /\ ~status.ok

(* Nothing but an error of the WAL tier's statement leads out of it.       *)
LEMMA StaysDoomed == IInv /\ Doomed /\ ~walError /\ [Next]_vars => Doomed'
<1>. SUFFICES ASSUME IInv, Doomed, ~walError, [Next]_vars
              PROVE  Doomed'
  OBVIOUS
<1>. USE DEF Doomed, server, rights, guard
<1>0. failed_count \in Nat /\ mayRunPrograms = FALSE /\ failed_count # 0
  BY DEF IInv, TypeOK
<1>1. CASE RewriteWindow \/ RunVacuum \/ CheckNotDue
  BY <1>1 DEF RewriteWindow, RunVacuum, CheckNotDue
<1>2. CASE Sleep
  BY <1>2 DEF Sleep, Check
<1>3. CASE CheckDue
  BY <1>3 DEF CheckDue
<1>4. CASE TryDf
  BY <1>0, <1>4 DEF TryDf
<1>5. CASE TryWal
  <2>1. walOk = FALSE
    BY <1>0 DEF walOk
  <2>2. pc' = "answered" /\ status' = [method |-> "wal", ok |-> FALSE]
    BY <1>5, <2>1 DEF TryWal, Answer
  <2>. QED
    BY <1>5, <2>2 DEF TryWal
<1>6. CASE BeginWait
  BY <1>6 DEF BeginWait
<1>7. CASE EntryAnswer
  BY <1>7 DEF EntryAnswer
<1>8. CASE PollAnswer
  BY <1>8 DEF PollAnswer
<1>9. CASE TimeOut
  BY <1>9 DEF TimeOut
<1>10. CASE Continue
  BY <1>10 DEF Continue
<1>11. CASE LoopEnds
  BY <1>11 DEF LoopEnds
<1>12. CASE Environment
  <2>1. failed_count' > 0
    <3>1. failed_count' \in failed_count .. 1
      BY <1>12 DEF Environment
    <3>. QED
      BY <1>0, <3>1
  <2>. QED
    BY <1>12, <2>1 DEF Environment
<1>13. CASE UNCHANGED vars
  BY <1>13 DEF vars
<1>. QED
  BY <1>1, <1>2, <1>3, <1>4, <1>5, <1>6, <1>7, <1>8, <1>9, <1>10, <1>11, <1>12, <1>13
  DEF Next, Guard, Ends

(* A role without df whose server has ever counted an archive failure does *)
(* not get out of a pause, for every interval, timeout and delay.          *)
THEOREM PauseIsFinal == Spec => ArchiveFailureIsFinal
<1>1. ~mayRunPrograms /\ failed_count > 0 /\ pc = "waiting" => Doomed
  BY DEF Doomed
<1>2. Doomed => pc # "loop"
  BY DEF Doomed
<1>. QED
  BY <1>1, <1>2, StaysDoomed, Invariant, PTL DEF Spec, ArchiveFailureIsFinal
=============================================================================
