--------------------------- MODULE ReindexProofs ---------------------------
(***************************************************************************)
(* Proofs about Reindex, for every set of indexes and number of runs: an   *)
(* index of the table has at most one invalid copy, and what the program   *)
(* says of a run agrees with what the run left behind.                     *)
(***************************************************************************)
EXTENDS Reindex, FiniteSetTheorems, TLAPS

InRun       == pc \in {"find", "drop", "reindex"}
Unsent      == pc \in {"find", "drop"} \/ (pc = "reindex" /\ statement = "none")
OnTable     == {c \in copies : c[1] \in TableIndexes}

(* A copy stems from a run that has begun, and from this one only once its *)
(* statement has.                                                          *)
RunsOK ==
    /\ pc # "idle" => run \in 1 .. MaxRuns
    /\ \A c \in copies : c[2] <= run
    /\ Unsent \/ statement = "done" => CopiesOf(run) = {}

(* The statement's place in the run that sent it.                          *)
StatementOK ==
    /\ statement \in {"running", "done", "failed"} => pc = "reindex"
    /\ statement = "orphan" => pc \in {"over", "idle"}

(* Nothing old is on the table when a statement begins, and while it runs  *)
(* the table has its copies only.                                          *)
CleanStart ==
    /\ pc = "drop" => OnTable \subseteq found
    /\ (pc = "reindex" /\ statement = "none") \/ statement = "done" => OnTable = {}
    /\ statement \in {"running", "orphan"} => OnTable \subseteq CopiesOf(run)

Unique == \A c \in OnTable, d \in OnTable : c[1] = d[1] => c = d

(* The flag and the reports.                                               *)
ReportOK ==
    /\ InRun => told = "nothing" /\ ~reindexed /\ (active <=> pc = "reindex")
    /\ reindexed => OnTable = {}

IInv ==
    /\ TypeOK /\ RunsOK /\ StatementOK /\ CleanStart /\ Unique /\ ReportOK
    /\ LeftoversAreExplained

USE DEF InRun, Unsent, OnTable, CopiesOf, TableIndexes

----------------------------------------------------------------------------
LEMMA InitInv == Init => IInv
<1>. SUFFICES ASSUME Init
              PROVE  IInv
  OBVIOUS
<1>1. TypeOK
  <2>1. 0 \in 0 .. MaxRuns
    BY IndexesAssumption
  <2>. QED
    BY <2>1 DEF Init, TypeOK
<1>2. RunsOK /\ StatementOK /\ CleanStart /\ Unique
  BY DEF Init, RunsOK, StatementOK, CleanStart, Unique
<1>3. ReportOK /\ LeftoversAreExplained
  BY DEF Init, ReportOK, LeftoversAreExplained
<1>. QED
  BY <1>1, <1>2, <1>3 DEF IInv

(* No step adds a copy but the beginning of a statement.                   *)
LEMMA StepInv == IInv /\ [Next]_vars => IInv'
<1>. USE IndexesAssumption
     DEF IInv, TypeOK, RunsOK, StatementOK, CleanStart, Unique, ReportOK, LeftoversAreExplained,
         client, server
<1>. SUFFICES ASSUME IInv, [Next]_vars
              PROVE  IInv'
  OBVIOUS
<1>1. CASE Begin
  <2>1. run' = run + 1 /\ run \in 0 .. MaxRuns /\ run < MaxRuns
    BY <1>1 DEF Begin
  <2>2. run' \in 1 .. MaxRuns /\ run' \in 0 .. MaxRuns
    BY <2>1
  <2>3. \A c \in copies : c[2] \in 1 .. MaxRuns /\ c[2] <= run
    OBVIOUS
  <2>4. \A c \in copies : c[2] <= run' /\ c[2] # run'
    BY <2>1, <2>3
  <2>5. CopiesOf(run)' = {} /\ copies' = copies
    BY <2>4, <1>1 DEF Begin
  <2>0. copies' = copies /\ found' = found /\ foreign' = foreign /\ statement' = statement /\ txn' = txn
    BY <1>1 DEF Begin
  <2>6. TypeOK'
    <3>1. /\ pc' = "find" /\ told' = "nothing"
          /\ active' = FALSE /\ reindexed' = FALSE
      BY <1>1 DEF Begin
    <3>. QED
      BY <2>0, <2>2, <3>1
  <2>7. RunsOK'
    BY <1>1, <2>2, <2>4, <2>5 DEF Begin
  <2>8. (StatementOK /\ CleanStart /\ Unique)'
    BY <1>1 DEF Begin
  <2>9. (ReportOK /\ LeftoversAreExplained)'
    BY <1>1 DEF Begin
  <2>. QED
    BY <2>6, <2>7, <2>8, <2>9
<1>2. CASE Find
  BY <1>2 DEF Find, InvalidIndexes
<1>3. ASSUME NEW c \in found, Drop(c)
      PROVE  IInv'
  BY <1>3 DEF Drop
<1>4. CASE Send
  BY <1>4 DEF Send
<1>5. CASE StatementBegins
  BY <1>5 DEF StatementBegins
<1>6. CASE StatementDone
  BY <1>6 DEF StatementDone
<1>7. CASE StatementFails
  BY <1>7 DEF StatementFails
<1>8. CASE OrphanDies
  BY <1>8 DEF OrphanDies
<1>9. CASE Return
  BY <1>9 DEF Return
<1>10. CASE Exit
  BY <1>10 DEF Exit
<1>11. CASE Others
  BY <1>11 DEF Others, ForeignBegins, ForeignEnds, TxnBegins, TxnEnds
<1>12. CASE DropFails
  BY <1>12 DEF DropFails
<1>13. CASE Interrupt
  BY <1>13 DEF Interrupt, Abandoned
<1>14. CASE Crash
  BY <1>14 DEF Crash, Abandoned
<1>15. CASE UNCHANGED vars
  BY <1>15 DEF vars
<1>. QED
  BY <1>1, <1>2, <1>3, <1>4, <1>5, <1>6, <1>7, <1>8, <1>9, <1>10, <1>11, <1>12, <1>13, <1>14, <1>15
  DEF Next, Program, Server, Faults

LEMMA InductiveInvariant == Spec => []IInv
  BY InitInv, StepInv, PTL DEF Spec

----------------------------------------------------------------------------
(* reindex_table's variables and the catalog have their types.             *)
THEOREM TypeCorrect == Spec => []TypeOK
<1>1. IInv => TypeOK
  BY DEF IInv
<1>. QED
  BY <1>1, InductiveInvariant, PTL

(* However many runs in a row are stopped in their REINDEX, an index of    *)
(* the table is left with at most one invalid copy.                        *)
THEOREM AtMostOneLeftover == Spec => []OneLeftoverPerIndex
<1>1. IInv => OneLeftoverPerIndex
  <2>. SUFFICES ASSUME IInv, NEW i \in TableIndexes
                PROVE  Cardinality(Leftovers(i)) <= 1
    BY DEF OneLeftoverPerIndex
  <2>1. CASE Leftovers(i) = {}
    BY <2>1, FS_EmptySet
  <2>2. ASSUME NEW c \in Leftovers(i)
        PROVE  Cardinality(Leftovers(i)) <= 1
    <3>1. Leftovers(i) = {c}
      BY <2>2 DEF Leftovers, IInv, Unique
    <3>2. Cardinality({c}) = 1
      BY FS_Singleton
    <3>. QED
      BY <3>1, <3>2
  <2>. QED
    BY <2>1, <2>2
<1>. QED
  BY <1>1, InductiveInvariant, PTL

(* A run that reports its indexes rebuilt leaves no invalid copy on the    *)
(* table, neither its own nor one of a run before it.                      *)
THEOREM ReindexedLeavesNone == Spec => []ReindexedMeansClean
<1>1. IInv => ReindexedMeansClean
  BY DEF IInv, ReportOK, ReindexedMeansClean, Leftovers
<1>. QED
  BY <1>1, InductiveInvariant, PTL

(* Whoever stopped a run and was not told of a REINDEX has no copy of this *)
(* run to look for: is_reindex_active is right whenever it is read.        *)
THEOREM LeftoversExplained == Spec => []LeftoversAreExplained
<1>1. IInv => LeftoversAreExplained
  BY DEF IInv
<1>. QED
  BY <1>1, InductiveInvariant, PTL
=============================================================================
