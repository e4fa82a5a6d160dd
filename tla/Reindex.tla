------------------------------ MODULE Reindex ------------------------------
(***************************************************************************)
(* Index maintenance over several runs of the program: reindex.py, with    *)
(* what main in cli.py says of an interrupted run.  REINDEX TABLE          *)
(* CONCURRENTLY works in transactions of its own: it enters an invalid     *)
(* copy of every index, builds and swaps them, and drops what was          *)
(* replaced.  When it ends early each of these indexes is left with one    *)
(* invalid entry, which the next run is to find and drop.                  *)
(*                                                                         *)
(* The server is not the repository's: the statement goes on without its   *)
(* client when that dies, an index that another session is building        *)
(* CONCURRENTLY is invalid until it is complete, and it, REINDEX and DROP  *)
(* INDEX CONCURRENTLY lock one another out of the table; REINDEX and DROP  *)
(* also wait for transactions that use it.  compact_table has reset        *)
(* lock_timeout by now, so nothing bounds these waits.  A dead client's    *)
(* session keeps the advisory lock of its run (CompactSession), so the     *)
(* next run begins when that session has ended.                            *)
(***************************************************************************)
EXTENDS Naturals, FiniteSets

CONSTANTS
    Indexes,     \* the table's indexes
    ToastIndex,  \* the index of its TOAST table
    Foreign,     \* an index that another session creates on the table
    MaxRuns      \* bound: runs of the program

ASSUME IndexesAssumption ==
    /\ ToastIndex \notin Indexes /\ Foreign \notin Indexes /\ ToastIndex # Foreign
    /\ MaxRuns \in Nat

VARIABLES
    pc,         \* where reindex_table is, "idle" between runs
    run,        \* number of the run
    found,      \* the names find_invalid_indexes returned, not yet dropped
    active,     \* is_reindex_active
    told,       \* the last thing the run says of how it went
    reindexed,  \* result.reindexed
    statement,  \* the REINDEX on the server
    copies,     \* invalid entries: <<index, run that made it>>
    foreign,    \* state of the index Foreign
    txn         \* a transaction of another session that uses the table

client == <<pc, run, found, active, told, reindexed>>
server == <<statement, copies, foreign, txn>>
vars   == <<client, server>>

TableIndexes == Indexes \union {Foreign}
CopiesOf(n)  == {c \in copies : c[2] = n}
Leftovers(i) == {c \in copies : c[1] = i}

(* REINDEX, DROP INDEX and CREATE INDEX CONCURRENTLY exclude one another.  *)
TableFree == statement \notin {"running", "orphan"} /\ foreign # "building"

Init ==
    /\ pc = "idle" /\ run = 0 /\ found = {} /\ active = FALSE
    /\ told = "nothing" /\ reindexed = FALSE
    /\ statement = "none" /\ copies = {} /\ foreign = "none" /\ txn = "none"

(* A new process: module state is fresh.                                   *)
Begin ==
    /\ pc = "idle"
    /\ run < MaxRuns
    /\ statement # "orphan"
    /\ pc' = "find"
    /\ run' = run + 1
    /\ active' = FALSE
    /\ told' = "nothing"
    /\ reindexed' = FALSE
    /\ UNCHANGED <<found, server>>

----------------------------------------------------------------------------
(* drop_invalid_indexes.                                                   *)

(* Mutant: every invalid index of the schema, whatever its table.          *)
InvalidIndexes_AnyTable ==
    copies \union {c \in {<<Foreign, 0>>} : foreign \in {"building", "invalid"}}

(* The invalid indexes of the table itself; those of its TOAST table       *)
(* belong to another relation.                                             *)
InvalidIndexes ==
    {c \in copies : c[1] \in TableIndexes}
        \union {c \in {<<Foreign, 0>>} : foreign \in {"building", "invalid"}}

Find ==
    /\ pc = "find"
    /\ found' = InvalidIndexes
    /\ pc' = "drop"
    /\ UNCHANGED <<run, active, told, reindexed, server>>

(* DROP INDEX CONCURRENTLY IF EXISTS, by name: whatever has the name now.  *)
Drop(c) ==
    /\ pc = "drop"
    /\ c \in found
    /\ TableFree
    /\ txn # "open"
    /\ found' = found \ {c}
    /\ copies' = copies \ {c}
    /\ foreign' = IF c = <<Foreign, 0>> THEN "dropped" ELSE foreign
    /\ UNCHANGED <<pc, run, active, told, reindexed, statement, txn>>

(* Mutant: an index that cannot be dropped is left for the next run.       *)
DropFails_GoesOn ==
    /\ pc = "drop"
    /\ found # {}
    /\ found' = {}
    /\ UNCHANGED <<pc, run, active, told, reindexed, server>>

(* An error here, or in the query for the names, is outside the try block  *)
(* and ends the run; a cancelled statement ends its maintenance.           *)
DropFails ==
    /\ pc = "find" \/ (pc = "drop" /\ found # {})
    /\ pc' = "over"
    /\ told' \in {"error", "skipped"}
    /\ found' = {}
    /\ UNCHANGED <<run, active, reindexed, server>>

----------------------------------------------------------------------------
(* REINDEX TABLE CONCURRENTLY.                                             *)

Send ==
    /\ pc = "drop"
    /\ found = {}
    /\ pc' = "reindex"
    /\ active' = TRUE
    /\ UNCHANGED <<run, found, told, reindexed, server>>

(* The copies are entered; an invalid index is not copied.                 *)
StatementBegins ==
    /\ pc = "reindex"
    /\ statement = "none"
    /\ TableFree
    /\ statement' = "running"
    /\ copies' = copies \union
          {<<i, run>> : i \in Indexes \union {ToastIndex}
                              \union {j \in {Foreign} : foreign = "valid"}}
    /\ UNCHANGED <<client, foreign, txn>>

(* Built, swapped, and what was replaced is dropped.                       *)
StatementDone ==
    /\ statement \in {"running", "orphan"}
    /\ txn # "open"
    /\ copies' = copies \ CopiesOf(run)
    /\ statement' = IF statement = "running" THEN "done" ELSE "none"
    /\ UNCHANGED <<client, foreign, txn>>

(* A uniqueness violation, a deadlock, a timeout, a server restart: before *)
(* the copies are entered or later.                                        *)
StatementFails ==
    /\ \/ statement = "running"
       \/ pc = "reindex" /\ statement = "none"
    /\ statement' = "failed"
    /\ UNCHANGED <<client, copies, foreign, txn>>

OrphanDies ==
    /\ statement = "orphan"
    /\ statement' = "none"
    /\ UNCHANGED <<client, copies, foreign, txn>>

(* Mutant: a statement that failed is sent again.                          *)
Return_Retries ==
    /\ pc = "reindex"
    /\ statement \in {"done", "failed"}
    /\ pc' = IF statement = "failed" THEN "reindex" ELSE "over"
    /\ active' = (statement = "failed")
    /\ reindexed' = (statement = "done")
    /\ statement' = "none"
    /\ UNCHANGED <<run, found, told, copies, foreign, txn>>

Return ==
    /\ pc = "reindex"
    /\ statement \in {"done", "failed"}
    /\ pc' = "over"
    /\ active' = FALSE
    /\ reindexed' = (statement = "done")
    /\ told' = IF statement = "failed" THEN "reindex_error" ELSE told
    /\ statement' = "none"
    /\ UNCHANGED <<run, found, copies, foreign, txn>>

----------------------------------------------------------------------------
(* Ways out.                                                               *)

(* What becomes of a statement whose client is gone.                       *)
Abandoned(s) == IF s = "running" THEN {"none", "orphan"} ELSE {"none"}

(* Mutant: reset in a finally clause, before the handler reads the flag.   *)
Interrupt_FlagReset ==
    /\ pc \in {"find", "drop", "reindex"}
    /\ pc' = "over"
    /\ told' = "interrupted"
    /\ active' = FALSE
    /\ found' = {}
    /\ statement' \in Abandoned(statement)
    /\ UNCHANGED <<run, reindexed, copies, foreign, txn>>

(* Ctrl+C, and _report_interrupt.                                          *)
Interrupt ==
    /\ pc \in {"find", "drop", "reindex"}
    /\ pc' = "over"
    /\ told' = IF active THEN "interrupted_reindex" ELSE "interrupted"
    /\ found' = {}
    /\ statement' \in Abandoned(statement)
    /\ UNCHANGED <<run, active, reindexed, copies, foreign, txn>>

(* The process is killed, and says nothing.                                *)
Crash ==
    /\ pc \in {"find", "drop", "reindex"}
    /\ pc' = "over"
    /\ told' = "killed"
    /\ found' = {}
    /\ statement' \in Abandoned(statement)
    /\ UNCHANGED <<run, active, reindexed, copies, foreign, txn>>

Exit ==
    /\ pc = "over"
    /\ pc' = "idle"
    /\ UNCHANGED <<run, found, active, told, reindexed, server>>

----------------------------------------------------------------------------
(* Another session: CREATE INDEX CONCURRENTLY, which completes or leaves   *)
(* an invalid index (an error, or a deadlock with a DROP that waits).      *)

ForeignBegins ==
    /\ foreign = "none"
    /\ TableFree
    /\ foreign' = "building"
    /\ UNCHANGED <<client, statement, copies, txn>>

ForeignEnds ==
    /\ foreign = "building"
    /\ foreign' \in {"valid", "invalid"}
    /\ UNCHANGED <<client, statement, copies, txn>>

TxnBegins ==
    /\ txn = "none"
    /\ txn' = "open"
    /\ UNCHANGED <<client, statement, copies, foreign>>

TxnEnds ==
    /\ txn = "open"
    /\ txn' = "ended"
    /\ UNCHANGED <<client, statement, copies, foreign>>

Program == Find \/ (\E c \in found : Drop(c)) \/ Send \/ Return \/ Exit
Server  == StatementBegins \/ StatementDone \/ StatementFails \/ OrphanDies
Others  == ForeignBegins \/ ForeignEnds \/ TxnBegins \/ TxnEnds
Faults  == DropFails \/ Interrupt \/ Crash

Finished == pc = "idle" /\ run = MaxRuns /\ statement = "none" /\ foreign # "building"

Next == Begin \/ Program \/ Server \/ Others \/ Faults \/ (Finished /\ UNCHANGED vars)

Spec == Init /\ [][Next]_vars

(* The program keeps stepping, and so does a REINDEX that has what it      *)
(* waits for.  Other sessions owe nothing: a build or a transaction may    *)
(* stay for ever.                                                          *)
FairSpec == Spec /\ WF_vars(Program) /\ WF_vars(StatementBegins) /\ WF_vars(StatementDone)

----------------------------------------------------------------------------
(* Properties.                                                             *)

TypeOK ==
    /\ pc \in {"idle", "find", "drop", "reindex", "over"}
    /\ run \in 0 .. MaxRuns
    /\ copies \subseteq (TableIndexes \union {ToastIndex}) \X (1 .. MaxRuns)
    /\ found \subseteq TableIndexes \X (0 .. MaxRuns)
    /\ active \in BOOLEAN /\ reindexed \in BOOLEAN
    /\ told \in {"nothing", "error", "skipped", "reindex_error", "interrupted",
                 "interrupted_reindex", "killed"}
    /\ statement \in {"none", "running", "done", "failed", "orphan"}
    /\ foreign \in {"none", "building", "valid", "invalid", "dropped"}
    /\ txn \in {"none", "open", "ended"}

(* Invalid copies do not pile up on the table: however many runs in a row  *)
(* are interrupted, killed or fail, an index has at most one.              *)
OneLeftoverPerIndex == \A i \in TableIndexes : Cardinality(Leftovers(i)) <= 1

(* A run that says it has reindexed leaves no invalid copy on the table,   *)
(* its own or an earlier run's.                                            *)
ReindexedMeansClean ==
    reindexed => \A i \in TableIndexes : Leftovers(i) = {}

(* Whoever stops a run and is not told that it was in a REINDEX has left   *)
(* nothing behind; nor has a run that reports no failure.                  *)
LeftoversAreExplained ==
    pc = "over" /\ told \in {"nothing", "skipped", "error", "interrupted"} => CopiesOf(run) = {}

(* A run never drops an index that is valid: "Such an index is inert",     *)
(* "left [...] by an interrupted run" (reindex.py).                        *)
OnlyInvalidDropped == [][foreign' = "dropped" => foreign \in {"invalid", "dropped"}]_vars

(* A statement of the run waits for another session.                       *)
HeldUp ==
    \/ pc = "drop" /\ found # {} /\ (foreign = "building" \/ txn = "open")
    \/ pc = "reindex" /\ statement = "none" /\ foreign = "building"
    \/ pc = "reindex" /\ statement = "running" /\ txn = "open"

(* A run that does not end is held up by another session and by nothing    *)
(* else: after every failure, and whatever was dropped or is left over,    *)
(* reindex_table comes to its end once the others let go of the table.     *)
RunEnds == <>[]HeldUp \/ (pc # "idle" ~> pc = "idle")
=============================================================================
