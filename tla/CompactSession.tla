--------------------------- MODULE CompactSession ---------------------------
(***************************************************************************)
(* One pg-compact run per session: main() in cli.py around compact_table   *)
(* in compactor.py, on one table, with the advisory lock, the settings of  *)
(* the database session, the two phases and their outcomes.  Each phase is *)
(* a call of _compact_relation, of which only the result matters here (see *)
(* CompactLoop): it returns COMPLETED or INCOMPLETE_STUCK, or raises.      *)
(*                                                                         *)
(* What a run measures (sizes, bloat, columns) is chosen when it is read.  *)
(***************************************************************************)
EXTENDS Naturals, FiniteSets

CONSTANTS
    Sessions,  \* the runs of pg-compact on this table
    Nobody,    \* the holder of a free lock
    Configs    \* the configurations they may be started with

Flags == {"force", "dry_run", "initial_vacuum", "reindex", "toast_compact", "interactive"}

ASSUME ConfigsAssumption == Configs \subseteq SUBSET Flags
ASSUME NobodyAssumption  == Nobody \notin Sessions

VARIABLES
    config,        \* the flags of each run
    pc,            \* the next statement of each run
    connected,     \* the connection is open and alive
    lock,          \* holder of the table's advisory lock
    replica,       \* session_replication_role is replica
    lockTimeout,   \* lock_timeout is set
    primed,        \* the banner has run the initial VACUUM
    heapWorth,     \* heap_worth
    toastWorth,    \* toast_worth
    heapOutcome,   \* heap_outcome
    toastOutcome,  \* toast_outcome
    outcome,       \* result.outcome
    raised,        \* the exception on its way out, or "none"
    exit           \* exit status of the process

\* History: what each run has done to the table.
VARIABLE did

settings == <<connected, lock, replica, lockTimeout>>
phases   == <<heapWorth, toastWorth, heapOutcome, toastOutcome>>
results  == <<outcome, raised, exit>>
vars     == <<config, pc, settings, primed, phases, results, did>>

Outcomes == {"COMPLETED", "SKIPPED_LOCKED", "SKIPPED_EMPTY", "SKIPPED_TRIGGERS",
             "SKIPPED_BELOW_THRESHOLD", "INCOMPLETE_STUCK"}
(* Mutant: an incomplete run counts as a success.                          *)
SuccessfulOutcomes_Stuck ==
    {"COMPLETED", "SKIPPED_EMPTY", "SKIPPED_BELOW_THRESHOLD", "INCOMPLETE_STUCK"}
SuccessfulOutcomes == {"COMPLETED", "SKIPPED_EMPTY", "SKIPPED_BELOW_THRESHOLD"}

PreludeLabels == {"checks", "banner", "exists", "triggers", "lock"}
MeasureLabels == {"initial_vacuum", "size", "bloat", "column"}
HeapLabels    == {"heap_role", "heap_timeout", "heap", "heap_reset"}
ToastLabels   == {"toast_check", "toast_role", "toast", "toast_reset"}
MaintenanceLabels == {"final_vacuum", "reindex", "analyze"}
LockedLabels  == MeasureLabels \union HeapLabels \union ToastLabels
                   \union {"reset_timeout", "final_rollback", "size_after"} \union MaintenanceLabels
StatementLabels == PreludeLabels \union LockedLabels \union {"unlock"}
Labels == StatementLabels \union {"connect", "report", "close", "exited"}

Init ==
    /\ config \in [Sessions -> Configs]
    /\ pc = [s \in Sessions |-> "connect"]
    /\ connected = [s \in Sessions |-> FALSE]
    /\ lock = Nobody
    /\ replica = [s \in Sessions |-> FALSE]
    /\ lockTimeout = [s \in Sessions |-> FALSE]
    /\ primed = [s \in Sessions |-> FALSE]
    /\ heapWorth = [s \in Sessions |-> FALSE]
    /\ toastWorth = [s \in Sessions |-> FALSE]
    /\ heapOutcome = [s \in Sessions |-> "COMPLETED"]
    /\ toastOutcome = [s \in Sessions |-> "COMPLETED"]
    /\ outcome = [s \in Sessions |-> "COMPLETED"]
    /\ raised = [s \in Sessions |-> "none"]
    /\ exit = [s \in Sessions |-> "running"]
    /\ did = [s \in Sessions |-> {}]

Set(f, s, v)       == [f EXCEPT ![s] = v]
Goto(s, from, to)  == pc[s] = from /\ pc' = Set(pc, s, to)
(* A statement sent to the server succeeds.                                *)
Call(s, from, to)  == connected[s] /\ Goto(s, from, to)
On(s, flag)        == flag \in config[s]
Record(s, what)    == did' = Set(did, s, did[s] \union {what})
Skip(s, from, why) == Call(s, from, "unlock") /\ outcome' = Set(outcome, s, why)

----------------------------------------------------------------------------
(* main(), up to compact_table.                                            *)

Connect(s) ==
    /\ \/ Goto(s, "connect", "checks") /\ connected' = Set(connected, s, TRUE) /\ UNCHANGED exit
       \/ Goto(s, "connect", "exited") /\ exit' = Set(exit, s, "failed") /\ UNCHANGED connected
    /\ UNCHANGED <<config, lock, replica, lockTimeout, primed, phases, outcome, raised, did>>

(* Server version and extensions.                                          *)
Checks(s) ==
    /\ \/ Call(s, "checks", IF On(s, "interactive") THEN "banner" ELSE "exists") /\ UNCHANGED exit
       \/ Call(s, "checks", "close") /\ exit' = Set(exit, s, "failed")
    /\ UNCHANGED <<config, settings, primed, phases, outcome, raised, did>>

(* Mutant: the banner does not look at --dry-run.                          *)
Banner_IgnoresDryRun(s) ==
    /\ Goto(s, "banner", "exists")
    /\ \/ /\ connected[s] /\ On(s, "initial_vacuum")
          /\ primed' = Set(primed, s, TRUE)
          /\ Record(s, "vacuum")
       \/ UNCHANGED <<primed, did>>
    /\ UNCHANGED <<config, settings, phases, results>>

(* The banner primes the free space map itself; compact_table then does    *)
(* not.  Any Exception is swallowed, before or after the VACUUM.           *)
Banner(s) ==
    /\ Goto(s, "banner", "exists")
    /\ \/ /\ connected[s] /\ On(s, "initial_vacuum") /\ ~On(s, "dry_run")
          /\ primed' = Set(primed, s, TRUE)
          /\ Record(s, "vacuum")
       \/ UNCHANGED <<primed, did>>
    /\ UNCHANGED <<config, settings, phases, results>>

----------------------------------------------------------------------------
(* compact_table: guards.  A return before the lock goes to the report.    *)

Exists(s) ==
    /\ \/ Call(s, "exists", "triggers") /\ UNCHANGED outcome
       \/ Call(s, "exists", "report") /\ outcome' = Set(outcome, s, "SKIPPED_EMPTY")
    /\ UNCHANGED <<config, settings, primed, phases, raised, exit, did>>

Triggers(s) ==
    /\ \/ Call(s, "triggers", "lock") /\ UNCHANGED outcome
       \/ Call(s, "triggers", "report") /\ outcome' = Set(outcome, s, "SKIPPED_TRIGGERS")
    /\ UNCHANGED <<config, settings, primed, phases, raised, exit, did>>

(* Mutant: a refused lock is not a reason to return.                       *)
TryLock_GoesOn(s) ==
    /\ Call(s, "lock", "initial_vacuum")
    /\ lock' = IF lock = Nobody THEN s ELSE lock
    /\ UNCHANGED <<config, connected, replica, lockTimeout, primed, phases, results, did>>

TryLock(s) ==
    /\ \/ lock = Nobody /\ Call(s, "lock", "initial_vacuum") /\ lock' = s /\ UNCHANGED outcome
       \/ /\ lock # Nobody
          /\ Call(s, "lock", "report")
          /\ outcome' = Set(outcome, s, "SKIPPED_LOCKED")
          /\ UNCHANGED lock
    /\ UNCHANGED <<config, connected, replica, lockTimeout, primed, phases, raised, exit, did>>

----------------------------------------------------------------------------
(* compact_table: measure and decide.                                      *)

InitialVacuum(s) ==
    /\ Call(s, "initial_vacuum", "size")
    /\ IF On(s, "initial_vacuum") /\ ~primed[s] /\ ~On(s, "dry_run")
       THEN Record(s, "vacuum") ELSE UNCHANGED did
    /\ UNCHANGED <<config, settings, primed, phases, results>>

Size(s) ==
    /\ \/ Call(s, "size", "bloat") /\ UNCHANGED outcome
       \/ Skip(s, "size", "SKIPPED_EMPTY")
    /\ UNCHANGED <<config, settings, primed, phases, raised, exit, did>>

(* The online percentages against the threshold, then the page minimum,    *)
(* then --dry-run.                                                         *)
Decide(s) ==
    /\ \E heapOnline \in BOOLEAN, toastOnline \in BOOLEAN, few \in BOOLEAN :
        /\ toastOnline => On(s, "toast_compact")
        /\ heapWorth' = Set(heapWorth, s, On(s, "force") \/ heapOnline)
        /\ toastWorth' = Set(toastWorth, s, toastOnline)
        /\ \/ /\ ~On(s, "force") /\ (few \/ ~(heapOnline \/ toastOnline))
              /\ Skip(s, "bloat", "SKIPPED_BELOW_THRESHOLD")
           \/ /\ On(s, "force") \/ (~few /\ (heapOnline \/ toastOnline))
              /\ Call(s, "bloat", IF On(s, "dry_run") THEN "unlock" ELSE "column")
              /\ UNCHANGED outcome
    /\ UNCHANGED <<config, settings, primed, heapOutcome, toastOutcome, raised, exit, did>>

Column(s) ==
    /\ \/ Call(s, "column", IF heapWorth[s] THEN "heap_role" ELSE "toast_check") /\ UNCHANGED outcome
       \/ Skip(s, "column", "SKIPPED_EMPTY")
    /\ UNCHANGED <<config, settings, primed, phases, raised, exit, did>>

----------------------------------------------------------------------------
(* compact_table: the phases.  Each resets the role in a finally.          *)

SetReplicaRole(s) ==
    /\ \/ Call(s, "heap_role", "heap_timeout")
       \/ Call(s, "toast_role", "toast")
    /\ replica' = Set(replica, s, TRUE)
    /\ UNCHANGED <<config, connected, lock, lockTimeout, primed, phases, results, did>>

SetLockTimeout(s) ==
    /\ Call(s, "heap_timeout", "heap")
    /\ lockTimeout' = Set(lockTimeout, s, TRUE)
    /\ UNCHANGED <<config, connected, lock, replica, primed, phases, results, did>>

(* A phase rewrote rows, and made progress if it returned COMPLETED.       *)
PhaseOutcomes == {"COMPLETED", "INCOMPLETE_STUCK"}
Worked(s, result) ==
    did' = Set(did, s, did[s] \union {"rewrite"}
                              \union (IF result = "COMPLETED" THEN {"progress"} ELSE {}))

HeapPhase(s) ==
    /\ Call(s, "heap", "heap_reset")
    /\ \E result \in PhaseOutcomes : heapOutcome' = Set(heapOutcome, s, result) /\ Worked(s, result)
    /\ UNCHANGED <<config, settings, primed, heapWorth, toastWorth, toastOutcome, results>>

(* No TOASTable column, an empty TOAST relation or too little free space   *)
(* (free_percent, measured again; --force overrides) skips the phase.      *)
ToastCheck(s) ==
    /\ \/ On(s, "toast_compact") /\ Call(s, "toast_check", "toast_role")
       \/ Call(s, "toast_check", "reset_timeout")
    /\ UNCHANGED <<config, settings, primed, phases, results, did>>

ToastPhase(s) ==
    /\ Call(s, "toast", "toast_reset")
    /\ \E result \in PhaseOutcomes : toastOutcome' = Set(toastOutcome, s, result) /\ Worked(s, result)
    /\ UNCHANGED <<config, settings, primed, heapWorth, toastWorth, heapOutcome, results>>

(* reset_replication_role; a pending exception then leaves for the unlock. *)
ResetRole(s) ==
    /\ LET next(l) == IF raised[s] = "none" THEN l ELSE "unlock" IN
          \/ Call(s, "heap_reset", next("toast_check"))
          \/ Call(s, "toast_reset", next("reset_timeout"))
    /\ replica' = Set(replica, s, FALSE)
    /\ UNCHANGED <<config, connected, lock, lockTimeout, primed, phases, results, did>>

(* Mutant: lock_timeout is left as the heap phase set it.                  *)
ResetTimeout_Forgets(s) ==
    /\ Call(s, "reset_timeout", "final_vacuum")
    /\ outcome' = Set(outcome, s, IF "COMPLETED" \in {heapOutcome[s], toastOutcome[s]}
                                  THEN "COMPLETED" ELSE heapOutcome[s])
    /\ UNCHANGED <<config, settings, primed, phases, raised, exit, did>>

(* The overall outcome, and RESET lock_timeout.                            *)
ResetTimeout(s) ==
    /\ Call(s, "reset_timeout", "final_vacuum")
    /\ outcome' = Set(outcome, s, IF "COMPLETED" \in {heapOutcome[s], toastOutcome[s]}
                                  THEN "COMPLETED" ELSE heapOutcome[s])
    /\ lockTimeout' = Set(lockTimeout, s, FALSE)
    /\ UNCHANGED <<config, connected, lock, replica, primed, phases, raised, exit, did>>

----------------------------------------------------------------------------
(* compact_table: final maintenance and the way out.                       *)

Maintain(s) ==
    /\ \/ /\ Call(s, "final_vacuum", IF On(s, "reindex") THEN "reindex" ELSE "analyze")
          /\ Record(s, "vacuum")
       \/ Call(s, "reindex", "analyze") /\ Record(s, "reindex")
       \/ Call(s, "analyze", "size_after") /\ UNCHANGED did
    /\ UNCHANGED <<config, settings, primed, phases, results>>

(* QueryCanceled in the final maintenance is not fatal.                    *)
MaintenanceCancelled(s) ==
    /\ pc[s] \in MaintenanceLabels
    /\ Call(s, pc[s], "final_rollback")
    /\ UNCHANGED <<config, settings, primed, phases, results, did>>

SizeAfter(s) ==
    /\ Call(s, "final_rollback", "size_after") \/ Call(s, "size_after", "unlock")
    /\ UNCHANGED <<config, settings, primed, phases, results, did>>

AdvisoryUnlock(s) ==
    /\ Call(s, "unlock", IF raised[s] = "none" THEN "report" ELSE "close")
    /\ lock' = IF lock = s THEN Nobody ELSE lock
    /\ UNCHANGED <<config, connected, replica, lockTimeout, primed, phases, results, did>>

Report(s) ==
    /\ Goto(s, "report", "close")
    /\ exit' = Set(exit, s, IF outcome[s] \in SuccessfulOutcomes THEN "success" ELSE "failed")
    /\ UNCHANGED <<config, settings, primed, phases, outcome, raised, did>>

(* conn.close() in main's finally: the server drops all session state.     *)
EndSession(s) ==
    /\ connected' = Set(connected, s, FALSE)
    /\ lock' = IF lock = s THEN Nobody ELSE lock
    /\ replica' = Set(replica, s, FALSE)
    /\ lockTimeout' = Set(lockTimeout, s, FALSE)

(* Mutant: the connection is left open.                                    *)
Close_LeavesSession(s) ==
    /\ Goto(s, "close", "exited")
    /\ exit' = Set(exit, s, IF raised[s] = "none" THEN exit[s] ELSE "failed")
    /\ UNCHANGED <<config, settings, primed, phases, outcome, raised, did>>

Close(s) ==
    /\ Goto(s, "close", "exited")
    /\ EndSession(s)
    /\ exit' = Set(exit, s, CASE raised[s] = "interrupt" -> "interrupted"
                              [] raised[s] = "none"      -> exit[s]
                              [] OTHER                   -> "failed")
    /\ UNCHANGED <<config, primed, phases, outcome, raised, did>>

----------------------------------------------------------------------------
(* Exceptions.  Where one raised at a label goes next.                     *)
Handler(l) ==
    CASE l = "heap"                                      -> "heap_reset"
      [] l = "toast"                                     -> "toast_reset"
      [] l \in LockedLabels \ {"heap", "toast"}          -> "unlock"
      [] l \in PreludeLabels \union {"unlock", "report"} -> "close"

(* Any statement may fail; Ctrl+C may come at any time; a phase whose      *)
(* session has a lock_timeout may run into it.  banner swallows errors.    *)
Raise(s) ==
    /\ \/ pc[s] \in StatementLabels \ {"banner"} /\ raised' = Set(raised, s, "error")
       \/ pc[s] \in StatementLabels /\ raised' = Set(raised, s, "interrupt")
       \/ /\ pc[s] \in {"heap", "toast"} /\ lockTimeout[s] /\ connected[s]
          /\ raised' = Set(raised, s, "lock_not_available")
    /\ pc' = Set(pc, s, Handler(pc[s]))
    /\ IF pc[s] \in {"heap", "toast"} THEN Record(s, "rewrite") ELSE UNCHANGED did
    /\ UNCHANGED <<config, settings, primed, phases, outcome, exit>>

(* The connection breaks, or the server restarts.                          *)
LoseConnection(s) ==
    /\ connected[s]
    /\ EndSession(s)
    /\ UNCHANGED <<config, pc, primed, phases, results, did>>

----------------------------------------------------------------------------
Proceed(s) ==
    \/ Connect(s) \/ Checks(s) \/ Banner(s) \/ Exists(s) \/ Triggers(s) \/ TryLock(s)
    \/ InitialVacuum(s) \/ Size(s) \/ Decide(s) \/ Column(s)
    \/ SetReplicaRole(s) \/ SetLockTimeout(s) \/ HeapPhase(s) \/ ToastCheck(s)
    \/ ToastPhase(s) \/ ResetRole(s) \/ ResetTimeout(s)
    \/ Maintain(s) \/ SizeAfter(s) \/ AdvisoryUnlock(s) \/ Report(s) \/ Close(s)

Run(s) == Proceed(s) \/ MaintenanceCancelled(s) \/ Raise(s)

AllExited == \A s \in Sessions : pc[s] = "exited"

Next ==
    \/ \E s \in Sessions : Run(s) \/ LoseConnection(s)
    \/ AllExited /\ UNCHANGED vars

Spec == Init /\ [][Next]_vars

(* Each run is a process that the operating system schedules: it keeps     *)
(* taking its own steps, of success or of failure.                         *)
FairSpec == Spec /\ \A s \in Sessions : WF_vars(Run(s))

----------------------------------------------------------------------------
(* Properties.                                                             *)

TypeOK ==
    /\ config \in [Sessions -> Configs]
    /\ pc \in [Sessions -> Labels]
    /\ lock \in Sessions \union {Nobody}
    /\ \A f \in {connected, replica, lockTimeout, primed, heapWorth, toastWorth} :
          f \in [Sessions -> BOOLEAN]
    /\ heapOutcome \in [Sessions -> PhaseOutcomes]
    /\ toastOutcome \in [Sessions -> PhaseOutcomes]
    /\ outcome \in [Sessions -> Outcomes]
    /\ raised \in [Sessions -> {"none", "error", "interrupt", "lock_not_available"}]
    /\ exit \in [Sessions -> {"running", "success", "failed", "interrupted"}]
    /\ did \in [Sessions -> SUBSET {"vacuum", "rewrite", "progress", "reindex"}]

(* Two live runs never work on the table together, whatever fails, is      *)
(* interrupted or loses its connection: a live run past the lock holds it. *)
MutualExclusion ==
    \A s \in Sessions : connected[s] /\ pc[s] \in LockedLabels => lock = s

(* The final VACUUM, REINDEX and ANALYZE run as an ordinary session: with  *)
(* triggers and foreign keys in force and without our short lock_timeout,  *)
(* whichever phases ran before them.                                       *)
MaintenanceIsOrdinary ==
    \A s \in Sessions : pc[s] \in MaintenanceLabels \union {"size_after"}
        => ~replica[s] /\ ~lockTimeout[s]

(* A dry run leaves the table as it is on every path through the program,  *)
(* the banner included, and a skip is decided before any row is rewritten. *)
NothingWritten ==
    \A s \in Sessions :
        /\ On(s, "dry_run") => did[s] = {}
        /\ pc[s] = "exited" /\ outcome[s] \notin {"COMPLETED", "INCOMPLETE_STUCK"}
              => "rewrite" \notin did[s]

(* The exit status, when the process is over.  A run that raised something *)
(* never exits with 0; one that raised nothing does if a phase of it made  *)
(* progress, whatever came of its other phase and of its maintenance, and  *)
(* does not if both its phases got stuck.  (Of a run whose only phase got  *)
(* stuck nothing is said here: see SuccessIsProgress.)                     *)
ExitStatusHonest ==
    \A s \in Sessions : pc[s] = "exited" =>
        /\ exit[s] = "success" =>
              /\ raised[s] = "none"
              /\ {heapOutcome[s], toastOutcome[s]} # {"INCOMPLETE_STUCK"}
        /\ raised[s] = "none" /\ "progress" \in did[s] => exit[s] = "success"

(* "COMPLETED if either phase made progress" (comment in compact_table),   *)
(* and the README's exit status: a run that rewrote rows and exits with    *)
(* success has a phase that made the relation shorter.                     *)
SuccessIsProgress ==
    \A s \in Sessions : exit[s] = "success" /\ "rewrite" \in did[s] => "progress" \in did[s]

(* Every run ends, and the lock is free for good when all of them have.    *)
EventuallyReleased == <>[](AllExited /\ lock = Nobody)
=============================================================================
