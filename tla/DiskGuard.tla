----------------------------- MODULE DiskGuard -----------------------------
(***************************************************************************)
(* The disk space guard: check_disk_space and wait_for_disk_space of       *)
(* disk_guard.py, with the throttled check in the loop of compactor.py.    *)
(* A check asks df through COPY FROM PROGRAM, else looks at the WAL, else  *)
(* reports that it cannot tell.  Each tier is a statement of its own, so   *)
(* the server may change between two tiers and between two checks.         *)
(*                                                                         *)
(* Time is counted in whole units of the poll interval's scale; the disk,  *)
(* the archiver and the errors of the statements are the environment's.    *)
(***************************************************************************)
EXTENDS Naturals

CONSTANTS
    disk_check_interval,  \* 30 s in the code
    poll_interval_s,      \* 10 s in the code
    timeout_s,            \* 1800 s in the code
    MaxDelay              \* bound: longest window or VACUUM, and longest poll overrun

ASSUME TimesAssumption ==
    /\ disk_check_interval \in Nat \ {0} /\ timeout_s \in Nat
    /\ poll_interval_s \in Nat \ {0} /\ MaxDelay \in Nat \ {0}

VARIABLES
    low,             \* the file system has less than min_free_mb free
    failed_count,    \* pg_stat_archiver has counted a failure: never unset
    walLarge,        \* the WAL is twice max_wal_size or more
    dfError,         \* COPY FROM PROGRAM df raises, or prints nothing usable
    walError,        \* reading pg_stat_archiver or max_wal_size raises
    mayRunPrograms,  \* the role has pg_execute_server_program
    mayListWal       \* the role may call pg_ls_waldir

VARIABLES
    pc,        \* "loop", "written", a tier being tried, "answered", "waiting" or an end
    site,      \* which call of check_disk_space is under way
    status,    \* the DiskStatus it returned
    warned,    \* _unavailable_warning_shown
    start,     \* time since the pause began
    age,       \* time since last_disk_check
    vacuumed   \* a VACUUM has been run since the last window

server == <<low, failed_count, walLarge, dfError, walError>>
rights == <<mayRunPrograms, mayListWal>>
guard  == <<pc, site, status, warned, start, age, vacuumed>>
vars   == <<server, rights, guard>>

Methods == {"df", "wal", "unavailable"}
Sites   == {"due", "entry", "poll", "report"}
Ends    == {"stopped", "done"}
Paused  == pc \notin {"loop", "written"} \union Ends /\ site \in {"entry", "poll"}

Init ==
    /\ failed_count = 0
    /\ low \in BOOLEAN /\ walLarge \in BOOLEAN
    /\ dfError \in BOOLEAN /\ walError \in BOOLEAN
    /\ mayRunPrograms \in BOOLEAN /\ mayListWal \in BOOLEAN
    /\ pc = "loop" /\ site = "due"
    /\ status = [method |-> "df", ok |-> TRUE]
    /\ warned = FALSE /\ start = 0
    /\ age = disk_check_interval /\ vacuumed = TRUE

(* The rest of the server lives its own life.                              *)
Environment ==
    /\ pc \notin Ends
    /\ low' \in BOOLEAN /\ walLarge' \in BOOLEAN
    /\ dfError' \in BOOLEAN /\ walError' \in BOOLEAN
    /\ failed_count' \in failed_count .. 1
    /\ UNCHANGED <<rights, guard>>

----------------------------------------------------------------------------
(* The loop of compactor.py.                                               *)

(* A window is written, the first one before any check.                    *)
RewriteWindow ==
    /\ pc = "loop"
    /\ pc' = "written"
    /\ \E d \in 1 .. MaxDelay : age' = age + d
    /\ vacuumed' = FALSE
    /\ UNCHANGED <<server, rights, site, status, warned, start>>

(* The periodic VACUUM, or the one of an iteration without landing space,  *)
(* which writes no window; there is something to VACUUM once per window.   *)
RunVacuum ==
    /\ pc = "loop"
    /\ ~vacuumed
    /\ vacuumed' = TRUE
    /\ \E d \in 1 .. MaxDelay : age' = age + d
    /\ UNCHANGED <<server, rights, pc, site, status, warned, start>>

LoopEnds ==
    /\ pc = "loop"
    /\ pc' = "done"
    /\ UNCHANGED <<server, rights, site, status, warned, start, age, vacuumed>>

(* check_disk_space is called from `where'.                                *)
Check(where) ==
    /\ pc' = "df"
    /\ site' = where

(* Mutant: last_disk_check is set when the check is skipped, too.          *)
CheckNotDue_ResetsClock ==
    /\ pc = "written"
    /\ age < disk_check_interval
    /\ pc' = "loop"
    /\ age' = 0
    /\ UNCHANGED <<server, rights, site, status, warned, start, vacuumed>>

(* The check after a window is throttled to disk_check_interval.           *)
CheckNotDue ==
    /\ pc = "written"
    /\ age < disk_check_interval
    /\ pc' = "loop"
    /\ UNCHANGED <<server, rights, site, status, warned, start, age, vacuumed>>

CheckDue ==
    /\ pc = "written"
    /\ age >= disk_check_interval
    /\ Check("due")
    /\ start' = 0
    /\ UNCHANGED <<server, rights, status, warned, age, vacuumed>>

----------------------------------------------------------------------------
(* check_disk_space.                                                       *)

Answer(method, ok) ==
    /\ pc' = "answered"
    /\ status' = [method |-> method, ok |-> ok]

(* Any psycopg.Error falls through to the next tier.                       *)
TryDf ==
    /\ pc = "df"
    /\ \/ mayRunPrograms /\ ~dfError /\ Answer("df", ~low)
       \/ (~mayRunPrograms \/ dfError) /\ pc' = "wal" /\ UNCHANGED status
    /\ UNCHANGED <<server, rights, site, warned, start, age, vacuumed>>

(* Mutant: the archiver's failures are not looked at.                      *)
walOk_NoArchiver == ~(mayListWal /\ walLarge)
walOk == failed_count = 0 /\ ~(mayListWal /\ walLarge)

TryWal ==
    /\ pc = "wal"
    /\ \/ ~walError /\ Answer("wal", walOk)
       \/ walError /\ Answer("unavailable", TRUE)
    /\ UNCHANGED <<server, rights, site, warned, start, age, vacuumed>>

----------------------------------------------------------------------------
(* What each caller does with the answer.                                  *)

(* A low disk calls wait_for_disk_space, which begins with its own check.  *)
BeginWait ==
    /\ pc = "answered" /\ site = "due" /\ ~status.ok
    /\ Check("entry")
    /\ UNCHANGED <<server, rights, status, warned, start, age, vacuumed>>

(* The check that fills the progress display; its verdict is not acted on. *)
Resume ==
    /\ Check("report")
    /\ UNCHANGED <<server, rights, status, start, age, vacuumed>>

EntryAnswer ==
    /\ pc = "answered" /\ site = "entry"
    /\ \/ /\ status.method = "unavailable"
          /\ warned' = TRUE
          /\ Resume
       \/ /\ status.method # "unavailable" /\ status.ok
          /\ UNCHANGED warned
          /\ Resume
       \/ /\ status.method # "unavailable" /\ ~status.ok
          /\ pc' = "waiting"
          /\ UNCHANGED <<server, rights, site, status, warned, start, age, vacuumed>>

PollAnswer ==
    /\ pc = "answered" /\ site = "poll"
    /\ \/ status.ok /\ Resume
       \/ ~status.ok /\ pc' = "waiting" /\ UNCHANGED <<server, rights, site, status, start, age, vacuumed>>
    /\ UNCHANGED warned

(* The timeout is looked at before every sleep, never after it.            *)
TimeOut ==
    /\ pc = "waiting"
    /\ start > timeout_s
    /\ pc' = "stopped"
    /\ UNCHANGED <<server, rights, site, status, warned, start, age, vacuumed>>

(* Mutant: the clock starts anew with every poll.                          *)
Sleep_RestartsClock ==
    /\ pc = "waiting"
    /\ start <= timeout_s
    /\ \E d \in 0 .. MaxDelay : start' = poll_interval_s + d
    /\ Check("poll")
    /\ UNCHANGED <<server, rights, status, warned, age, vacuumed>>

(* Mutant: sleeps without a look at the clock.                             *)
Sleep_IgnoresTimeout ==
    /\ pc = "waiting"
    /\ \E d \in 0 .. MaxDelay : start' = start + poll_interval_s + d
    /\ Check("poll")
    /\ UNCHANGED <<server, rights, status, warned, age, vacuumed>>

Sleep ==
    /\ pc = "waiting"
    /\ start <= timeout_s
    /\ \E d \in 0 .. MaxDelay : start' = start + poll_interval_s + d
    /\ Check("poll")
    /\ UNCHANGED <<server, rights, status, warned, age, vacuumed>>

(* Back to the loop, after a healthy first check or after a pause.         *)
Continue ==
    /\ pc = "answered"
    /\ site = "report" \/ (site = "due" /\ status.ok)
    /\ pc' = "loop"
    /\ age' = 0
    /\ UNCHANGED <<server, rights, site, status, warned, start, vacuumed>>

----------------------------------------------------------------------------
Guard ==
    \/ RewriteWindow \/ RunVacuum \/ CheckNotDue \/ CheckDue \/ TryDf \/ TryWal
    \/ BeginWait \/ EntryAnswer \/ PollAnswer \/ TimeOut \/ Sleep \/ Continue

Next == Guard \/ LoopEnds \/ Environment \/ (pc \in Ends /\ UNCHANGED vars)

Spec == Init /\ [][Next]_vars

(* The loop is one thread that keeps running and whose statements return.  *)
FairSpec == Spec /\ WF_vars(Guard)

----------------------------------------------------------------------------
(* Properties.                                                             *)

TypeOK ==
    /\ {low, walLarge, dfError, walError, mayRunPrograms, mayListWal, warned, vacuumed} \subseteq BOOLEAN
    /\ failed_count \in 0 .. 1
    /\ pc \in {"loop", "written", "df", "wal", "answered", "waiting"} \union Ends
    /\ site \in Sites
    /\ status \in [method : Methods, ok : BOOLEAN]
    /\ start \in Nat /\ age \in Nat

(* A disk that stays low is acted on: with df answering, the loop cannot   *)
(* go on writing for ever, however the pauses, polls and throttled checks  *)
(* fall, and it is stopped by the timeout of the pause.                    *)
LowDiskStopsTheRun ==
    (<>[](low /\ mayRunPrograms /\ ~dfError)) => <>(pc \in Ends)

(* A pause ends, whatever the tiers answer and however often they fail:    *)
(* the run is back in its loop, or gives up.                               *)
PauseEnds == Paused ~> ~Paused

(* Two checks are less than the interval, one VACUUM and one window apart, *)
(* and a pause overruns its timeout by one poll at most: no path around    *)
(* the throttle, the fallbacks and the polls forgets to check or to look   *)
(* at the clock.                                                           *)
GuardIsTimely ==
    /\ age < disk_check_interval + 2 * MaxDelay
    /\ start <= timeout_s + poll_interval_s + MaxDelay

(* pg_stat_archiver's failed_count is cumulative: for a role without df, a *)
(* pause that begins after an archive failure never ends in a recovery,    *)
(* unless a statement fails, even if archiving works again.                *)
ArchiveFailureIsFinal ==
    [](~mayRunPrograms /\ failed_count > 0 /\ pc = "waiting"
          => ([](~walError) => [](pc # "loop")))
=============================================================================
