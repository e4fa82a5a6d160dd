--------------------------- MODULE HeapCompaction ---------------------------
(***************************************************************************)
(* The heap phase: the shared loop over an explicit heap relation, with    *)
(* the callbacks of _make_heap_target.  A window is drained inside one     *)
(* transaction that repeats UPDATE ... WHERE ctid >= from_page until no    *)
(* returned row is at or above from_page, and is rolled back when the      *)
(* relation grows or the attempts run out.                                 *)
(*                                                                         *)
(* The relation is PostgreSQL's and not the repository's: a page has Slots *)
(* slots, an UPDATE leaves the old version dead in its slot, a new version *)
(* goes to its own page if that has a free slot, else to a page the free   *)
(* space map offers, else to the end of the file, VACUUM frees dead slots  *)
(* unless the snapshot of another session may still need them, rebuilds    *)
(* the map and truncates, and a rollback gives no page back.               *)
(***************************************************************************)
EXTENDS CompactLoop, FiniteSets

CONSTANTS
    Rows,                \* rows that applications and the loop handle
    Absent,              \* the place of a row that is not in the table
    Slots,               \* tuples per page
    LandingSlots,        \* free slots that make a page count as landing space
    MaxPages,            \* bound: pages the file may have
    StartPages,          \* pages of the relation when the phase begins
    MAX_DRAIN_ATTEMPTS,  \* 50 in the code
    MaxWrites            \* bound: inserts and deletes by applications

ASSUME HeapAssumption ==
    /\ Slots \in Nat \ {0} /\ LandingSlots \in 1 .. Slots /\ MAX_DRAIN_ATTEMPTS \in Nat \ {0}
    /\ MaxPages \in Nat /\ StartPages \in 1 .. MaxPages /\ MaxWrites \in Nat
    /\ PageCounts = 0 .. MaxPages
ASSUME RowsAssumption == IsFiniteSet(Rows) /\ Absent \notin Nat

VARIABLES
    place,   \* the page of each row's live version
    dead,    \* dead versions on each page
    npages,  \* length of the file, in pages
    fsm,     \* free slots of each page as the free space map records them
    from,    \* from_page: the lowest page among the collected ctids
    drain,   \* the drain transaction
    held,    \* history: the last VACUUM had to leave dead versions behind
    writes   \* writes applications have made so far

Pages == 0 .. MaxPages - 1
NoDrain == [open |-> FALSE, before |-> 0, attempts |-> 0, next |-> FALSE, todo |-> {},
            batch |-> {}, saved |-> <<>>]

relation == <<place, dead, npages, fsm, held, writes>>
heapVars == <<relation, from, drain>>
allVars  == <<vars, heapVars>>

RowsOn(p)   == {r \in Rows : place[r] = p}
RowsFrom(p) == {r \in Rows : place[r] # Absent /\ place[r] >= p}
Free(p)     == Slots - Cardinality(RowsOn(p)) - dead[p]
FreePagesBefore(p) == Cardinality({q \in Pages : q < p /\ fsm[q] >= LandingSlots})

(* Where PostgreSQL may put a new version when the page `own' is tried     *)
(* first; an extension of the file is the last resort.                     *)
Targets(own) ==
    LET offered == {p \in Pages : p < npages /\ fsm[p] > 0 /\ Free(p) > 0} IN
    CASE own # Absent /\ Free(own) > 0        -> {own}
      [] offered # {}                         -> offered
      [] npages > 0 /\ Free(npages - 1) > 0   -> {npages - 1}
      [] OTHER                                -> {npages} \cap Pages

Grown(p) == IF p = npages THEN npages + 1 ELSE npages

HeapInit ==
    /\ Init
    /\ ~scaffolded
    /\ ideal \in 0 .. StartPages
    /\ place \in [Rows -> (0 .. StartPages - 1) \union {Absent}]
    /\ dead = [p \in Pages |-> 0]
    /\ npages = StartPages
    /\ fsm = [p \in Pages |-> 0]
    /\ \A p \in Pages : Free(p) >= 0
    /\ from = 0 /\ drain = NoDrain /\ held = FALSE /\ writes = 0

----------------------------------------------------------------------------
(* What the loop reads from the relation.                                  *)

(* Mutant: from_page is one page too low.                                  *)
LowestPage_OneBelow(found) ==
    (CHOOSE p \in Pages : p \in {place[r] : r \in found} /\ \A r \in found : p <= place[r]) - 1

(* from_page, the lowest page among the collected ctids.                   *)
LowestPage(found) ==
    CHOOSE p \in Pages : p \in {place[r] : r \in found} /\ \A r \in found : p <= place[r]

(* The exact probe counts the free pages in front of the cursor.           *)
ProbeLanding == Probe(FreePagesBefore(cursor))

HeapRead ==
    \/ /\ \/ Start(npages) \/ VacuumMeasure(npages) \/ VacuumRemeasure(npages)
          \/ VacuumLanding(FreePagesBefore(pagesCurrent))
          \/ ProbeLanding
       /\ UNCHANGED heapVars
    \/ LET found == {r \in RowsFrom(winStart) : place[r] < cursor} IN
       /\ Collect(found # {})
       /\ from' = IF found = {} THEN 0 ELSE LowestPage(found)
       /\ UNCHANGED <<relation, drain>>

(* How much of the file rows need, and dead versions that are kept.        *)
LastUsed(kept) == {p \in Pages : RowsOn(p) # {} \/ p \in kept}
Occupied(kept) ==
    IF LastUsed(kept) = {} THEN 0
    ELSE 1 + CHOOSE p \in LastUsed(kept) : \A q \in LastUsed(kept) : q <= p

(* VACUUM keeps dead versions that a snapshot older than their death may   *)
(* still see, and truncates what it can get: another session's lock, or    *)
(* too short an empty tail, makes it keep some or all of it.               *)
HeapVacuum ==
    /\ Vacuum
    /\ \E kept \in SUBSET {p \in Pages : dead[p] > 0} :
          /\ held' = (kept # {})
          /\ npages' \in Occupied(kept) .. npages
          /\ dead' = [p \in Pages |-> IF p \in kept THEN dead[p] ELSE 0]
    /\ fsm' = [p \in Pages |-> IF p < npages' THEN Slots - Cardinality(RowsOn(p)) - dead'[p] ELSE 0]
    /\ UNCHANGED <<place, from, drain, writes>>

----------------------------------------------------------------------------
(* rewrite: drain within one transaction.                                  *)

(* pages_before_drain is measured, then the transaction opens.             *)
DrainBegin ==
    /\ pc = "rewrite"
    /\ ~drain.open
    /\ drain' = [NoDrain EXCEPT !.open = TRUE, !.before = npages, !.next = TRUE]
    /\ UNCHANGED <<vars, relation, from>>

(* The next UPDATE takes its snapshot.                                     *)
DrainUpdate ==
    /\ drain.next
    /\ drain' = [drain EXCEPT !.attempts = @ + 1, !.next = FALSE, !.todo = RowsFrom(from), !.batch = {}]
    /\ UNCHANGED <<vars, relation, from>>

(* One row of the running UPDATE gets its new version.                     *)
DrainRow(r, p) ==
    /\ r \in drain.todo
    /\ p \in Targets(place[r])
    /\ place' = [place EXCEPT ![r] = p]
    /\ dead' = [dead EXCEPT ![place[r]] = @ + 1]
    /\ npages' = Grown(p)
    /\ drain' = [drain EXCEPT !.todo = @ \ {r}, !.batch = @ \union {r},
                              !.saved = [q \in DOMAIN @ \union {r} |->
                                            IF q \in DOMAIN @ THEN @[q] ELSE place[r]]]
    /\ UNCHANGED <<vars, fsm, from, held, writes>>

StatementDone == drain.open /\ ~drain.next /\ drain.todo = {}
StillStuck    == \E r \in drain.batch : place[r] >= from
Growing       == npages > drain.before

EndDrain == drain' = NoDrain /\ from' = 0

(* Nothing was updated, or every updated row is below from_page.           *)
DrainCommit ==
    /\ StatementDone
    /\ ~StillStuck
    /\ Rewrite
    /\ EndDrain
    /\ UNCHANGED relation

DrainAgain ==
    /\ StatementDone
    /\ StillStuck
    /\ ~Growing
    /\ drain.attempts < MAX_DRAIN_ATTEMPTS
    /\ drain' = [drain EXCEPT !.next = TRUE]
    /\ UNCHANGED <<vars, relation, from>>

(* ROLLBACK: the old versions are live again, the last new ones are dead.  *)
Undo ==
    LET touched == DOMAIN drain.saved IN
    /\ place' = [r \in Rows |-> IF r \in touched THEN drain.saved[r] ELSE place[r]]
    /\ dead' = [p \in Pages |-> dead[p]
                   + Cardinality({r \in touched : place[r] = p})
                   - Cardinality({r \in touched : drain.saved[r] = p})]
    /\ UNCHANGED <<npages, fsm, held, writes>>

(* Mutant: what the stuck drain has achieved so far is committed.          *)
DrainRollback_Commits ==
    /\ StatementDone
    /\ StillStuck
    /\ Growing \/ drain.attempts = MAX_DRAIN_ATTEMPTS
    /\ Rewrite
    /\ EndDrain
    /\ UNCHANGED relation

(* Mutant: the window that was rolled back is collected again.             *)
DrainRollback_CollectsAgain ==
    /\ StatementDone
    /\ StillStuck
    /\ Growing \/ drain.attempts = MAX_DRAIN_ATTEMPTS
    /\ Jump("rewrite", "collect")
    /\ Undo
    /\ EndDrain

DrainRollback ==
    /\ StatementDone
    /\ StillStuck
    /\ Growing \/ drain.attempts = MAX_DRAIN_ATTEMPTS
    /\ Rewrite
    /\ Undo
    /\ EndDrain

Drain ==
    \/ DrainBegin \/ DrainUpdate
    \/ \E r \in drain.todo : \E p \in Targets(place[r]) : DrainRow(r, p)
    \/ DrainCommit \/ DrainAgain \/ DrainRollback

(* Any exception leaves the transaction block, which rolls back.           *)
HeapBreak ==
    /\ Break
    /\ Undo
    /\ EndDrain

----------------------------------------------------------------------------
(* Applications write to the table meanwhile.  A row the open transaction  *)
(* has updated is locked by it.                                            *)

AppInsert(r) ==
    /\ place[r] = Absent
    /\ \E p \in Targets(Absent) :
          place' = [place EXCEPT ![r] = p] /\ npages' = Grown(p)
    /\ UNCHANGED <<dead, drain>>

AppDelete(r) ==
    /\ place[r] # Absent
    /\ r \notin DOMAIN drain.saved
    /\ place' = [place EXCEPT ![r] = Absent]
    /\ dead' = [dead EXCEPT ![place[r]] = @ + 1]
    /\ drain' = [drain EXCEPT !.todo = @ \ {r}]
    /\ UNCHANGED npages

AppWrite ==
    /\ writes < MaxWrites
    /\ ~Finished
    /\ \E r \in Rows : AppInsert(r) \/ AppDelete(r)
    /\ writes' = writes + 1
    /\ UNCHANGED <<vars, fsm, from, held>>

(* Steps of the loop that do not touch the relation.                       *)
HeapQuiet ==
    /\ \/ LoopExit \/ Iterate \/ Starve \/ GiveUp \/ OpenWindow \/ Advance
       \/ DiskOk \/ DiskLow \/ PeriodicVacuum \/ DeferVacuum \/ Plateau
       \/ FinalVacuum \/ NoFinalVacuum \/ Rollback \/ Teardown
    /\ UNCHANGED heapVars

HeapProceed == HeapRead \/ HeapVacuum \/ Drain \/ HeapQuiet

HeapNext ==
    \/ HeapProceed
    \/ HeapBreak
    \/ AppWrite
    \/ Finished /\ UNCHANGED allVars

HeapSpec == HeapInit /\ [][HeapNext]_allVars

(* The loop keeps stepping; applications and failures owe nothing.         *)
FairHeapSpec == HeapSpec /\ WF_allVars(HeapProceed)

----------------------------------------------------------------------------
(* Properties.                                                             *)

HeapTypeOK ==
    /\ place \in [Rows -> Pages \union {Absent}]
    /\ dead \in [Pages -> 0 .. Slots]
    /\ npages \in 0 .. MaxPages
    /\ fsm \in [Pages -> 0 .. Slots]
    /\ from \in Nat
    /\ \A p \in Pages : Free(p) >= 0
    /\ \A r \in Rows : place[r] # Absent => place[r] < npages

(* A drain is all or nothing.  When the loop moves on from a window, the   *)
(* rows its transaction updated are all below from_page, or each of them   *)
(* is back where it was: no version is left half way down the file.        *)
DrainAllOrNothing ==
    [][drain.open /\ ~drain'.open =>
          \/ \A r \in DOMAIN drain.saved : place'[r] < from
          \/ \A r \in DOMAIN drain.saved : place'[r] = drain.saved[r]]_allVars

(* With no other writer, a run that was not cut short leaves no row above  *)
(* the old end of the relation, whatever was appended and rolled back on   *)
(* the way, and nothing dead there unless the last VACUUM had to leave it: *)
(* VACUUM can always truncate back to the old end.                         *)
NeverEndsLonger ==
    pc = "returned" /\ ~cancelled /\ writes = 0
        => \A p \in Pages : p >= pagesBefore => RowsOn(p) = {} /\ (dead[p] > 0 => held)

(* COMPLETED is only reported for a relation that really is shorter.       *)
CompletedMeansShorter ==
    pc = "returned" /\ ~cancelled /\ writes = 0 /\ outcome = "COMPLETED"
        => npages < pagesBefore

(* The heap phase implements the shared loop.                              *)
ImplementsLoop == Spec

HeapTermination == <>Finished
=============================================================================
