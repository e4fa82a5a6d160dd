------------------------------ MODULE Placement ------------------------------
(***************************************************************************)
(* A relation's pages as the free space map shows them to pg-compact: new  *)
(* versions are placed on pages that fsm_admits predicts will be offered   *)
(* and that have the room, VACUUM frees old ones, and the bloat split is   *)
(* taken after any number of such steps.  A page's free bytes are          *)
(* PostgreSQL's; everything computed from them is the code's.              *)
(***************************************************************************)
EXTENDS FsmPredict, FiniteSetsExt

CONSTANTS
    Pages,      \* the pages of the relation
    Units,      \* on-page footprints of the versions that are placed
    Stubs,      \* line pointers that may be left on a page without versions
    FillFactor  \* the table's fillfactor

CAPACITY == BLCKSZ - PAGE_HEADER_BYTES

ASSUME PlacementAssumption ==
    /\ IsFiniteSet(Pages)
    /\ Units \subseteq 1 .. CAPACITY
    /\ Stubs \subseteq 0 .. CAPACITY \div LINE_POINTER_BYTES
    /\ FillFactor \in 10 .. 100

VARIABLES
    free,     \* free bytes of each page
    versions  \* versions of each size on each page

placement == <<free, versions>>

Init ==
    /\ free \in [Pages -> {CAPACITY - LINE_POINTER_BYTES * n : n \in Stubs}]
    /\ versions = [p \in Pages |-> [u \in Units |-> 0]]

Avail(p) == pg_freespace(free[p])

(* A version of u bytes lands on a page that the free space map offers, if *)
(* PostgreSQL finds the room there.                                        *)
Place(p, u) ==
    /\ fsm_admits(Avail(p), u)
    /\ u <= free[p]
    /\ free' = [free EXCEPT ![p] = @ - u]
    /\ versions' = [versions EXCEPT ![p][u] = @ + 1]

(* VACUUM gives the space of a dead version back.                          *)
Release(p, u) ==
    /\ versions[p][u] > 0
    /\ free' = [free EXCEPT ![p] = @ + u]
    /\ versions' = [versions EXCEPT ![p][u] = @ - 1]

Next == \E p \in Pages, u \in Units : Place(p, u) \/ Release(p, u)

Spec == Init /\ [][Next]_placement

----------------------------------------------------------------------------
(* What the code reads from pg_freespace().                                *)

SumAvail(S) == MapThenSumSet(Avail, S)

relation_bytes == Cardinality(Pages) * BLCKSZ
relation_free_space_bytes == SumAvail(Pages)

online_reclaimable_bytes(unit) ==
    SumAvail({p \in Pages : Avail(p) >= admit_threshold(unit)})

bloat(unit) ==
    bloat_from_occupied(relation_bytes, relation_free_space_bytes,
                        usable_per_page(FillFactor), online_reclaimable_bytes(unit))

(* The TOAST relation has no fillfactor and relocates whole chunks.        *)
toast_bloat ==
    bloat_from_occupied(relation_bytes, relation_free_space_bytes,
                        usable_per_page(100), online_reclaimable_bytes(FULL_TOAST_CHUNK_FOOTPRINT))

(* Mutant: a page with a usable hole counts as a page.                     *)
usable_free_Pages ==
    BLCKSZ * Cardinality({p \in Pages : Avail(p) >= TOAST_CHUNK_ONPAGE_SIZE})

(* The first half of relation_free_space_split.                            *)
usable_free == SumAvail({p \in Pages : Avail(p) >= TOAST_CHUNK_ONPAGE_SIZE})

----------------------------------------------------------------------------
(* Properties.                                                             *)

TypeOK ==
    /\ free \in [Pages -> Nat]
    /\ versions \in [Pages -> [Units -> Nat]]

(* A page that the predictor admits for a version has room for it, however *)
(* the page came to look as it does; for a version above the map's last    *)
(* category, such as the whole page stats.py asks for when it does not     *)
(* know the row size, it may be short of what exceeds that category, which *)
(* is 8 bytes.                                                             *)
AdmittedPageFits ==
    \A p \in Pages, u \in Units :
        fsm_admits(Avail(p), u) => free[p] >= Least(u, 255 * FSM_CAT_STEP)

(* The SQL of stats.py selects pages by avail >= admit_threshold(unit) and *)
(* the predictor by fsm_admits: the two select the same pages, judged by   *)
(* the reported free space or by the true one.                             *)
ThresholdIsAdmission ==
    \A p \in Pages, u \in Units :
        /\ fsm_admits(Avail(p), u) <=> Avail(p) >= admit_threshold(u)
        /\ fsm_admits(Avail(p), u) <=> fsm_admits(free[p], u)

(* The report adds up whatever the pages look like: live data, padding,    *)
(* what pg-compact frees and what needs VACUUM FULL are the whole relation *)
(* and no part is negative, the online part being an estimate of its own.  *)
BreakdownAddsUp ==
    \A u \in Units : LET b == bloat(u) IN
        /\ heap_live(relation_bytes, b) + b.waste + b.online + b.vacuum_full_only
              = relation_bytes
        /\ {b.waste, b.online, b.vacuum_full_only} \subseteq 0 .. relation_bytes

(* The heap phase never sets out to free more pages than a full rewrite    *)
(* could: else it would rewrite pages that no relocation can truncate.     *)
HeapTargetIsReachable ==
    \A u \in Units : LET b     == bloat(u)
                         freed == Cardinality(Pages) - ideal_heap_pages(Cardinality(Pages), b)
                     IN  freed = 0 \/ freed + b.ideal_pages <= Cardinality(Pages)

(* Nor does the TOAST phase, up to the page headers: its target is whole   *)
(* pages of free bytes and not clamped like the heap's, but a full rewrite *)
(* could not do with fewer pages than it, but for one header in each.  And *)
(* what it takes for usable is what the report calls online.               *)
ToastTargetNearFloor ==
    LET target == ideal_toast_pages(Cardinality(Pages), usable_free) IN
    /\ usable_free = online_reclaimable_bytes(FULL_TOAST_CHUNK_FOOTPRINT)
    /\ toast_bloat.ideal_pages <= target + CeilDiv(PAGE_HEADER_BYTES * target, CAPACITY)
=============================================================================
