--------------------------- MODULE PlacementProofs ---------------------------
(***************************************************************************)
(* Proofs about the free space arithmetic, for every amount of free space, *)
(* every footprint and every relation size, and about Placement for every  *)
(* set of pages and footprints.                                            *)
(***************************************************************************)
EXTENDS Placement, SetLemmas

USE DEF BLCKSZ, FSM_CAT_STEP, MAX_FSM_REQUEST_SIZE, PAGE_HEADER_BYTES

(* The FSM admits a request exactly when the page's free space reaches the *)
(* rounded-up request: the SQL filter of stats.py is the predictor.        *)
THEOREM AdmissionIsThreshold ==
    ASSUME NEW avail \in Nat, NEW needed \in Nat
    PROVE  fsm_admits(avail, needed) <=> avail >= admit_threshold(needed)
  BY DEF fsm_admits, admit_threshold, fsm_space_avail_to_cat, fsm_space_needed_to_cat,
         CeilDiv, Least, Greatest

(* Reporting free space through the map loses nothing the predictor uses.  *)
THEOREM ReportedIsEnough ==
    ASSUME NEW avail \in Nat, NEW needed \in Nat
    PROVE  fsm_admits(pg_freespace(avail), needed) <=> fsm_admits(avail, needed)
  BY DEF pg_freespace, fsm_admits, fsm_space_avail_to_cat, fsm_space_needed_to_cat,
         fsm_space_cat_to_avail, CeilDiv, Least, Greatest

(* An admitted request fits, but for what it exceeds the last category by: *)
(* so much a page of that category may be short of.                        *)
THEOREM AdmittedFits ==
    ASSUME NEW avail \in Nat, NEW needed \in Nat, fsm_admits(pg_freespace(avail), needed)
    PROVE  avail >= Least(needed, 255 * FSM_CAT_STEP)
<1>1. fsm_admits(avail, needed)
  BY ReportedIsEnough
<1>2. avail >= admit_threshold(needed)
  BY <1>1, AdmissionIsThreshold
<1>3. admit_threshold(needed) \in Nat /\ admit_threshold(needed) >= Least(needed, 255 * FSM_CAT_STEP)
  BY DEF admit_threshold, fsm_space_needed_to_cat, CeilDiv, Least, Greatest
<1>. QED
  BY <1>2, <1>3 DEF Least

----------------------------------------------------------------------------
(* The split of a relation's size.                                         *)

LEMMA CeilDivNat ==
    ASSUME NEW a \in Nat, NEW b \in Nat \ {0}
    PROVE  CeilDiv(a, b) \in Nat
  BY DEF CeilDiv

(* Live data, padding, the online part and the rest are the relation, for  *)
(* every relation, fillfactor and estimate of the online part.             *)
THEOREM SplitAddsUp ==
    ASSUME NEW relation \in Nat, NEW avail \in 0 .. relation,
           NEW usable \in Nat \ {0}, NEW estimate \in Nat
    PROVE  LET b == bloat_from_occupied(relation, avail, usable, estimate) IN
           /\ heap_live(relation, b) + b.waste + b.online + b.vacuum_full_only = relation
           /\ b.waste \in 0 .. relation /\ b.online \in 0 .. relation
           /\ b.vacuum_full_only \in 0 .. relation
           /\ b.online <= estimate
<1>. DEFINE occupied == Greatest(relation - avail, 0)
            ideal    == CeilDiv(occupied, usable)
<1>1. occupied \in Nat
  BY DEF Greatest
<1>2. ideal \in Nat
  BY <1>1, CeilDivNat
<1>. HIDE DEF ideal
<1>3. CASE relation = 0
  <2>1. bloat_from_occupied(relation, avail, usable, estimate)
          = [ideal_pages |-> 0, free_bytes |-> 0, reclaimable |-> 0, waste |-> 0,
             online |-> 0, vacuum_full_only |-> 0]
    BY <1>3 DEF bloat_from_occupied
  <2>. QED
    BY <1>3, <2>1 DEF heap_live, Greatest
<1>4. CASE relation > 0
  <2>. DEFINE recl == Least(Greatest(relation \div BLCKSZ - ideal, 0) * BLCKSZ, avail)
  <2>1. recl \in 0 .. avail
    BY <1>2 DEF Least, Greatest
  <2>. DEFINE b == bloat_from_occupied(relation, avail, usable, estimate)
  <2>2. /\ b.waste = Greatest(avail - recl, 0)
        /\ b.online = Greatest(Least(estimate, recl), 0)
        /\ b.vacuum_full_only = Greatest(recl - Greatest(Least(estimate, recl), 0), 0)
        /\ b.free_bytes = avail
    BY <1>4 DEF bloat_from_occupied, online_part, ideal
  <2>. HIDE DEF recl, b
  <2>. QED
    BY <2>1, <2>2, <1>4 DEF heap_live, Least, Greatest, b
<1>. QED
  BY <1>3, <1>4

(* The heap phase never aims below the full-rewrite floor, for every       *)
(* relation of whole pages.                                                *)
THEOREM HeapTargetAboveFloor ==
    ASSUME NEW pages \in Nat, NEW avail \in 0 .. pages * BLCKSZ,
           NEW usable \in Nat \ {0}, NEW estimate \in Nat
    PROVE  LET b == bloat_from_occupied(pages * BLCKSZ, avail, usable, estimate)
               freed == pages - ideal_heap_pages(pages, b)
           IN  freed = 0 \/ freed + b.ideal_pages <= pages
<1>. DEFINE occupied == Greatest(pages * BLCKSZ - avail, 0)
            ideal    == CeilDiv(occupied, usable)
<1>1. ideal \in Nat
  BY CeilDivNat DEF Greatest
<1>. HIDE DEF ideal
<1>3. CASE pages = 0
  BY <1>3 DEF bloat_from_occupied, online_part, ideal_heap_pages, Greatest
<1>4. CASE pages > 0
  <2>. DEFINE recl == Least(Greatest((pages * BLCKSZ) \div BLCKSZ - ideal, 0) * BLCKSZ, avail)
              b == bloat_from_occupied(pages * BLCKSZ, avail, usable, estimate)
  <2>1. b.online = Greatest(Least(estimate, recl), 0) /\ b.ideal_pages = ideal
    BY <1>4 DEF bloat_from_occupied, online_part, ideal
  <2>2. recl \in Nat /\ recl <= Greatest(pages - ideal, 0) * BLCKSZ
    BY <1>1 DEF Least, Greatest
  <2>3. b.online \in Nat /\ b.online <= Greatest(pages - ideal, 0) * BLCKSZ
    BY <2>1, <2>2, <1>1 DEF Least, Greatest
  <2>. HIDE DEF b
  <2>4. b.online \div BLCKSZ \in Nat /\ b.online \div BLCKSZ <= Greatest(pages - ideal, 0)
    BY <2>3, <1>1 DEF Greatest
  <2>. QED
    BY <2>1, <2>4, <1>1 DEF ideal_heap_pages, Greatest, b
<1>. QED
  BY <1>3, <1>4

(* The TOAST phase's target is at most one header per page below the pages *)
(* that a full rewrite needs, for every relation of whole pages and every  *)
(* part of its free space that passes for usable.                          *)
THEOREM ToastTargetNearFullRewrite ==
    ASSUME NEW pages \in Nat, NEW avail \in 0 .. pages * BLCKSZ, NEW usable \in 0 .. avail,
           NEW estimate \in Nat
    PROVE  LET b      == bloat_from_occupied(pages * BLCKSZ, avail, usable_per_page(100), estimate)
               target == ideal_toast_pages(pages, usable)
           IN  b.ideal_pages <= target + CeilDiv(PAGE_HEADER_BYTES * target, CAPACITY)
<1>. DEFINE target == ideal_toast_pages(pages, usable)
            b == bloat_from_occupied(pages * BLCKSZ, avail, usable_per_page(100), estimate)
<1>1. target \in Nat /\ pages * BLCKSZ - avail <= target * BLCKSZ
  BY DEF ideal_toast_pages, Greatest
<1>. HIDE DEF target
<1>2. usable_per_page(100) = CAPACITY
  BY DEF usable_per_page, CAPACITY, Greatest
<1>3. CeilDiv(target * BLCKSZ, CAPACITY) = target + CeilDiv(PAGE_HEADER_BYTES * target, CAPACITY)
  BY <1>1 DEF CeilDiv, CAPACITY
<1>4. CeilDiv(pages * BLCKSZ - avail, CAPACITY) <= CeilDiv(target * BLCKSZ, CAPACITY)
  BY <1>1 DEF CeilDiv, CAPACITY
<1>5. CASE pages = 0
  <2>1. b.ideal_pages = 0
    BY <1>5 DEF bloat_from_occupied
  <2>2. CeilDiv(PAGE_HEADER_BYTES * target, CAPACITY) \in Nat
    BY <1>1, CeilDivNat DEF CAPACITY
  <2>. QED
    BY <1>1, <2>1, <2>2 DEF target
<1>6. CASE pages > 0
  <2>1. b.ideal_pages = CeilDiv(pages * BLCKSZ - avail, CAPACITY)
    BY <1>2, <1>6 DEF bloat_from_occupied, Greatest
  <2>. QED
    BY <1>3, <1>4, <2>1 DEF target
<1>. QED
  BY <1>5, <1>6

----------------------------------------------------------------------------
(* Placement: what the predictor says of the pages that can come about.    *)

LEMMA UnitIsNat ==
    ASSUME NEW u \in Units
    PROVE  u \in Nat
<1>1. u \in 1 .. CAPACITY
  BY PlacementAssumption
<1>. QED
  BY <1>1 DEF CAPACITY

LEMMA PlacementInv == Spec => []TypeOK
<1>1. Init => TypeOK
  <2>. SUFFICES ASSUME Init
                PROVE  TypeOK
    OBVIOUS
  <2>1. ASSUME NEW n \in Stubs
        PROVE  CAPACITY - LINE_POINTER_BYTES * n \in Nat
    <3>1. n \in 0 .. CAPACITY \div LINE_POINTER_BYTES
      BY PlacementAssumption
    <3>. QED
      BY <3>1 DEF CAPACITY, LINE_POINTER_BYTES
  <2>2. {CAPACITY - LINE_POINTER_BYTES * n : n \in Stubs} \subseteq Nat
    BY <2>1
  <2>. QED
    BY <2>2 DEF Init, TypeOK
<1>2. TypeOK /\ [Next]_placement => TypeOK'
  <2>. SUFFICES ASSUME TypeOK, [Next]_placement
                PROVE  TypeOK'
    OBVIOUS
  <2>1. ASSUME NEW p \in Pages, NEW u \in Units, Place(p, u)
        PROVE  TypeOK'
    <3>1. u \in Nat /\ free[p] \in Nat /\ u <= free[p]
      BY <2>1, UnitIsNat DEF TypeOK, Place
    <3>2. free' = [free EXCEPT ![p] = @ - u] /\ versions' = [versions EXCEPT ![p][u] = @ + 1]
      BY <2>1 DEF Place
    <3>. QED
      BY <3>1, <3>2 DEF TypeOK
  <2>2. ASSUME NEW p \in Pages, NEW u \in Units, Release(p, u)
        PROVE  TypeOK'
    <3>1. u \in Nat /\ free[p] \in Nat /\ versions[p][u] \in Nat \ {0}
      BY <2>2, UnitIsNat DEF TypeOK, Release
    <3>2. free' = [free EXCEPT ![p] = @ + u] /\ versions' = [versions EXCEPT ![p][u] = @ - 1]
      BY <2>2 DEF Release
    <3>. QED
      BY <3>1, <3>2 DEF TypeOK
  <2>3. CASE UNCHANGED placement
    BY <2>3 DEF TypeOK, placement
  <2>. QED
    BY <2>1, <2>2, <2>3 DEF Next
<1>. QED
  BY <1>1, <1>2, PTL DEF Spec

(* A page that is admitted for a version has room for it, but for the part *)
(* of the version that exceeds the last category.                          *)
THEOREM AdmittedPagesFit == Spec => []AdmittedPageFits
<1>1. TypeOK => AdmittedPageFits
  <2>. SUFFICES ASSUME TypeOK, NEW p \in Pages, NEW u \in Units, fsm_admits(Avail(p), u)
                PROVE  free[p] >= Least(u, 255 * FSM_CAT_STEP)
    BY DEF AdmittedPageFits
  <2>1. u \in Nat /\ free[p] \in Nat
    BY UnitIsNat DEF TypeOK
  <2>. QED
    BY <2>1, AdmittedFits DEF Avail
<1>. QED
  BY <1>1, PlacementInv, PTL

(* Whatever the pages look like, the SQL and the predictor select the same *)
(* pages, judged by the reported free space or by the true one.            *)
THEOREM ThresholdHolds == Spec => []ThresholdIsAdmission
<1>1. TypeOK => ThresholdIsAdmission
  <2>. SUFFICES ASSUME TypeOK, NEW p \in Pages, NEW u \in Units
                PROVE  /\ fsm_admits(Avail(p), u) <=> Avail(p) >= admit_threshold(u)
                       /\ fsm_admits(Avail(p), u) <=> fsm_admits(free[p], u)
    BY DEF ThresholdIsAdmission
  <2>1. u \in Nat
    BY UnitIsNat
  <2>2. free[p] \in Nat
    BY DEF TypeOK
  <2>3. Avail(p) \in Nat
    BY <2>2 DEF Avail, pg_freespace, fsm_space_avail_to_cat, fsm_space_cat_to_avail, Least
  <2>. QED
    BY <2>1, <2>2, <2>3, AdmissionIsThreshold, ReportedIsEnough DEF Avail
<1>. QED
  BY <1>1, PlacementInv, PTL

----------------------------------------------------------------------------
(* The sums over the pages.                                                *)

(* What each page reports. *)
Reported == [p \in Pages |-> Avail(p)]

(* SumAvail is a function that adds up what the pages of a set report.    *)
LEMMA SumAvailAddsUp ==
    ASSUME NEW S \in SUBSET Pages
    PROVE  \E F : AddsUp(F, S, Reported) /\ SumAvail(S) = F[S]
<1>. DEFINE iter == CHOOSE f : f = [s \in SUBSET S |->
                        IF s = {} THEN 0
                        ELSE Avail(CHOOSE x \in s : TRUE) + f[s \ {CHOOSE x \in s : TRUE}]]
<1>1. SumAvail(S) = iter[S]
  BY DEF SumAvail, MapThenSumSet, MapThenFoldSet
<1>2. PICK F : AddsUp(F, S, Reported)
  BY SumExists, FS_Subset, PlacementAssumption
<1>3. \A f : f = [s \in SUBSET S |->
                        IF s = {} THEN 0
                        ELSE Avail(CHOOSE x \in s : TRUE) + f[s \ {CHOOSE x \in s : TRUE}]]
             <=> AddsUp(f, S, Reported)
  <2>. TAKE f
  <2>1. \A s \in SUBSET S : s # {} => Avail(Pick(s)) = Reported[Pick(s)]
    <3>. SUFFICES ASSUME NEW s \in SUBSET S, s # {} PROVE Pick(s) \in Pages
      BY DEF Reported
    <3>. QED BY DEF Pick
  <2>. DEFINE A(s) == IF s = {} THEN 0 ELSE Avail(Pick(s)) + f[s \ {Pick(s)}]
              B(s) == IF s = {} THEN 0 ELSE Reported[Pick(s)] + f[s \ {Pick(s)}]
  <2>2. \A s \in SUBSET S : A(s) = B(s)
    BY <2>1
  <2>3. [s \in SUBSET S |-> A(s)] = [s \in SUBSET S |-> B(s)]
    <3>. HIDE DEF A, B
    <3>. QED BY <2>2
  <2>. QED BY <2>3 DEF AddsUp, Pick
<1>4. AddsUp(iter, S, Reported)
  <2>. DEFINE Body(f) == [s \in SUBSET S |->
                            IF s = {} THEN 0
                            ELSE Avail(CHOOSE x \in s : TRUE) + f[s \ {CHOOSE x \in s : TRUE}]]
  <2>1. \A f : f = Body(f) <=> AddsUp(f, S, Reported)
    BY <1>3
  <2>2. iter = CHOOSE f : f = Body(f)
    OBVIOUS
  <2>. HIDE DEF Body, iter
  <2>. QED
    BY <1>2, <2>1, <2>2
<1>. QED
  <2>. HIDE DEF iter
  <2>. WITNESS iter
  <2>. QED BY <1>1, <1>4

(* What a page reports is at most a page.                                  *)
LEMMA ReportedIsSmall ==
    ASSUME NEW avail \in Nat
    PROVE  pg_freespace(avail) \in 0 .. BLCKSZ
<1>1. fsm_space_avail_to_cat(avail) \in 0 .. 255
  <2>1. avail \div 32 \in Nat
    OBVIOUS
  <2>. QED
    BY <2>1 DEF fsm_space_avail_to_cat, Least
<1>. DEFINE cat == fsm_space_avail_to_cat(avail)
<1>. HIDE DEF cat
<1>2. fsm_space_cat_to_avail(cat) \in 0 .. BLCKSZ
  BY <1>1 DEF fsm_space_cat_to_avail, cat
<1>. QED
  BY <1>2 DEF pg_freespace, cat

(* What pages report is a natural, at most a page for each, and less for   *)
(* some pages than for all.                                                *)
LEMMA SumAvailBounds ==
    ASSUME TypeOK, NEW S \in SUBSET Pages
    PROVE  SumAvail(S) \in 0 .. relation_free_space_bytes
           /\ relation_free_space_bytes \in 0 .. relation_bytes
<1>1. BLCKSZ \in Nat
  OBVIOUS
<1>. HIDE DEF BLCKSZ
<1>2. Reported \in [Pages -> 0 .. BLCKSZ]
  <2>. SUFFICES ASSUME NEW p \in Pages PROVE Avail(p) \in 0 .. BLCKSZ
    BY DEF Reported
  <2>1. free[p] \in Nat
    BY DEF TypeOK
  <2>. QED
    BY <2>1, ReportedIsSmall DEF Avail
<1>. USE PlacementAssumption
<1>3. PICK F : AddsUp(F, S, Reported) /\ SumAvail(S) = F[S]
  BY SumAvailAddsUp
<1>4. PICK G : AddsUp(G, Pages, Reported) /\ SumAvail(Pages) = G[Pages]
  BY SumAvailAddsUp
<1>5. F[S] = G[S]
  BY <1>3, <1>4, SumIsUnique
<1>6. G[S] \in Nat /\ G[S] <= G[Pages]
  BY <1>2, <1>4, <1>1, SumBounds, SumMonotone
<1>7. G[Pages] \in Nat /\ G[Pages] <= Cardinality(Pages) * BLCKSZ
  <2>1. Pages \in SUBSET Pages
    OBVIOUS
  <2>. QED BY <1>2, <1>4, <1>1, <2>1, SumBounds
<1>8. Cardinality(Pages) \in Nat
  BY FS_CardinalityType
<1>. QED
  BY <1>3, <1>4, <1>5, <1>6, <1>7, <1>8 DEF relation_free_space_bytes, relation_bytes

(* The table's fillfactor leaves room on a page.                           *)
LEMMA UsableIsPositive == usable_per_page(FillFactor) \in Nat \ {0}
<1>1. FillFactor \in Nat
  BY PlacementAssumption
<1>. QED
  BY <1>1 DEF usable_per_page, Greatest

(* Whatever has been placed and released, the reported parts are the whole *)
(* relation and none of them is negative.                                  *)
THEOREM BreakdownHolds == Spec => []BreakdownAddsUp
<1>1. TypeOK => BreakdownAddsUp
  <2>. SUFFICES ASSUME TypeOK, NEW u \in Units
                PROVE  LET b == bloat(u) IN
                       /\ heap_live(relation_bytes, b) + b.waste + b.online
                            + b.vacuum_full_only = relation_bytes
                       /\ {b.waste, b.online, b.vacuum_full_only} \subseteq 0 .. relation_bytes
    BY DEF BreakdownAddsUp
  <2>1. relation_bytes \in Nat
    <3>1. Cardinality(Pages) \in Nat
      BY PlacementAssumption, FS_CardinalityType
    <3>. QED
      BY <3>1 DEF relation_bytes
  <2>2. relation_free_space_bytes \in 0 .. relation_bytes
    BY SumAvailBounds
  <2>3. online_reclaimable_bytes(u) \in Nat
    BY SumAvailBounds DEF online_reclaimable_bytes
  <2>. QED
    BY <2>1, <2>2, <2>3, UsableIsPositive, SplitAddsUp DEF bloat
<1>. QED
  BY <1>1, PlacementInv, PTL

(* Nor does the heap phase ever aim below the size of a full rewrite.      *)
THEOREM HeapTargetHolds == Spec => []HeapTargetIsReachable
<1>1. TypeOK => HeapTargetIsReachable
  <2>. SUFFICES ASSUME TypeOK, NEW u \in Units
                PROVE  LET b     == bloat(u)
                           freed == Cardinality(Pages) - ideal_heap_pages(Cardinality(Pages), b)
                       IN  freed = 0 \/ freed + b.ideal_pages <= Cardinality(Pages)
    BY DEF HeapTargetIsReachable
  <2>1. Cardinality(Pages) \in Nat
    BY PlacementAssumption, FS_CardinalityType
  <2>2. relation_free_space_bytes \in 0 .. Cardinality(Pages) * BLCKSZ
    BY SumAvailBounds DEF relation_bytes
  <2>3. online_reclaimable_bytes(u) \in Nat
    BY SumAvailBounds DEF online_reclaimable_bytes
  <2>. QED
    BY <2>1, <2>2, <2>3, UsableIsPositive, HeapTargetAboveFloor DEF bloat, relation_bytes
<1>. QED
  BY <1>1, PlacementInv, PTL

(* The TOAST phase aims at most one header per page below it, and what it  *)
(* takes for usable is what the report calls online.                       *)
THEOREM ToastTargetHolds == Spec => []ToastTargetNearFloor
<1>1. TypeOK => ToastTargetNearFloor
  <2>. SUFFICES ASSUME TypeOK PROVE ToastTargetNearFloor
    OBVIOUS
  <2>1. admit_threshold(FULL_TOAST_CHUNK_FOOTPRINT) = TOAST_CHUNK_ONPAGE_SIZE
    BY DEF admit_threshold, fsm_space_needed_to_cat, CeilDiv, Least, Greatest,
           FULL_TOAST_CHUNK_FOOTPRINT, TOAST_CHUNK_ONPAGE_SIZE
  <2>2. usable_free = online_reclaimable_bytes(FULL_TOAST_CHUNK_FOOTPRINT)
    BY <2>1 DEF usable_free, online_reclaimable_bytes
  <2>3. usable_free \in 0 .. relation_free_space_bytes
    BY SumAvailBounds DEF usable_free
  <2>4. Cardinality(Pages) \in Nat
    BY PlacementAssumption, FS_CardinalityType
  <2>5. relation_free_space_bytes \in 0 .. Cardinality(Pages) * BLCKSZ
    BY SumAvailBounds DEF relation_bytes
  <2>. DEFINE pages  == Cardinality(Pages)
              target == ideal_toast_pages(pages, usable_free)
  <2>6. toast_bloat.ideal_pages <= target + CeilDiv(PAGE_HEADER_BYTES * target, CAPACITY)
    <3>1. usable_free \in Nat
      BY <2>3
    <3>2. toast_bloat = bloat_from_occupied(pages * BLCKSZ, relation_free_space_bytes,
                                            usable_per_page(100), usable_free)
      BY <2>2 DEF toast_bloat, relation_bytes
    <3>. DEFINE avail == relation_free_space_bytes
                usable == usable_free
    <3>3. pages \in Nat /\ avail \in 0 .. pages * BLCKSZ /\ usable \in 0 .. avail
      BY <2>3, <2>4, <2>5
    <3>4. bloat_from_occupied(pages * BLCKSZ, avail, usable_per_page(100), usable).ideal_pages
            <= ideal_toast_pages(pages, usable)
                 + CeilDiv(PAGE_HEADER_BYTES * ideal_toast_pages(pages, usable), CAPACITY)
      <4>. HIDE DEF pages, avail, usable
      <4>. QED BY <3>1, <3>3, ToastTargetNearFullRewrite DEF usable
    <3>. QED
      BY <3>2, <3>4
  <2>. QED
    BY <2>2, <2>6 DEF ToastTargetNearFloor
<1>. QED
  BY <1>1, PlacementInv, PTL
=============================================================================
