----------------------------- MODULE FsmPredict -----------------------------
(***************************************************************************)
(* The free space arithmetic of pg-compact: which pages the free space map *)
(* offers to a relocated row (fsm_predict.py), how a relation's size is    *)
(* split into live data, padding and bloat (stats.py), and the page count  *)
(* the heap phase aims at (compactor.py).  Sizes are in bytes.             *)
(***************************************************************************)
EXTENDS Integers

BLCKSZ                     == 8192
FSM_CAT_STEP               == 32
MAX_FSM_REQUEST_SIZE       == 8164
LINE_POINTER_BYTES         == 4
PAGE_HEADER_BYTES          == 24
FULL_TOAST_CHUNK_FOOTPRINT == 2036
TOAST_CHUNK_ONPAGE_SIZE    == 2048

Least(a, b)    == IF a <= b THEN a ELSE b
Greatest(a, b) == IF a >= b THEN a ELSE b
CeilDiv(a, b)  == (a + b - 1) \div b

(* Free space rounds down to a category, a request rounds up to one.       *)
fsm_space_avail_to_cat(avail) ==
    IF avail >= MAX_FSM_REQUEST_SIZE THEN 255 ELSE Least(avail \div FSM_CAT_STEP, 255)

(* Mutant: rounds the request down as well.                                *)
fsm_space_needed_to_cat_Down(needed) ==
    Least(Greatest(needed, 1) \div FSM_CAT_STEP, 255)

fsm_space_needed_to_cat(needed) ==
    Least(CeilDiv(Greatest(needed, 1), FSM_CAT_STEP), 255)

fsm_space_cat_to_avail(cat) ==
    IF cat >= 255 THEN MAX_FSM_REQUEST_SIZE ELSE cat * FSM_CAT_STEP

fsm_admits(page_avail, needed_len) ==
    fsm_space_avail_to_cat(page_avail) >= fsm_space_needed_to_cat(needed_len)

(* Mutant: one category above the one that is requested.                   *)
admit_threshold_Above(needed_len) == (fsm_space_needed_to_cat(needed_len) + 1) * FSM_CAT_STEP

admit_threshold(needed_len) == fsm_space_needed_to_cat(needed_len) * FSM_CAT_STEP

onpage_footprint(tuple_len) == 8 * CeilDiv(tuple_len, 8) + LINE_POINTER_BYTES

(* What pg_freespace() reports for a page with `avail' free bytes.         *)
pg_freespace(avail) == fsm_space_cat_to_avail(fsm_space_avail_to_cat(avail))

----------------------------------------------------------------------------
usable_per_page(fillfactor) ==
    Greatest(((BLCKSZ - PAGE_HEADER_BYTES) * fillfactor) \div 100, 1)

(* Mutant: the online estimate is taken as it is.                          *)
online_part_Unclamped(online_bytes, reclaimable) == online_bytes

(* The online estimate, kept within what a full rewrite reclaims.          *)
online_part(online_bytes, reclaimable) == Greatest(Least(online_bytes, reclaimable), 0)

(* _bloat_from_occupied; ideal_pages is what a full rewrite would reach.   *)
bloat_from_occupied(relation_bytes, free_bytes, usable, online_bytes) ==
    LET occupied    == Greatest(relation_bytes - free_bytes, 0)
        ideal_pages == CeilDiv(occupied, usable)
        relpages    == relation_bytes \div BLCKSZ
        reclaimable == Least(Greatest(relpages - ideal_pages, 0) * BLCKSZ, free_bytes)
        online      == online_part(online_bytes, reclaimable)
    IN  IF relation_bytes <= 0
        THEN [ideal_pages |-> 0, free_bytes |-> 0, reclaimable |-> 0, waste |-> 0,
              online |-> 0, vacuum_full_only |-> 0]
        ELSE [ideal_pages |-> ideal_pages, free_bytes |-> free_bytes,
              reclaimable |-> reclaimable,
              waste |-> Greatest(free_bytes - reclaimable, 0),
              online |-> online,
              vacuum_full_only |-> Greatest(reclaimable - online, 0)]

(* heap_live of the report.                                                *)
heap_live(relation_bytes, bloat) == Greatest(relation_bytes - bloat.free_bytes, 0)

(* Mutant: all free space counts as pages that relocation can free.        *)
ideal_heap_pages_AllFree(page_count, bloat) == Greatest(page_count - bloat.free_bytes \div BLCKSZ, 0)

(* The page count the heap phase compacts to.                              *)
ideal_heap_pages(page_count, bloat) == Greatest(page_count - bloat.online \div BLCKSZ, 0)

(* The page count the TOAST phase compacts to; it is not clamped.          *)
ideal_toast_pages(toast_pages, usable_free) ==
    Greatest(toast_pages - usable_free \div BLCKSZ, 0)
=============================================================================
