----------------------------- MODULE MCPlacement -----------------------------
(* Three pages; the units are a full TOAST chunk, tuples of 2980 and of    *)
(* 1023 bytes, whose sums end in the middle of the map's categories, and   *)
(* the whole page.  With none, one or two line pointers left a page is     *)
(* above the last category or exactly at it.                               *)
EXTENDS Placement, TLC
CONSTANTS p1, p2, p3

MCPages == {p1, p2, p3}
MCUnits == {FULL_TOAST_CHUNK_FOOTPRINT, onpage_footprint(2980), onpage_footprint(1023), CAPACITY}
MCStubs == 0 .. 2
PageSymmetry == Permutations(MCPages)
=============================================================================
