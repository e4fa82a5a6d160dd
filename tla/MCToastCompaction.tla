------------------------- MODULE MCToastCompaction -------------------------
EXTENDS ToastCompaction, TLC
CONSTANTS r1, r2
MCRows == {r1, r2}
MCPageCounts == 0 .. MaxPages
MCHomes == (r1 :> 1) @@ (r2 :> 3)
MCDeadTuples == {<<<<r1, 1>>, 2>>}
(* A value of two chunks in the first column, one of one in the second.    *)
MCChunks == (<<r1, 1>> :> 2) @@ (<<r1, 2>> :> 0) @@ (<<r2, 1>> :> 0) @@ (<<r2, 2>> :> 1)
(* As before, and a row with two values.                                   *)
MCWideChunks == [MCChunks EXCEPT ![<<r1, 2>>] = 1]
(* Two values of two chunks each.                                          *)
MCLongChunks == [MCChunks EXCEPT ![<<r2, 1>>] = 2, ![<<r2, 2>>] = 0]
=============================================================================
