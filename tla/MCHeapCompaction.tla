-------------------------- MODULE MCHeapCompaction --------------------------
EXTENDS HeapCompaction, TLC
CONSTANTS r1, r2, r3
MCRows == {r1, r2, r3}
MCPageCounts == 0 .. MaxPages
=============================================================================
