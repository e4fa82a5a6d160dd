----------------------------- MODULE MCReindex -----------------------------
EXTENDS Reindex, TLC
CONSTANTS i1, i2
MCIndexes == {i1, i2}
=============================================================================
