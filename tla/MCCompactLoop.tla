--------------------------- MODULE MCCompactLoop ---------------------------
(* CompactLoop on relations of up to four pages, every constant scaled so  *)
(* that windows, cadence, slack and plateau all bind.                      *)
EXTENDS CompactLoop

MCPageCounts == 0 .. 4
=============================================================================
