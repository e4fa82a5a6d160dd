-------------------------- MODULE MCCompactSession --------------------------
(* One run of pg-compact under every combination of flags, and two runs    *)
(* that race for the same table with the longest path through the code.    *)
EXTENDS CompactSession, TLC
CONSTANTS s1, s2

OneSession  == {s1}
TwoSessions == {s1, s2}
SessionSymmetry == Permutations(TwoSessions)

AllConfigs == SUBSET Flags
RacingConfigs == {{"reindex", "toast_compact"}}
=============================================================================
