SPECIFICATION Spec
CONSTANTS
  s1 = s1
  s2 = s2
  Nobody = Nobody
  Sessions <- TwoSessions
  Configs <- RacingConfigs
SYMMETRY SessionSymmetry
INVARIANT MutualExclusion
