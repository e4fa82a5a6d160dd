SPECIFICATION Spec
CONSTANTS
  s1 = s1
  s2 = s2
  Nobody = Nobody
  Sessions <- OneSession
  Configs <- AllConfigs
INVARIANT SuccessIsProgress
