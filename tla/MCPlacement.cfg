SPECIFICATION Spec
CONSTANTS
  p1 = p1
  p2 = p2
  p3 = p3
  Pages <- MCPages
  Units <- MCUnits
  Stubs <- MCStubs
  FillFactor = 100
SYMMETRY PageSymmetry
INVARIANTS
  AdmittedPageFits
  ThresholdIsAdmission
  BreakdownAddsUp
  HeapTargetIsReachable
  ToastTargetNearFloor
