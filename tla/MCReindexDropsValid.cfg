SPECIFICATION Spec
CONSTANTS
  i1 = i1
  i2 = i2
  Indexes <- MCIndexes
  ToastIndex = ToastIndex
  Foreign = Foreign
  MaxRuns = 3
PROPERTY OnlyInvalidDropped
