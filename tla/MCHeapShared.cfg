SPECIFICATION FairHeapSpec
CONSTANTS
  r1 = r1
  r2 = r2
  r3 = r3
  Rows <- MCRows
  Absent = Absent
  PageCounts <- MCPageCounts
  MaxPages = 7
  StartPages = 4
  Slots = 2
  LandingSlots = 1
  MAX_DRAIN_ATTEMPTS = 3
  MaxWrites = 1
  INITIAL_TAIL_WINDOW_PAGES = 2
  MAX_TAIL_WINDOW_PAGES = 3
  VACUUM_EVERY_PAGES = 2
  ITERATION_SLACK = 1
  PLATEAU_TRUNCATE_PERCENT = 20
INVARIANTS
  HeapTypeOK
  NeverEndsLonger
  CompletedMeansShorter
PROPERTIES
  DrainAllOrNothing
  ImplementsLoop
  HeapTermination
