SPECIFICATION FairToastSpec
CONSTANTS
  r1 = r1
  r2 = r2
  Rows <- MCRows
  Columns = 2
  Chunks <- MCChunks
  PageCounts <- MCPageCounts
  Slots = 3
  LandingSlots = 1
  MaxPages = 4
  StartPages = 3
  MaxTuples = 4
  StartHomes <- MCHomes
  DeadTuples <- MCDeadTuples
  CHUNK_MAP_STALE_PERCENT = 50
  MaxWrites = 1
  INITIAL_TAIL_WINDOW_PAGES = 1
  MAX_TAIL_WINDOW_PAGES = 3
  VACUUM_EVERY_PAGES = 2
  ITERATION_SLACK = 1
  PLATEAU_TRUNCATE_PERCENT = 20
INVARIANTS
  ToastTypeOK
  StrayRowsExplained
  NoPageSkipped
  NoScaffoldLeft
PROPERTIES
  ImplementsLoop
  ToastTermination
