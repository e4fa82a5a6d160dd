SPECIFICATION ToastSpec
CONSTANTS
  r1 = r1
  r2 = r2
  Rows <- MCRows
  Columns = 2
  Chunks <- MCWideChunks
  PageCounts <- MCPageCounts
  Slots = 2
  LandingSlots = 1
  MaxPages = 6
  StartPages = 4
  MaxTuples = 4
  StartHomes <- MCHomes
  DeadTuples <- MCDeadTuples
  CHUNK_MAP_STALE_PERCENT = 80
  MaxWrites = 0
  INITIAL_TAIL_WINDOW_PAGES = 2
  MAX_TAIL_WINDOW_PAGES = 3
  VACUUM_EVERY_PAGES = 2
  ITERATION_SLACK = 1
  PLATEAU_TRUNCATE_PERCENT = 20
INVARIANT RebuildWorks
