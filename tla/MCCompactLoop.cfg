SPECIFICATION FairSpec
CONSTANTS
  PageCounts <- MCPageCounts
  INITIAL_TAIL_WINDOW_PAGES = 2
  MAX_TAIL_WINDOW_PAGES = 3
  VACUUM_EVERY_PAGES = 3
  ITERATION_SLACK = 1
  PLATEAU_TRUNCATE_PERCENT = 20
INVARIANTS
  TypeOK
  DeadTailBounded
  DeadTailIsWalked
  WindowFitsLanding
  NoDeadTailLeft
  CapOnlyAfterStarvation
PROPERTIES
  Termination
  CursorDescends
  ImplementsTailWalk
