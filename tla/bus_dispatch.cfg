SPECIFICATION FairSpec
CONSTANTS
  TypeCount = 2
  Handlers = {h1, h2}
  Priorities = {0, 1}
  Timeout = TRUE
  StableSize = 16
  MaxEvents = 3
CHECK_DEADLOCK FALSE
PROPERTY ReachesEveryHandler
PROPERTY DispatchesAll
PROPERTY DispatchReturns
