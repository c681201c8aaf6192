CONSTANTS
  ChannelMax = 4
  Threads = {t1, t2}
  NoThread = NoThread
  PoolSize = 2
  Tables = {{0, 1, 2, 3}, {1, 2}}
  MaxEvents = 1
SPECIFICATION FairPoolSpec
INVARIANTS LinkExclusive LocksOwned
PROPERTIES EveryLinkRuns
CHECK_DEADLOCK FALSE
