SPECIFICATION FairSpec
CONSTANTS
  Rows <- MCRows
  AddrNum = 2
  Given = {0}
  Reached = {0}
  Interval = 3
  MaxDelay = 5
  Ids = {1, 2, 3, 4}
  MaxChanges = 1
  MaxTroubles = 2
INVARIANTS ObjectsOfRow OnePeer UpIsConnected
PROPERTIES ChannelReturns
