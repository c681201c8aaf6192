CONSTANTS
  BUFSIZE = 4
  Beyond = Beyond
  MaxBytes = 9
SPECIFICATION FairSpec
INVARIANTS CursorsCount UnreadIntact CopiedInOrder
PROPERTIES EveryByteConsumed
CHECK_DEADLOCK FALSE
