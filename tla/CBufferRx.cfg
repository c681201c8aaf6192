CONSTANTS
  BUFSIZE = 4
  Beyond = Beyond
  BufferType = "BUFFER_RX"
  MaxBytes = 10
SPECIFICATION Spec
INVARIANTS HoldsLatest
PROPERTIES ImplementsByteQueue
CHECK_DEADLOCK FALSE
