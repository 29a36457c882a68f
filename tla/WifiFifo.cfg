CONSTANTS
  WIFI_FIFO_SIZE = 5
  MAX_RUN = 2
  MaxAccepted = 9
  Packet <- MCPacket
  NULL = NULL
SPECIFICATION MCSpec
INVARIANTS
  FifoTypeOK
  WholeAndInOrder
PROPERTY
  Drained
  ImplementsQueue
