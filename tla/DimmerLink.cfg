CONSTANTS
  TX_COMMAND_RETRIES = 2
  MOD = 8
  WINDOW = 4
  FIFO = 2
  MaxDelay = 2
  HostClock = {3, 6}
  MaxNow = 5
  MaxCommands = 1
SPECIFICATION Spec
INVARIANTS
  ExecutedInOrder
  NewerRefusedOutOfReach
  ResetOnce
  
CHECK_DEADLOCK FALSE
