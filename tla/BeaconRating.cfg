CONSTANTS
  Oid = {0, 1, 2}
  Strength = {0, 1}
  FIFO_DEPTH = 3
  COUNT_MAX = 2
  LIFETIME = 2
  UPDATE_INTERVAL_MS = 0
  SORT_PRINT_DEPTH = 2
  NopCommand = {2}
  MaxNow = 2
  MaxLoad = 4
SPECIFICATION Spec
INVARIANTS
  RatingExact
  CommandFate
CHECK_DEADLOCK FALSE
