CONSTANTS
  KnownReader = {1}
  Datagram <- MCDatagram
  READER_SLOTS = 2
  TAG_SLOTS = 2
  HashMap <- MCHashMap
  STRENGTH_LEVELS_COUNT = 2
  MIN_AGGREGATION_SECONDS = 0
  MAX_AGGREGATION_SECONDS = 3
  TAGSIGHTING_BUTTON_TIME = 2
  MaxNow = 6
  MaxDatagrams = 2
SPECIFICATION FairSpec
INVARIANTS
  ItemsComplete
  StrengthExact
  PullsOnce
  ButtonCountsDown
  LostBehindInvalid
PROPERTY
  DatagramDone
CHECK_DEADLOCK FALSE
