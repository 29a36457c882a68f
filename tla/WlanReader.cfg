CONSTANTS
  RX_DEPTH = 2
  WIFI_FIFO_SIZE = 3
  MAX_RUN = 1
  ReaderId = {1, 2}
  DefaultId = 1
  Frame <- MCFrame
  NULL = NULL
  Burst = 1
  MaxFrames = 3
SPECIFICATION FairSpec
INVARIANTS
  TypeOK
  DeafCauses
  EmptyReadOnlyAfterRace
  NoFrameSkipped
  AckedIdSurvives
PROPERTY
  WokenReads
