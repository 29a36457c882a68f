CONSTANTS
  Address = {a1, a2, a3}
  TagId = {t1, t2, t3}
  Strength = {1, 2}
  MAX_READERS = 2
  MAX_TAGS = 2
  SIGHTING_FIFO_SIZE = 2
  MS_READER_HITS_LIVE = 2
  HourLength = 2
  NULL = NULL
  Junk = Junk
  MaxTime = 2
  MaxPackets = 3
SYMMETRY Symmetry
SPECIFICATION Spec
INVARIANT
  FullTagTableSurvived
CHECK_DEADLOCK FALSE
