CONSTANTS
  ByteSize = 3
  BlockLen = 2
SPECIFICATION FairSpec
INVARIANTS
  TypeOK
  StrictlyNewer
  BoundedSetback
  NeverWraps
PROPERTIES
  ExhaustedForGood
  RunsUntilExhausted
