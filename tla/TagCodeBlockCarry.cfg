\* What the comments at main.c:209 and main.c:230 promise.
CONSTANTS
  ByteSize = 3
  BlockLen = 2
SPECIFICATION Spec
INVARIANT HigherOrEqualAfterBatteryChange
