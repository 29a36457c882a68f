CONSTANTS
  EINK_MAX_JOB = 2
  EINK_MAX_JOB_PART = 3
  NumLuts = 2
  Task = {"paint"}
  Update <- MCCrossing
  NoCookie = NoCookie
  MaxUpdates = 2
SPECIFICATION Spec
INVARIANT
  NoSharedPixels
CHECK_DEADLOCK FALSE
