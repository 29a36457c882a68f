CONSTANTS
  EINK_MAX_JOB = 2
  EINK_MAX_JOB_PART = 3
  NumLuts = 2
  Task = {"paint", "console"}
  Update <- MCUpdate
  NoCookie = NoCookie
  MaxUpdates = 3
SPECIFICATION FairSpec
INVARIANTS
  SharedPixelsCauses
  LutOwned
  OneWaitingPerCookie
  CancelledDrawnIfRaced
  LostOnlyAfterRace

  
