SPECIFICATION MCFairSpec
CONSTANTS
  N_CONNECTED = 2
  ITER_TH_TOLERANCE = 4
  RES_PING_TH = 3
  UsePolls = {6}
  Waits = {6, 7, 8, 9, 10}
  MaxDeaths = 1
  MaxRequests = 0
INVARIANT TimedTypeOK
PROPERTIES PingSuspicionJustified CoordinatorAgain
