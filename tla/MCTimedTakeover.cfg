SPECIFICATION MCSpec
CONSTANTS
  N_CONNECTED = 2
  ITER_TH_TOLERANCE = 4
  RES_PING_TH = 3
  UsePolls = {6, 9}
  Waits = {6, 9}
  MaxDeaths = 0
  MaxRequests = 3
INVARIANT TakeoverOnlyIfHigherDown
