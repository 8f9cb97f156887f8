SPECIFICATION MCFairSpec
CONSTANTS
  N_CONNECTED = 1
  ITER_TH_TOLERANCE = 4
  RES_PING_TH = 3
  UsePolls = {6, 9}
  Waits = {6, 9}
  MaxDeaths = 2
  MaxRequests = 2
PROPERTY ResourceComesBack
