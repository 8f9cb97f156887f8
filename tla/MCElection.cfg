SPECIFICATION MCSpec
CONSTANTS
  N_CONNECTED = 2
  ITER_TH_TOLERANCE = 2
  RES_PING_TH = 1
  UsePolls = {1}
  MaxUpsets = 1
  MaxRequests = 0
INVARIANTS TypeOK NoWedge
PROPERTIES HighestWinsItsElection ImplementsElection
