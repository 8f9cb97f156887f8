SPECIFICATION MCSpec
CONSTANTS
  N_CONNECTED = 1
  ITER_TH_TOLERANCE = 2
  RES_PING_TH = 1
  UsePolls = {1}
  MaxUpsets = 3
  MaxRequests = 2
INVARIANTS BullyOrder HighestNeverUses CoordinatorReady NoWedge
