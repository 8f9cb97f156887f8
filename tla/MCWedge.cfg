SPECIFICATION WedgeSpec
CONSTANTS
  N_CONNECTED = 2
  ITER_TH_TOLERANCE = 4
  RES_PING_TH = 3
  UsePolls = {8}
INVARIANT NoWedge
\* the schedule ends
CHECK_DEADLOCK FALSE
