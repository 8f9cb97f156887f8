SPECIFICATION FairSpec
CONSTANTS
  Client = {c1, c2}
  CONNECTED = 2
  COREPOOL = 5
  QUOTA = 1
  Amounts = {1, 2}
  MaxDeaths = 0
PROPERTY AllDoneTerminates
\* the server ends
CHECK_DEADLOCK FALSE
