SPECIFICATION Spec
CONSTANTS
  Client = {c1, c2}
  CONNECTEDCLIENTS = 1
  QUOTA = 2
  Amounts = {1, 2, 3}
  MaxDeaths = 0
INVARIANT SoldAbovePrice
\* the program ends
CHECK_DEADLOCK FALSE
