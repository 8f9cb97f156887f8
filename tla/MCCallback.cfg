SPECIFICATION MCFairSpec
CONSTANTS
  Client = {1, 2}
  CONNECTEDCLIENTS = 1
  QUOTA = 2
  Amounts = {1, 2}
  MaxDeaths = 1
INVARIANTS TypeOK JudgedByToldPrice
PROPERTIES ImplementsShop RequestAnswered ToldAPrice DeathEndsSales DeathBarsRounds ServerTerminates
\* the program ends
CHECK_DEADLOCK FALSE
