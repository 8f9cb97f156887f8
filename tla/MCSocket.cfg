SPECIFICATION MCFairSpec
CONSTANTS
  Client = {1, 2, 3}
  CONNECTED = 2
  COREPOOL = 2
  QUOTA = 1
  Amounts = {1, 2}
  MaxDeaths = 2
INVARIANTS TypeOK AwaitedAnswerIsSale SaleIsAwaited ReturnsServed
PROPERTIES ImplementsShop AcceptedIsServed DeathEndsServer
\* the server ends
CHECK_DEADLOCK FALSE
