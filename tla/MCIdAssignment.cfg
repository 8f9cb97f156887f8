SPECIFICATION FairSpec
CONSTANTS
  Client = {c1, c2, c3, c4}
  N_CONNECTED = 3
INVARIANTS TypeOK UniqueIds ElectionReachesNodes
PROPERTIES ServiceStarts AssignsNames
\* the clients that have an id go on in GenericClient, the others wait forever
CHECK_DEADLOCK FALSE
