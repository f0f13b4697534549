SPECIFICATION FairSpec
CONSTANTS
  Clients = {pa, pb}
  MaxConns = 3
  MaxFaults = 2
  UsingRudp = TRUE
  UsingRtcp = TRUE
INVARIANT TypeOK
INVARIANT OneSocket
INVARIANT LoginIsListed
INVARIANT ListedIsOpen
PROPERTY ClientSettles
PROPERTY ServerSettles
CHECK_DEADLOCK FALSE
