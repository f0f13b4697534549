SPECIFICATION Spec
CONSTANTS
  Clients = {pa}
  MaxConns = 3
  MaxFaults = 3
  UsingRudp = TRUE
  UsingRtcp = TRUE
INVARIANT TimerIsThere
CHECK_DEADLOCK FALSE
