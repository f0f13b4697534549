SPECIFICATION Spec
CONSTANTS
  Nodes = {na, nb, nc}
  na = na
  nb = nb
  nc = nc
  Named = {nb}
  MaxConns = 2
  MaxObjects = 1
  MaxEvents = 1
  MaxPeers = 3
  MaxNeighbors = 1
  ManyMembers = 0
  FirstStages = {"direct"}
  Interactive = TRUE
  First = 2
  Second = 1
  Third = 4
  Fourth = 3
  Session <- MCSession
INVARIANT NeighborsBounded
INVARIANT OwnNeighbor
INVARIANT NeighborsAgree
CHECK_DEADLOCK FALSE
