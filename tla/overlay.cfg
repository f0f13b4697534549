SPECIFICATION Spec
CONSTANTS
  Nodes = {na, nb}
  na = na
  nb = nb
  Named = {na, nb}
  MaxConns = 3
  MaxObjects = 2
  MaxEvents = 1
  MaxPeers = 3
  MaxNeighbors = 1
  ManyMembers = 1
  FirstStages = {"direct"}
  Interactive = TRUE
  First = 2
  Second = 1
  Third = 4
  Fourth = 3
  Session <- MCSession
SYMMETRY Symmetry
INVARIANT TypeOK
INVARIANT AssertsHold
INVARIANT TablesDisjoint
INVARIANT PendingIsConnecting
INVARIANT OwnNeighbor
INVARIANT UrdpConflictKeepsOne
INVARIANT NeighborsAgree
CHECK_DEADLOCK FALSE
