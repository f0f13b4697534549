SPECIFICATION Spec
CONSTANTS
  M = 32
  IssA = 3
  IssP = 5
  MsgsA = 0
  MsgsP = 0
  Iss <- MCIss
  MaxMsgs <- MCMaxMsgs
  PingsA = 0
  PingsP = 0
  MaxPings <- MCMaxPings
  RecvBuf = 1
  SndBuf = 1
  XmitLimit = 1
  ConnXmitLimit = 1
  GiveUp = TRUE
  Lossy = FALSE
  SameId = TRUE
  AppCalls = {"abort", "accept", "noaccept", "unlisten", "destroy", "punch"}
INVARIANT OneOutcome
CHECK_DEADLOCK FALSE
