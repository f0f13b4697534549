SPECIFICATION FairSpec
CONSTANTS
  M = 32
  IssA = 3
  IssP = 5
  MsgsA = 1
  MsgsP = 0
  Iss <- MCIss
  MaxMsgs <- MCMaxMsgs
  PingsA = 0
  PingsP = 0
  MaxPings <- MCMaxPings
  RecvBuf = 2
  SndBuf = 1
  XmitLimit = 1
  ConnXmitLimit = 1
  GiveUp = FALSE
  Lossy = TRUE
  SameId = FALSE
  AppCalls = {"send"}
PROPERTY MessagesArrive
PROPERTY WritableAgain
CHECK_DEADLOCK FALSE
