SPECIFICATION TimerSpec
CONSTANTS
  M = 32
  IssA = 3
  IssP = 5
  MsgsA = 1
  MsgsP = 0
  Iss <- MCIss
  MaxMsgs <- MCMaxMsgs
  PingsA = 0
  PingsP = 0
  MaxPings <- MCMaxPings
  RecvBuf = 2
  SndBuf = 3
  XmitLimit = 1
  ConnXmitLimit = 1
  GiveUp = TRUE
  Lossy = FALSE
  SameId = FALSE
  AppCalls = {"send", "close"}
INVARIANT FinAfterEverything
PROPERTY SilentAfterClose
PROPERTY ConnectEnds
PROPERTY CloseEnds
CHECK_DEADLOCK FALSE
