SPECIFICATION Spec
CONSTANTS
  M = 32
  IssA = 3
  IssP = 5
  MsgsA = 2
  MsgsP = 0
  Iss <- MCIss
  MaxMsgs <- MCMaxMsgs
  PingsA = 0
  PingsP = 0
  MaxPings <- MCMaxPings
  RecvBuf = 2
  SndBuf = 3
  XmitLimit = 1
  ConnXmitLimit = 1
  GiveUp = FALSE
  Lossy = FALSE
  SameId = FALSE
  AppCalls = {"send", "close"}
INVARIANT TypeOK
INVARIANT SenderBookkeeping
INVARIANT SequenceAgreement
INVARIANT FinAfterEverything
INVARIANT TeardownIsMutual
PROPERTY ImplementsConnection
CHECK_DEADLOCK FALSE
