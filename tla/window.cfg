SPECIFICATION Spec
CONSTANTS
  M = 32
  IssA = 3
  IssP = 5
  MsgsA = 1
  MsgsP = 0
  Iss <- MCIss
  MaxMsgs <- MCMaxMsgs
  PingsA = 1
  PingsP = 0
  MaxPings <- MCMaxPings
  RecvBuf = 1
  SndBuf = 1
  XmitLimit = 1
  ConnXmitLimit = 1
  GiveUp = FALSE
  Lossy = FALSE
  SameId = FALSE
  AppCalls = {"send","keep","block"}
INVARIANT SequenceAgreement
INVARIANT AckedIsHeld
CHECK_DEADLOCK FALSE
