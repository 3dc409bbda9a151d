CONSTANTS
  Cmd <- MCCmd
  None = "NULL"
  nextCmd <- MCNext
  retryNum <- MCRetry
  sendCb <- MCSendCb
  endCb <- MCEndCb
  DialChain <- MCChain
SPECIFICATION DialSpec
INVARIANTS DialTypeOK OneAfterFailure
PROPERTIES ConnectedMeansAllAcked DialEnds
