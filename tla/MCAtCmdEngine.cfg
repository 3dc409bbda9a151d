CONSTANTS
  Cmd <- MCCmd
  None = "NULL"
  nextCmd <- MCNext
  retryNum <- MCRetry
  sendCb <- MCSendCb
  endCb <- MCEndCb
SPECIFICATION FairSpec
INVARIANTS BoundedResend OneOutcome HonestOutcome
PROPERTIES IsCommands CommandEnds
