CONSTANTS
  Msg <- MCMsg
  NoMsg = "none"
  mode <- MCMode
  Tries = 2
  Reload = 1
  Byte = {b1, b2}
  NoByte = NoByte
  SmsMaxRetry = 3
  WithReset = TRUE
SPECIFICATION FairSpec
INVARIANTS TypeOK ListIsLive OkMeansDelivered
PROPERTIES FreedInUseOnlyAtLastTry EveryMessageLeaves
CHECK_DEADLOCK FALSE
