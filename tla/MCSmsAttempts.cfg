CONSTANTS
  Msg <- MCOne
  NoMsg = "none"
  mode <- MCOneMode
  Tries = 3
  Reload = 1
  Byte = {b1}
  NoByte = NoByte
  SmsMaxRetry = 10
  WithReset = FALSE
SPECIFICATION Spec
PROPERTIES ResentAsAsked
CHECK_DEADLOCK FALSE
