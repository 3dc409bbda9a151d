CONSTANTS
  Modes = {"GPRS_ENABLE", "SLEEP_MODE"}
SPECIFICATION Spec
PROPERTIES IncomingCallTaken
