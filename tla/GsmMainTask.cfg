CONSTANTS
  Modes = {"GPRS_ENABLE", "SLEEP_MODE"}
SPECIFICATION FairSpec
INVARIANTS TypeOK AtPartsInCommandMode DataCallRests
PROPERTIES EscapeCompletes
