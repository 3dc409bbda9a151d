CONSTANTS
  MaxMsgs = 2
  Slot = {1, 4}
  Cap = 5
  Tries = 1
  ReadTime = 2
  MaxTick = 3
  MaxResets = 1
SPECIFICATION FairSpec
PROPERTIES  GivenUpLate EveryMessageLeaves
CHECK_DEADLOCK FALSE
