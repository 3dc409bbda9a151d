CONSTANTS
  Silence = 3
  RingGap = 2
  DisableTime = 2
  MaxOps = 2
SPECIFICATION FairSpec
INVARIANTS NoCallWithoutRing
PROPERTIES IsRingPhases RingIsSeen PulseIsSeen
