CONSTANTS
  Size = 4
  Byte = {a, b}
  MaxPutsInWrap = 1
SPECIFICATION Spec
INVARIANTS TypeOK ReadIsOldest
PROPERTIES IsFifo FillNeverOverstates
