CONSTANTS
  Size = 4
  Byte = {a, b}
  MaxPutsInWrap = 2
SPECIFICATION Spec
PROPERTIES AcceptedIsKept
