CONSTANTS
  Buffers = {a, b}
  kUploadSlots = 2
  FillsAnytime = FALSE
  MaxOps = 5
SPECIFICATION Spec
SYMMETRY Symmetry
PROPERTIES
  WritesInOrder
  SyncLeavesNothing
CHECK_DEADLOCK FALSE
