CONSTANTS
  Buffers = {a, b}
  kUploadSlots = 2
  kStagingSlots = 2
  Sizes = {1, 2}
  FillsAnytime = TRUE
  MaxOps = 5
SPECIFICATION Spec
SYMMETRY Symmetry
PROPERTIES
  WritesInOrder
CHECK_DEADLOCK FALSE
