CONSTANTS
  Buffers = {a, b}
  kUploadSlots = 2
  kStagingSlots = 2
  Sizes = {1, 2}
  FillsAnytime = FALSE
  MaxOps = 5
SPECIFICATION Spec
SYMMETRY Symmetry
INVARIANTS
  ReadsInOrder
  BytesKept
PROPERTIES
  WritesInOrder
CHECK_DEADLOCK FALSE
