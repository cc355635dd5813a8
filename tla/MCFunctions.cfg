CONSTANTS
  MinShift = 12
  MaxShift = 14
  Steps = 4
  Limit = 20000
  WordMax = 4
  WordBytes = 4
  HandleBytes = 8
  Count = 6
  Names = {"display", "plug"}
  Compiled = {"display"}
  Bundles = {d1, d2}
  Ours = Ours
  NoBlob = NoBlob
SYMMETRY Symmetry
SPECIFICATION EngineSpec
INVARIANTS
  TakesTheLeastClass
  AtMostAQuarterOver
  FiledWhereItCameFrom
  BlobsReadBack
  FoundIsMapped
\* The enumeration of inputs ends.
CHECK_DEADLOCK FALSE
