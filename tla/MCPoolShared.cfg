CONSTANTS
  Requests <- SameClass
  Classes <- MCClasses
  ClassOf <- MCClassOf
  ClassBytes <- MCClassBytes
  Budget = 4096
  UnifiedMemory = TRUE
  Natives = {n1, n2}
  NoBuffer = NoBuffer
  MaxSpins = 2
  MaxHandles = 3
  MaxSubmissions = 1
SPECIFICATION FairSpec
INVARIANTS
  StatsExact
PROPERTIES
  CallsReturn
  WaitsReturn
