CONSTANTS
  Requests <- TwoSizes
  Classes <- MCClasses
  ClassOf <- MCClassOf
  ClassBytes <- MCClassBytes
  Budget = 9216
  UnifiedMemory = FALSE
  Natives = {n1, n2, n3}
  NoBuffer = NoBuffer
  MaxSpins = 1
  MaxHandles = 3
  MaxSubmissions = 2
SPECIFICATION Spec
SYMMETRY Symmetry
INVARIANTS
  TypeOK
  WatermarkSound
  InFlightKept
  HandlesExact
  EverySlotAccounted
  DriverMemoryAccounted
  StatsExact
  PooledWithinBudget
PROPERTIES
  MarkClimbs
  ReclaimLeavesNothingReady
  WaitDelivers
  KeepsNumbers
