CONSTANTS
  Requests <- SameClass
  Classes <- MCClasses
  ClassOf <- MCClassOf
  ClassBytes <- MCClassBytes
  Budget = 8192
  UnifiedMemory = TRUE
  Natives = {n1, n2, n3}
  NoBuffer = NoBuffer
  MaxSpins = 1
  MaxHandles = 3
  MaxSubmissions = 2
SPECIFICATION Spec
INVARIANT AskedWithinInUse
