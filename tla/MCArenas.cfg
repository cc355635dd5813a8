CONSTANTS
  kSlots = 2
  Images = {a, b, c, d, e}
  MaxCount = 2
  MaxPrepares = 2
  MaxSubmissions = 3
SPECIFICATION ArenasSpec
SYMMETRY Symmetry
INVARIANT AllOrNothing
PROPERTIES
  BeginFindsIdle
