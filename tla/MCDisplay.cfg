CONSTANTS
  Names = {"display"}
  Compiled = {"display"}
  Bundles = {d1}
  Ours = Ours
  NoBlob = NoBlob
  NoPicture = NoPicture
  Sizes <- WindowSizes
  WordMax = 8
  WordBytes = 2
  HandleBytes = 3
  Buffers = {b1, b2, b3}
  NoBuffer = NoBuffer
  Source = Source
  Class <- PowerOfTwo
  LutSizes = {2}
  MaxFrames = 2
SYMMETRY Symmetry
SPECIFICATION Spec
INVARIANTS
  HoldsExactly
  PictureWhole
  LutMatches
  ShownIsLast
  DrawsOurs
