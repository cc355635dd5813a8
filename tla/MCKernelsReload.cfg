CONSTANTS
  Names = {"display", "plug"}
  Compiled = {"display"}
  Bundles = {d1, d2}
  Ours = Ours
  NoBlob = NoBlob
SYMMETRY Symmetry
SPECIFICATION KernelsSpec
INVARIANT LoadsWhatIsRegistered
