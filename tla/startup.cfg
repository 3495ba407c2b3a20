SPECIFICATION Spec
CONSTANTS
  PtrMax = 7
  UsizeMax = 63
  Word = 2
  Contexts <- ConstContexts
  Preopens <- ConstPreopens
  MemLens = {6, 8}
  Lens = {0, 2, 3}
  MaxCalls = 2
INVARIANTS TypeOK WritesInside ResultWhole SpaceAnnounced FailureLeaves
