SPECIFICATION FairSpec
CONSTANTS
  Node <- MCNode
  Kind <- MCKind
  Target <- MCTarget
  Inside <- MCInside
  Base = "base"
  Root = "root"
  Name <- MCName
  Ent0 <- MCEnt0
  Requests <- ShortPaths
  MAX_SYMLINK_EXPANSIONS = 2
  MaxMoves = 1
INVARIANT AgreesWithPosix
PROPERTY Terminates
