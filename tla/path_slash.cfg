SPECIFICATION Spec
CONSTANTS
  Node <- MCNode
  Kind <- MCKind
  Target <- MCTarget
  Inside <- MCInside
  Base = "base"
  Root = "root"
  Name <- MCName
  Ent0 <- MCEnt0
  Requests <- SlashPaths
  MAX_SYMLINK_EXPANSIONS = 2
  MaxMoves = 0
INVARIANT Contained
