SPECIFICATION OpsFairSpec
CONSTANTS
  Node <- MCNode
  Kind <- MCKind
  Target <- MCTarget
  Inside <- MCInside
  Base = "base"
  Root = "root"
  Name <- MCName
  Ent0 <- MCEnt0
  Requests <- MCRequests
  MAX_SYMLINK_EXPANSIONS = 2
  MaxMoves = 1
  Spare <- MCSpare
  Calls <- MCCalls
  MaxCalls = 2
  UnlinkDirErrno = "EPERM"
INVARIANTS OpsTypeOK Contained TargetInside
PROPERTIES EffectsInside ActsAsPosix CallsReturn
