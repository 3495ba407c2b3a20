SPECIFICATION Spec
CONSTANTS
  Raw <- MCRaw
  Inputs <- TwoFds
  Conditions <- MCConditions
  Offsets = {0}
  NsPerMs = 2
  CIntMax = 3
  MaxNow = 0
  MaxLate = 0
  MaxSignals = 0
INVARIANT ReadyReported
