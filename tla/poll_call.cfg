SPECIFICATION FairSpec
CONSTANTS
  Raw <- MCRaw
  Inputs <- Lists
  Conditions <- MCConditions
  Offsets <- MCOffsets
  NsPerMs = 2
  CIntMax = 3
  MaxNow = 2
  MaxLate = 1
  MaxSignals = 1
INVARIANTS TypeOK EventsSound NotEarly EarliestFirst ReadyPrefix
PROPERTY Returns
