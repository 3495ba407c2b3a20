SPECIFICATION Spec
CONSTANTS
  Fd <- MCFd
  Tables <- MCTables
  Desc <- MCDesc
  File <- MCFile
  Mode <- MCMode
  Iovs <- MCIovs
  Addr <- MCAddr
  MAX = 2
  Sizes <- MCSizes
  Deltas <- MCDeltas
  FdFlags <- MCFdFlags
  Ops <- MCOps
  MaxOthers = 1
INVARIANTS TypeOK ReadsLand
PROPERTIES RightsRespected AllocateKeeps
