SPECIFICATION Spec
CONSTANTS
  Fd <- MCFd
  Tables <- ReadTable
  Desc <- MCDesc
  File <- MCFile
  Mode <- MCMode
  Iovs <- MCIovs
  Addr <- MCAddr
  MAX = 2
  Sizes <- MCSizes
  Deltas <- MCDeltas
  FdFlags <- MCFdFlags
  Ops <- ReadOps
  MaxOthers = 0
PROPERTY PwriteNeedsWrite
