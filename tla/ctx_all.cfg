SPECIFICATION Spec
CONSTANTS
  MaxRaw = 7
  MaxFd = 4
  Obj <- MCObj
  TypeOf <- MCTypeOf
  Contents <- FewContents
  DevNull = "null"
  HostFds <- MCHostFds
  HostFiles <- MCHostFiles
  GuestPaths = {"/a"}
  RightsArgs <- MCRightsArgs
  OpenArgs <- CreateOrDir
  GuestCalls <- AllCalls
INVARIANTS TypeOK SoleOwner NoLeak Confined
PROPERTIES StdioReserved RightsNeverGrow AtomicFailure KeepsCapabilities
