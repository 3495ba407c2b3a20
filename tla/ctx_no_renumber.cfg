SPECIFICATION Spec
CONSTANTS
  MaxRaw = 7
  MaxFd = 5
  Obj <- MCObj
  TypeOf <- MCTypeOf
  Contents <- MCContents
  DevNull = "null"
  HostFds <- MCHostFds
  HostFiles <- MCHostFiles
  GuestPaths = {"/a", "/b"}
  RightsArgs <- MCRightsArgs
  OpenArgs <- AnyOpen
  GuestCalls <- WithoutRenumber
INVARIANT EntriesAccurate
PROPERTIES StartupScan PreopensStay
