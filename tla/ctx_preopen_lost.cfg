SPECIFICATION Spec
CONSTANTS
  MaxRaw = 6
  MaxFd = 4
  Obj <- MCObj
  TypeOf <- MCTypeOf
  Contents <- FewContents
  DevNull = "null"
  HostFds <- StdioOnly
  HostFiles <- MCHostFiles
  GuestPaths = {"/a"}
  RightsArgs <- MCRightsArgs
  OpenArgs <- CreateOrDir
  GuestCalls <- AllCalls
PROPERTY PreopensStay
