SPECIFICATION Spec
CONSTANTS
  Name = {"a", "b", "long"}
  SizeOf <- ConstSizeOf
  Slots = 3
  Cursor = {"c1", "c2"}
  BufLens = {2, 4}
  MaxChanges = 2
  MaxErrors = 1
INVARIANTS TypeOK BufferAccounted ListedOnce Complete
PROPERTY ListingEnds
