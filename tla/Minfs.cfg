SPECIFICATION Spec
CONSTANTS
  Names = {a, b, c}
  FirstName = a
  NoName = NoName
  MINFS_NUM_INODES = 3
  MINFS_NUM_ENTRIES = 3
CHECK_DEADLOCK TRUE
SYMMETRY NameSymmetry
INVARIANTS NamesUnique InodesFilled ListingComplete
PROPERTIES ImplementsStore
