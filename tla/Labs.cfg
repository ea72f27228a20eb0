SPECIFICATION Spec
CONSTANTS
  Bios = {b1, b2}
  NrSectors = 3
  Values = {0, 1}
  MaxSegments = 2
  Users = {u1, u2}
  Files = {f1, f2}
  BufSize = 2
  MessageSize = 1
  MaxLen = 2
  Offsets = {0, 3}
  MaxSize = 5
  Callers = {c1, c2}
  Addresses = {a1, a2}
  Zero = Zero
  Root = Root
  Inodes = {i1, i2, i3}
  Names = {n1, n2}
  None = None
CHECK_DEADLOCK TRUE
INVARIANTS TypeOK ToldBeforeGone OneFile OffsetInSize ReportsRight LinksExact
PROPERTIES ImplementsDisk ThreadUnloadEnds BiosEnd
