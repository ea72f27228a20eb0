SPECIFICATION Spec
CONSTANTS
  Clients = {m1, m2}
  Owner = Owner
  Pids = {p1, p2}
  Nodes = {n1, n2, n3, n4}
  Adds = 2
  KeepCount = 2
  NoPid = NoPid
  End = End
  Freed = Freed
CHECK_DEADLOCK TRUE
SYMMETRY MCSymmetry
INVARIANTS TypeOK FewDuplicates WalkSafe NothingLeft
