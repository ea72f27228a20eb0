SPECIFICATION Spec
CONSTANTS
  Threads = {t1, t2}
  Tasks = {p1}
  Commands = {"mon"}
  EarlyOpen = FALSE
  MaxEntries = 2
  NoTask = NoTask
CHECK_DEADLOCK TRUE
SYMMETRY ThreadSymmetry
INVARIANTS NoStaleEntry
