SPECIFICATION FairSpec
CONSTANTS
  Threads = {t1, t2}
  Tasks = {p1}
  Commands = {"set", "cancel", "alloc", "mon"}
  EarlyOpen = TRUE
  MaxEntries = 2
  NoTask = NoTask
CHECK_DEADLOCK TRUE
INVARIANTS TypeOK UnloadClean RefsMatchList MonitoredNotFreed
PROPERTIES DeadRemoved UnloadEnds
