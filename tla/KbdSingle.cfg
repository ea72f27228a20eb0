SPECIFICATION FairSpec
CONSTANTS
  Threads = {t1}
  Cpus = {c1, c2}
  BUFFER_SIZE = 3
  SizeMod = 12
  MaxRead = 3
  Scancodes <- MCScancodes
  Handler = Handler
  Free = Free
  NoCpu = NoCpu
  NUL = NUL
CHECK_DEADLOCK TRUE
INVARIANTS TypeOK CountBound
PROPERTIES ImplementsQueue NoPhantomChar CallsReturn
