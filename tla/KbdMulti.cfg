SPECIFICATION FairSpec
CONSTANTS
  Threads = {t1, t2}
  Cpus = {c1, c2}
  BUFFER_SIZE = 2
  SizeMod = 4
  MaxRead = 1
  Scancodes <- MCFewScancodes
  Handler = Handler
  Free = Free
  NoCpu = NoCpu
  NUL = NUL
CHECK_DEADLOCK TRUE
INVARIANTS NoSelfDeadlock IndexAgreement
PROPERTIES HandlerReturns
