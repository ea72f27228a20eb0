SPECIFICATION Spec
CONSTANTS
  Threads = {t1, t2}
  Cpus = {c1, c2}
  BUFFER_SIZE = 2
  SizeMod = 8
  MaxRead = 2
  Scancodes <- MCScancodes
  Handler = Handler
  Free = Free
  NoCpu = NoCpu
  NUL = NUL
CHECK_DEADLOCK TRUE
PROPERTIES NoPhantomChar
