SPECIFICATION Spec
CONSTANTS
  Loadable <- AllDrivers
  MaxLoaded = 2
  None = None
CHECK_DEADLOCK FALSE
INVARIANTS NothingLeft NotTwice EntryReady UsersSafe
PROPERTIES Undisturbed
