SPECIFICATION Spec
CONSTANTS
  Loadable <- MCRamDisk
  MaxLoaded = 1
  None = None
INVARIANTS LoadedComplete
