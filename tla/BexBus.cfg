SPECIFICATION Spec
CONSTANTS
  Devs = {d1, d2, d3}
  Names = {n1, n2}
  Types = {"misc", "other"}
  MiscTypes = {"misc"}
  Versions = {1, 2}
  Adders = {a1, a2}
  Deleters = {w1, w2}
  CountMod = 3
  NoDev = NoDev
CHECK_DEADLOCK TRUE
SYMMETRY MCSymmetry
INVARIANTS RefsExact BoundExactly NamesApart FilesSafe
