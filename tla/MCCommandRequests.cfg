SPECIFICATION RequestsSpec
CONSTANTS
  Ids = {1, 2}
  Names = {n1, n2}
  Texts = {x1, x2}
  Offsets = {o1, o2}
  NoRow = NoRow
SYMMETRY Symmetry
CHECK_DEADLOCK FALSE
INVARIANTS
  ReferencesExist
  FailuresChangeNothing
