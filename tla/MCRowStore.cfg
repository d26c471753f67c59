SPECIFICATION Spec
CONSTANTS
  Threads = {t1, t2}
  Keys = {k1, k2, k3, k4}
  Values = {v1, v2}
  NoRow = NoRow
  MaxId = 3
SYMMETRY Symmetry
INVARIANTS
  CreatedIdIsOwn
PROPERTIES
  UpdateKeepsTheRest
