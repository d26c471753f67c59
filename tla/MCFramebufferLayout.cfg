SPECIFICATION LayoutSpec
CONSTANTS
  Ids = {g1, g2, g3}
  Ranges <- SomeRanges
  NoRow = NoRow
SYMMETRY Symmetry
CHECK_DEADLOCK FALSE
INVARIANTS
  CopyStaysInBuffer
  GaplessGroupsFit
