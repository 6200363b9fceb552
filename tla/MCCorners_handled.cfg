SPECIFICATION Spec
CONSTANTS
  Width = 6
  Height = 6
  Quads <- Handled
INVARIANTS
  TypeOK
  Kept
  Clockwise
  LongSideFirst
  AlongLongSide
