SPECIFICATION Spec
CONSTANTS
  Width = 5
  Height = 5
  Quads <- Trapezoids
INVARIANTS
  Clockwise
