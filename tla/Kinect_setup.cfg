SPECIFICATION Spec
CONSTANTS
  LastScene = 2
  Hazards = {}
INVARIANTS TypeOK NoneCrashed NeverAhead TableOfScene ReferenceOfScene MeasuredWhole
