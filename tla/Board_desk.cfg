SPECIFICATION FairSpec
CONSTANTS
  MaxThreads = 7
  Hazards = {}
INVARIANTS BoardTypeOK OwnCase OneOfEach
PROPERTIES ShownAtThirdLook ShowsPlace ShowsAbsence
