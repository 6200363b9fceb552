SPECIFICATION FairSpec
CONSTANTS
  MaxTid = 3
  Backlog = 3
  Values = {0, 1}
  Hazards = {"slow", "silent", "down"}
INVARIANTS TypeOK
PROPERTIES KeepsPromise OwnAnswer OutcomeExpected Returns
