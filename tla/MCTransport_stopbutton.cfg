SPECIFICATION Spec
CONSTANTS
  GoThreads = {g1}
  w1 = w1
  w2 = w2
  k1 = k1
  k2 = k2
  Scanners = {w1, k1}
  Eye <- MCEye
  TrackEnd = 6
  View <- MCView
  Spot <- MCSpot
  StackGarbage = {0}
  Hazards = {"freehand"}
INVARIANTS StopHolds
