SPECIFICATION Spec
CONSTANTS
  GoThreads = {g1}
  w1 = w1
  w2 = w2
  k1 = k1
  k2 = k2
  Scanners = {w1, k1}
  Eye <- MCEye
  TrackEnd = 3
  View <- MCViewShort
  Spot <- MCSpotShort
  StackGarbage = {0, 1, 2}
  Hazards = {"carry", "silent", "slow", "down", "hoist", "early", "recant",
             "button1", "button2", "button3"}
INVARIANTS Interlock JobNeedsStop OneJob
