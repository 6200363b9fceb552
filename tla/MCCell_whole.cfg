SPECIFICATION ReadySpec
CONSTANTS
  GoThreads = {g1}
  Scanners = {"web", "kinect"}
  Eye <- MCEye
  TrackEnd = 5
  View <- MCView
  Spot <- MCSpot
  StackGarbage = {0}
  Hazards = {}
  Stamps = 1
  Answers <- GoodAnswers
  ArmHazards = {}
INVARIANTS MeasuredStanding
PROPERTIES ArmKeepsWord CarKeepsWord KeepsRoute
