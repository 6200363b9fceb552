SPECIFICATION FairSpec
CONSTANTS
  Stamps = 2
  Answers <- GoodAnswers
  Hazards = {"eager"}
INVARIANTS MeasuredStanding
PROPERTIES Serves
