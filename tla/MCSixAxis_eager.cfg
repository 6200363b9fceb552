SPECIFICATION Spec
CONSTANTS
  Stamps = 2
  Answers <- AnyAnswers
  Hazards = {"eager", "hangup", "lag"}
INVARIANTS TypeOK DoneAfterStop WholePackage
