CONSTANTS
  Button = TRUE
  HoldAnswers = TRUE
  MaxResets = 3
  Buses = {"good", "bad"}
SPECIFICATION Spec
INVARIANTS RunsWhole
PROPERTIES HoldRespected Decides SlaveFollows
