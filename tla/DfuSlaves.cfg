CONSTANTS
  Button = FALSE
  HoldAnswers = TRUE
  MaxResets = 0
  Buses = {"good"}
SPECIFICATION Spec
INVARIANT SlavesExit
