CONSTANTS
  None = none
  hold = hold
  error = error
  adv = adv
  conn = conn
  keep = keep
  Timers <- HoldTimers
  Interval <- HoldInterval
  Callback <- HoldCallback
  Handlers <- HoldHandlers
  Wrap = 0
  MinAlarm = 2
  Interrupts = TRUE
  MaxLate = 1
  MaxTime = 6
SPECIFICATION FairSpec
INVARIANTS NeverBugChecks PollTruthful
PROPERTIES DueIsServed PauseKeepsRemainder
CHECK_DEADLOCK FALSE
