CONSTANTS
  None = none
  hold = hold
  error = error
  adv = adv
  conn = conn
  keep = keep
  Timers <- BleTimers
  Interval <- BleInterval
  Callback <- BleCallback
  Handlers <- BleHandlers
  Wrap = 5
  MinAlarm = 1
  Interrupts = FALSE
  MaxLate = 1
  MaxTime = 6
SPECIFICATION Spec
INVARIANTS ListInOrder AlarmCoversList
PROPERTIES FiresWhenDue OverrunOnlyAtEnd
CHECK_DEADLOCK FALSE
