CONSTANTS
  Nests = {TRUE, FALSE}
  Full = 2
  FifoSize = 3
  EmptyLimit = 1
SPECIFICATION Spec
INVARIANTS TypeOK OneUser NoneDropped
PROPERTIES NeverCatchesUp ThrottleOffStops
