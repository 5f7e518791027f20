CONSTANTS
  Size = 3
  Byte = {0, 1}
  Fields <- MCFields
  BugLog <- Log
  RawFails = TRUE
SPECIFICATION Spec
INVARIANTS ReadsAreStable BugCheckResets
