CONSTANTS
  x = x
  y = y
  Factory = factory
  Blank = blank
  Bootloader = bootloader
  Images <- MCImages
  AppBase = 0
  PageSize = 2
  AppSize = 4
  MaxWrite = 3
  QuietBoot = TRUE
  ChecksOffset = TRUE
  Origins <- Flight
SPECIFICATION Spec
SYMMETRY ImageSymmetry
INVARIANTS TypeOK ForcedOnce
PROPERTIES IsUpdatableDevice UpdateIsLocked SwitchIsReported
