CONSTANTS
  x = x
  y = y
  Factory = factory
  Blank = blank
  Bootloader = bootloader
  Images <- MCImages
  AppBase = 3
  PageSize = 2
  AppSize = 4
  MaxWrite = 3
  QuietBoot = TRUE
  ChecksOffset = FALSE
  Origins <- Baseband
SPECIFICATION Spec
SYMMETRY ImageSymmetry
INVARIANTS BootloaderIntact
CHECK_DEADLOCK FALSE
