CONSTANTS
  phone = phone
  laptop = laptop
  public = public
  random1 = random1
  random2 = random2
  None = none
  Hosts <- MCHosts
  Addrs <- MCAddrs
  Owner <- MCOwner
  Resolvable <- MCResolvable
  MaxRequests = 2
  WhiteListSize = 2
  MaxConnects = 2
  MaxKeys = 2
  MaxBoots = 2
SPECIFICATION Spec
INVARIANTS SlotIsLink AdvModeIsTrue BugChecksAreLate RequestsBounded SavedBondHasHost
PROPERTIES DiscardedKeysStayOut OwedIsTold AdvertisingEnds
CHECK_DEADLOCK FALSE
