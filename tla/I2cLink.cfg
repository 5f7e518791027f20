CONSTANTS
  None = none
  BufferSize = 2
  AddrBytes = 2
  ByteBase = 3
  High = 99
  Endpoints <- DfuEndpoints
  Transfers <- DfuTransfers
SPECIFICATION FairSpec
INVARIANTS Delivered CommittedOnce ReadsTrue StopAfterWrite NoneBusyWhenIdle
PROPERTIES TransferEnds
