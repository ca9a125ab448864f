CONSTANTS
  Requests <- SomeRequests
  MaxFrames = 2
  MaxLost = 2
  MaxBroken = 2
SPECIFICATION Spec
INVARIANT TypeOK
PROPERTY ImplementsChannel
CHECK_DEADLOCK FALSE
