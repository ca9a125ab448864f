CONSTANTS
  Lines <- AllLines
  Kinds <- AllKinds
  Files <- SomeFiles
  UInt32 = 3
  FrameSize = 2
  MaxTyped = 3
  MaxInbound = 2
  MaxOutbound = 2
SPECIFICATION Spec
INVARIANTS
  TypeOK
  SentInOrder
  WholeFrames
  FinishedLast
CHECK_DEADLOCK FALSE
