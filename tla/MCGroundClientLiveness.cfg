CONSTANTS
  Lines <- LiveLines
  Kinds <- AllKinds
  Files <- LiveFiles
  UInt32 = 3
  FrameSize = 2
  MaxTyped = 2
  MaxInbound = 1
  MaxOutbound = 2
SPECIFICATION Spec
PROPERTIES
  LinesServed
  SocketServed
CHECK_DEADLOCK FALSE
