CONSTANTS
  CommandMessages <- SmallCommands
  AckMessages <- SmallAcks
  TelemetryMessages <- SmallTelemetry
  ForeignFrames <- SmallForeign
SPECIFICATION Spec
INVARIANTS
  TypeOK
  RoundTrip
  OnlyOurOwn
CHECK_DEADLOCK FALSE
