CONSTANTS
  Frames <- SmallFrames
  MaxFlips <- SmallMaxFlips
SPECIFICATION Spec
INVARIANTS
  TypeOK
  RoundTrip
  DamageDetected
  SizeJudgedFirst
CHECK_DEADLOCK FALSE
