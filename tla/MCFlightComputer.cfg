CONSTANTS
  minimum_telemetry_period_ms = 2
  maximum_telemetry_period_ms = 3
  default_telemetry_period_ms = 3
  Scripts <- MixedScripts
  Commands <- AllCommands
  SequenceModulus = 2
  RxDepth = 1
  MaxLate = 4
SPECIFICATION Spec
INVARIANTS
  TypeOK
  ModeAgreesWithFaults
  NominalIsEarned
  TelemetryHonest
  GroundPictureExact
  DeadlineWithinPeriod
PROPERTIES
  RecoveryTakesTime
  CommandedSafeHolds
  ImplementsContract
