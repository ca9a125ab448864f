CONSTANTS
  minimum_telemetry_period_ms = 2
  maximum_telemetry_period_ms = 3
  default_telemetry_period_ms = 3
  Scripts <- SimulatedScript
  Commands <- PeriodCommands
  SequenceModulus = 2
  RxDepth = 1
  MaxLate = 4
SPECIFICATION Spec
PROPERTY TelemetryKeepsComing
