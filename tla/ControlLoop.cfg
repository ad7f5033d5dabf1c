SPECIFICATION DeadAutonomySpec
CONSTANTS
  Thrusters = {t1, t2}
  SafeHoldAction = "STATION_KEEP"
  UntrustedHoldAction = "SURFACE"
  BreachEscalates = TRUE
  RelocalizationTimeout = 2
  DegradedDwell = 1
  Inputs <- MCInputs
  CommandTimeout = 3
  LockStep = FALSE
  Physical = FALSE
  CommandMode = "simulated"
  HardwareEnable = FALSE
  Lane = "simulation"
  HilEvidence = FALSE
  Grounded = FALSE
INVARIANTS
  TypeOK
  StopIsBounded
  ThrustHasDeadline
PROPERTIES
  OnlyAuthorizedMotion
  LatchForbidsMotion
  LatchStopsVehicle
  DeadmanStopsVehicle
