SPECIFICATION Spec
CONSTANTS
  s1 = s1
  s2 = s2
  g1 = g1
  g2 = g2
  v1 = v1
  v2 = v2
  p1 = p1
  Observations <- MCObservations
  Structural = {}
  Geometric = {}
  Survey = {v1, v2}
  Probe = {}
  TimeOf <- MCTimeOf
  SensorOf <- MCSensorOf
  Captures <- MCCaptures
  LatePolicy = "EXPLICIT_LATE"
  MaxNow = 3
  MaxBatch = 2
  MaxDeliveries = 3
  MaxFaults = 0
  Targets = {}
INVARIANTS
  LateIsExplicit
CHECK_DEADLOCK FALSE
