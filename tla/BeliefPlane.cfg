SPECIFICATION Spec
CONSTANTS
  s1 = s1
  s2 = s2
  g1 = g1
  g2 = g2
  v1 = v1
  v2 = v2
  p1 = p1
  Observations <- MCObservations
  Structural = {s1, s2}
  Geometric = {g1, g2}
  Survey = {v1}
  Probe = {p1}
  TimeOf <- MCTimeOf
  SensorOf <- MCSensorOf
  Captures <- MCCaptures
  LatePolicy = "EXPLICIT_LATE"
  MaxNow = 3
  MaxBatch = 2
  MaxDeliveries = 3
  MaxFaults = 1
  Targets = {"component", "entity"}
INVARIANTS
  WholeCommits
  NeverRefused
  PublishedFromStore
  NeedAnswered
PROPERTIES
  ImplementsBeliefLog
CHECK_DEADLOCK FALSE
