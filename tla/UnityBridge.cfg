SPECIFICATION Spec
CONSTANTS
  run1 = run1
  run2 = run2
  c1 = c1
  None = None
  Clients <- MCClients
  Ids <- MCIds
  Lifetime = 1
  MaxNow = 2
  MaxSeq = 3
SYMMETRY MCSymmetry
INVARIANTS
  InStep
  AppliedAtMostOnce
  LockStepAgrees
  ThrustBounded
  FaultsAreEarned
PROPERTIES
  ImplementsGateway
CHECK_DEADLOCK FALSE
