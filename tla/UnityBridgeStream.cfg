SPECIFICATION Spec
CONSTANTS
  run1 = run1
  run2 = run2
  c1 = c1
  None = None
  Clients <- MCClients
  Ids <- MCIds
  Lifetime = 1
  MaxNow = 2
  MaxSeq = 2
INVARIANTS
  NewerClientServed
CHECK_DEADLOCK FALSE
