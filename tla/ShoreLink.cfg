SPECIFICATION Spec
CONSTANTS
  b1 = b1
  b2 = b2
  Beliefs <- MCBeliefs
  Values <- MCValues
  CriticalValue = 2
  Capacity = 5
  MaxRevision = 3
  MaxOffers = 3
  MaxOutages = 1
  Budget = 2
  MaxDelay = 1
  Reoffer = 2
INVARIANTS OneUnitPerBelief KnowledgeIsBacked NoFindingForgotten
PROPERTIES ProgressKept ImplementsShoreView
CHECK_DEADLOCK FALSE
