SPECIFICATION FairSpec
CONSTANTS
  b1 = b1
  b2 = b2
  Beliefs <- MCBeliefs
  Values <- MCValues
  CriticalValue = 2
  Capacity = 5
  MaxRevision = 2
  MaxOffers = 2
  MaxOutages = 1
  Budget = 2
  MaxDelay = 1
  Reoffer = 2
PROPERTIES LatestReachesShore FindingReachesShore
CHECK_DEADLOCK FALSE
