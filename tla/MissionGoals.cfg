SPECIFICATION FairSpec
CONSTANTS
  b1 = b1
  b2 = b2
  Beliefs <- MCBeliefs
  Needs <- MCNeeds
  Poses = {p1}
  MaxPlansPerNeed = 2
  MaxViewAttempts = 2
  InformationLimit = 2
  Protocols <- MCProtocols
  InspectionTimeout = 2
  Dwell = 1
INVARIANTS
  ViewMatchesGoal
  AttemptsBounded
  OutcomesAreEarned
  UnavailableMeansExhausted
  SafeHoldKept
PROPERTIES
  HoldIsFinal
  InspectionEnds
CHECK_DEADLOCK FALSE
