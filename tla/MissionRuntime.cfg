SPECIFICATION MissionSpec
CONSTANTS
  navigation = navigation
  egdc = egdc
  mcbr = mcbr
  baac = baac
  model2t = model2t
  Modules <- MCModules
  Observers <- MCObservers
  Critical <- MCCritical
  Freshness <- MCFreshness
  SettingsPermit = TRUE
  DecisionPeriod = 2
  CommsPeriod = 3
INVARIANTS
  FailureSeenInTick
  ScheduleKeepsFresh
PROPERTIES
  HoldNeedsHuman
CHECK_DEADLOCK FALSE
