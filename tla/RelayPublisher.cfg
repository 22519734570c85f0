SPECIFICATION FairSpec
CONSTANTS
  Conns = {c1, c2, c3}
  Subs = {s1, s2}
  LateSubs = {s2}
INVARIANTS OneReader NewestStaysPublisher ClosedHoldsNothing EarlyAreToldTheTruth
PROPERTIES TimeoutSparesConnected CallsReturn
CHECK_DEADLOCK FALSE
