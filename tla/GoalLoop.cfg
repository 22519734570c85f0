SPECIFICATION FairSpec
CONSTANTS
  Workers = {w1, w2}
  Pods = {p1}
  EscalationPolicy = "paused"
  MaxIterations = 2
  OverlappingStart = FALSE
  MaxTurns = 2
  MaxCrashes = 1
INVARIANTS CompletedIsVerified StartedPodIsHeld
PROPERTIES ImplementsLife NextRoundIsWorked LoopEnds RetryIsQueued
CHECK_DEADLOCK FALSE
