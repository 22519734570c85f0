SPECIFICATION FairSpec
CONSTANTS
  Workers = {w1, w2}
  Pods = {p1}
  MaxRuns = 2
  MaxConcurrentRuns = 1
  MaxRetainedRuns = 1
  ExecutionModes = {"autopilot"}
  PodEnds = {"completed"}
  AutopilotEnds = {"completed"}
  MaxRecoveries = 1
  MaxLosses = 1
INVARIANTS WithinConcurrency StartedPodIsHeld TimedOutPodStops
PROPERTIES ImplementsLife RunEnds
CHECK_DEADLOCK FALSE
