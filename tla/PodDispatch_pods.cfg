SPECIFICATION Spec
CONSTANTS
  Pods = {p1, p2}
  Replicas = {r1}
  Requests = {"immediate", "queue_if_unavailable", "deferred"}
  PromptPods = {}
  TerminablePods = {p1}
  MaxConcurrentPods = 1
  MaxPerRunner = 1
  BatchSize = 1
  MaxCrashes = 0
  MaxDisconnects = 0
INVARIANTS TypeOK WithinLimits
CHECK_DEADLOCK FALSE
