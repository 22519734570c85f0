SPECIFICATION Spec
CONSTANTS
  Pods = {p1}
  Replicas = {r1, r2}
  Requests = {"queue_if_unavailable"}
  PromptPods = {}
  TerminablePods = {p1}
  MaxConcurrentPods = 1
  MaxPerRunner = 1
  BatchSize = 1
  MaxCrashes = 1
  MaxDisconnects = 0
SYMMETRY ReplicaSymmetry
INVARIANTS NoDoubleDispatch CancelOrDispatch
CHECK_DEADLOCK FALSE
