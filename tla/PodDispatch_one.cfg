SPECIFICATION FairSpec
CONSTANTS
  Pods = {p1}
  Replicas = {r1}
  Requests = {"queue_if_unavailable"}
  PromptPods = {p1}
  TerminablePods = {}
  MaxConcurrentPods = 1
  MaxPerRunner = 2
  BatchSize = 2
  MaxCrashes = 0
  MaxDisconnects = 1
INVARIANT SentInRowOrder
PROPERTY EveryRowLeaves
CHECK_DEADLOCK FALSE
