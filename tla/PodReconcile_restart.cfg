SPECIFICATION Spec
CONSTANTS
  p1 = p1
  Pods = {p1}
  MaxStarts = 2
  OrphanMissThreshold = 2
  InitRecoverThreshold = 2
  MaxUpsets = 2
INVARIANT RestartedAreSeen
