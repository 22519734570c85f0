SPECIFICATION FairSpec
CONSTANTS
  Subs = {s1, s2}
  Duration = 1
  MaxClock = 1
  MaxRequests = 3
INVARIANTS WriterIsOwner NoLeaseAfterClose
PROPERTIES LeaseNotCutShort LeaseEnds
CHECK_DEADLOCK FALSE
