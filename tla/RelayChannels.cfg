SPECIFICATION FairSpec
CONSTANTS
  Conns = {c1, c2}
  Subs = {s1, s2, s3}
  MaxSubscribersPerPod = 1
  MaxChannels = 2
INVARIANTS NobodyWaitsInVain NoSocketLeaks KeepAliveOnlyWhenEmpty OneOverTheLimit
PROPERTIES WaitingEnds
CHECK_DEADLOCK FALSE
