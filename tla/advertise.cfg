\* Two threads, two attempts, an Advertiser that is started twice.
CONSTANTS
  Threads = {t1, t2}
  MaxAttempts = 2
  MaxStarts = 2
SPECIFICATION Spec
INVARIANT NothingTwice
PROPERTY AdsFollowStartAndStop
PROPERTY FailureMakesRoom
