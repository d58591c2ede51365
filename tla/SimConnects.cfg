SPECIFICATION FairSpec

CONSTANTS
  MaxRetries = 3
  MaxWaitCount = 10
  QpincReplies = {"SC"}
  CgregErrors = TRUE
  MaxFaults = 4

CHECK_DEADLOCK FALSE
INVARIANT UpMeansConnected
PROPERTY NeverLocksSim
PROPERTY AttemptEnds
PROPERTY ConnectsEventually
