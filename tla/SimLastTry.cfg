SPECIFICATION Spec

CONSTANTS
  MaxRetries = 3
  MaxWaitCount = 10
  QpincReplies = {"none"}
  CgregErrors = FALSE
  MaxFaults = 4

CHECK_DEADLOCK FALSE
PROPERTY NeverLocksSim
