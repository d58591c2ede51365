SPECIFICATION Spec

CONSTANTS
  w1 = w1
  w2 = w2
  Threads = {w1, w2}
  Commanders = {w1, w2}
  Requests <- CommandRequests
  ResponsePrefixes = {"+CPIN:"}
  NULL = NULL
  HANDSHAKE_RETRY_COUNT = 2
  OnReaderClosedSet = FALSE
  CanHangUp = FALSE
  UrcKinds = {"text"}
  MaxWrites = 3
  MaxLines = 0
  MaxUrc = 0
  MaxTimeouts = 0

CHECK_DEADLOCK FALSE
INVARIANT MutexExclusive
INVARIANT NoDoubleOwner
SYMMETRY ThreadSymmetry
