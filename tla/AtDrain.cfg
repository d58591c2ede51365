SPECIFICATION Spec

CONSTANTS
  c = c
  w = w
  Threads = {w, c}
  Commanders = {w}
  Requests <- HandshakeRequests
  ResponsePrefixes = {"+CPIN:"}
  NULL = NULL
  HANDSHAKE_RETRY_COUNT = 2
  OnReaderClosedSet = FALSE
  CanHangUp = FALSE
  UrcKinds = {}
  MaxWrites = 3
  MaxLines = 1
  MaxUrc = 1
  MaxTimeouts = 1

INVARIANT UnmatchedOkDrained
