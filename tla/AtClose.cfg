SPECIFICATION FairSpec

CONSTANTS
  c = c
  w = w
  Threads = {w, c}
  Commanders = {w}
  Requests <- HandshakeRequests
  ResponsePrefixes = {"+CPIN:"}
  NULL = NULL
  HANDSHAKE_RETRY_COUNT = 2
  OnReaderClosedSet = TRUE
  CanHangUp = TRUE
  UrcKinds = {"error"}
  MaxWrites = 2
  MaxLines = 0
  MaxUrc = 1
  MaxTimeouts = 1

INVARIANT TypeOK
INVARIANT ResponseOwned
INVARIANT NoEmptySuccess
PROPERTY CallsReturn
