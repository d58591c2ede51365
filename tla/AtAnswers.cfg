SPECIFICATION Spec

CONSTANTS
  w = w
  Threads = {w}
  Commanders = {w}
  Requests <- AnswerRequests
  ResponsePrefixes = {"+CPIN:"}
  NULL = NULL
  HANDSHAKE_RETRY_COUNT = 2
  OnReaderClosedSet = FALSE
  CanHangUp = FALSE
  UrcKinds = {"text", "sms"}
  MaxWrites = 2
  MaxLines = 2
  MaxUrc = 1
  MaxTimeouts = 0

INVARIANT AnswerFaithful
INVARIANT UrcDelivered
PROPERTY PduOnce
