SPECIFICATION SystemFairSpec

CONSTANTS
  h = h
  Hal = h
  Threads = {h}
  Commanders = {h}
  Requests <- HalRequests
  ResponsePrefixes = {"+CGREG:"}
  NULL = NULL
  HANDSHAKE_RETRY_COUNT = 1
  OnReaderClosedSet = FALSE
  CanHangUp = FALSE
  UrcKinds = {"sms"}
  MaxWrites = 5
  MaxLines = 1
  MaxUrc = 1
  MaxTimeouts = 1
  PipeCapacity = 2

INVARIANT EventsInOrder
INVARIANT NoDeviceNoModem
PROPERTY HandlerNeverBlocks
PROPERTY EventsHandled
