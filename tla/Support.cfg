SPECIFICATION Spec
CONSTANTS
  MAX_AT_RESPONSE = 5
  Streams <- MCStreams
  Uptimes <- MCUptimes
  Delays = {0, 400000}
  MaxWait = 60
  Lines <- MCLines
  Allocators = {"ctx", "sc", "sock", "genl_connect", "genl_ctrl_resolve", "if_cb", "link_info_cb", "set_cb", "pipe"}
  StatRadios = {1, 2}
  Machines <- MCMachines
  AtRoot = TRUE
  MaxStatCalls = 3
  BYTE = 4
  Values <- MCValues
  BufSizes = {0, 8, 13}
  MaxPuts = 2
  Channels <- MCChannels
  Macs <- MCMacs
  Times <- MCTimes
  Msecs = {0, 1, 250, 500, 999, 1000, 1001, 180000}
  CopyTexts <- MCTexts
  CopySizes = {0, 1, 2, 3, 5, 6, 7}
  CwdLens = {1, 127, 128, 1023, 1024, 1999, 4095}
  FileContents <- MCContents
  Args <- MCArgs
  MAX_ARG = 3
  Hours = {5, 9, 10, 11, 15, 20, 21, 26}
  Zones <- MCZones
  Addr = {a1, a2}
  NullAddr = NullAddr
  AllocCallers = {1, 2}
  SIZE_MAX = 7
  HDR = 2
  AllocSizes = {3, 6}
  Numbers = {1, 4}
  MaxAllocs = 4
  Callers <- MCCallers
  Patterns <- MCPatterns
  Counts = {0, 1, 2}
  MaxChecks = 2
  radio_amount = 2
  MaxOpens = 3
CHECK_DEADLOCK FALSE
PROPERTY BytesComplete
PROPERTY RetriesTimed
PROPERTY HalGivesBack
PROPERTY ScanSwitchedOff
INVARIANT HelpersRight
PROPERTY BlocksTraced
PROPERTY FailsOnRequest
PROPERTY SupplicantOwn
PROPERTY EveryCallEnds
