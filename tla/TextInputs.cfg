SPECIFICATION Spec
CONSTANTS
  WIFI_RADIO_MAX = 2
  Lists <- MCLists
  MaxRegcompFails = 1
  CHUNK = 4
  RespSizes = {3, 4, 5, 6, 8, 9}
  NAME_SIZE = 3
  Outputs <- MCOutputs
  Reports <- MCReports
  Strengths <- MCStrengths
  Junk32 = {0, 7}
CHECK_DEADLOCK FALSE
INVARIANT ConfigSound
INVARIANT ReportsSound
PROPERTY OutputSound
PROPERTY ConfigEnds
