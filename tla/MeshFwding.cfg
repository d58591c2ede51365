SPECIFICATION Spec

CONSTANTS
  WIFI_RADIO_MAX = 2
  Dumps <- MCDumps
  Configs <- MCConfigs
  Runs <- MCRuns
  Spoken <- MCSpoken
  MaxFailures = 1

CHECK_DEADLOCK FALSE

INVARIANT MeshFwding
