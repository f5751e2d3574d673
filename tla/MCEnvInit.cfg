SPECIFICATION Spec
CONSTANTS
  MaxFail = 3
  MaxInit = 2
  MaxSpawn = 2
INVARIANTS
  OkMeansMaster
  CrashCause
CHECK_DEADLOCK FALSE
