SPECIFICATION MCSpec
CONSTANTS
  LOG_MAX_LEN = 21
  Width <- Widths
  MaxData = 50
  MaxFd = 5
  MaxError = 1
  Level <- Levels
  Careless = FALSE
  NULL = NULL
INVARIANTS
  Fits
  ReadsData
  LinesGoHome
  DescriptorsSound
PROPERTIES
  Finishes
