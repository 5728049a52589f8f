SPECIFICATION Spec
CONSTANTS
  Keys = {1}
  I64Max = 3
  MsPerSecond = 2
  SweepLimit = 2
  MaxClock = 2
  MaxArgs = 1
  Spans = {1}
  Commands <- StringCommands
  Str <- MCStr
  Values <- OneValue
  Empty <- MCEmpty
  Concat <- MCConcat
  Size <- MCSize
  ParseI64 <- MCParseI64
  TextOf <- MCTextOf
  NaN = NaN
  Indices <- MCIndices
PROPERTIES
  AccessRemovesExpired
CHECK_DEADLOCK FALSE
