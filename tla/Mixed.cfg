SPECIFICATION Spec
CONSTANTS
  Keys = {1}
  I64Max = 3
  MsPerSecond = 2
  SweepLimit = 2
  MaxClock = 3
  MaxArgs = 2
  Spans = {1, 6}
  Commands <- MixedCommands
  Str <- MCStr
  Values <- NumericValues
  Empty <- MCEmpty
  Concat <- MCConcat
  Size <- MCSize
  ParseI64 <- MCParseI64
  TextOf <- MCTextOf
  NaN = NaN
  Indices <- LastIndex
PROPERTIES
  CountersExact
  ErrorsChangeNothing
  NothingInherited
  DeadlinesAndTypesKept
  LiveEntriesSafe
CHECK_DEADLOCK FALSE
