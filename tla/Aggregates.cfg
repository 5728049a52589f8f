SPECIFICATION Spec
CONSTANTS
  Keys = {1, 2}
  I64Max = 3
  MsPerSecond = 2
  SweepLimit = 1
  MaxClock = 2
  MaxArgs = 2
  Spans = {1}
  Commands <- CollectionCommands
  Str <- MCStr
  Values <- MCValues
  Empty <- MCEmpty
  Concat <- MCConcat
  Size <- MCSize
  ParseI64 <- MCParseI64
  TextOf <- MCTextOf
  NaN = NaN
  Indices <- MCIndices
INVARIANTS
  NoEmptyAggregate
PROPERTIES
  CountsAccountForChange
  SweepsComplete
  ErrorsChangeNothing
  SetAlgebraSound
CHECK_DEADLOCK FALSE
