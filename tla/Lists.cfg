SPECIFICATION QueueSpec
CONSTANTS
  Keys = {1, 2}
  I64Max = 3
  MsPerSecond = 2
  SweepLimit = 2
  MaxClock = 1
  MaxArgs = 2
  Spans = {}
  Commands <- ListCommands
  Str <- MCStr
  Values <- MCValues
  Empty <- MCEmpty
  Concat <- MCConcat
  Size <- MCSize
  ParseI64 <- MCParseI64
  TextOf <- MCTextOf
  NaN = NaN
  Indices <- MCIndices
  MaxPushed = 3
  Rightward <- MCRightward
INVARIANTS
  NoEmptyAggregate
  RangesAgreeWithIndices
  QueueOrder
CHECK_DEADLOCK FALSE
