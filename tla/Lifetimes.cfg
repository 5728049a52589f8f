SPECIFICATION Spec
CONSTANTS
  Keys = {1, 2}
  I64Max = 3
  MsPerSecond = 2
  SweepLimit = 2
  MaxClock = 3
  MaxArgs = 2
  Spans = {1, 2, 5, 6}
  Commands <- LifetimeCommands
  Str <- MCStr
  Values <- OneValue
  Empty <- MCEmpty
  Concat <- MCConcat
  Size <- MCSize
  ParseI64 <- MCParseI64
  TextOf <- MCTextOf
  NaN = NaN
  Indices <- MCIndices
INVARIANTS
  TypeOK
PROPERTIES
  DeadStaysDead
  LiveEntriesSafe
  SetConditionsHold
  TtlRepliesHonest
  ScansBracketed
  RenameMoves
  SweepsComplete
CHECK_DEADLOCK FALSE
