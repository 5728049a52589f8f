SPECIFICATION FairSpec
CONSTANTS
  A = A
  B = B
  C = C
  Conns = {A, B}
  Requests <- TwoAndOne
  RequestUnits = 2
  ReplyUnits = 2
  SendSpace = 1
  Faults = {"fin", "signal", "start"}
  MaxFds = 2
  RecvSize = 2
  MaxEvents = 4
  AofEnabled = FALSE
  Readers = {A}
  NoConn = NoConn
PROPERTIES
  EveryRequestAnswered
  SignalStops
  ImplementsService
CHECK_DEADLOCK FALSE
