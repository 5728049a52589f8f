SPECIFICATION Spec
CONSTANTS
  A = A
  B = B
  C = C
  Conns = {A, B}
  Requests <- TwoAndOne
  RequestUnits = 1
  ReplyUnits = 1
  SendSpace = 1
  Faults = {}
  MaxFds = 2
  RecvSize = 2
  MaxEvents = 4
  AofEnabled = TRUE
  Readers = {}
  NoConn = NoConn
INVARIANTS
  AofRecordsWrites
CHECK_DEADLOCK FALSE
