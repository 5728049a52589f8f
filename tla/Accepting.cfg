SPECIFICATION FairSpec
CONSTANTS
  A = A
  B = B
  C = C
  Conns = {A, B, C}
  Requests <- TwoOneNone
  RequestUnits = 1
  ReplyUnits = 1
  SendSpace = 1
  Faults = {"fin", "epoll"}
  MaxFds = 2
  RecvSize = 2
  MaxEvents = 4
  AofEnabled = FALSE
  Readers = {A, B}
  NoConn = NoConn
PROPERTIES
  WaitingAccepted
CHECK_DEADLOCK FALSE
