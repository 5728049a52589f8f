SPECIFICATION Spec
CONSTANTS
  A = A
  B = B
  C = C
  Conns = {A, B}
  Requests <- TwoAndOne
  RequestUnits = 2
  ReplyUnits = 2
  SendSpace = 1
  Faults = {"garbage", "fin", "reset", "signal", "epoll", "start"}
  MaxFds = 2
  RecvSize = 2
  MaxEvents = 3
  AofEnabled = FALSE
  Readers = {}
  NoConn = NoConn
INVARIANTS
  TypeOK
  ExactlyOnceInOrder
  InterestFits
  Registered
  EventsFindTheirConnection
  StoppedMeansClosed
CHECK_DEADLOCK FALSE
