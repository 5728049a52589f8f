SPECIFICATION ProtocolSpec
CONSTANTS
  I64Max = 99
  MaxReserve = 9
  Frames <- MCFrames
  StoreValues <- MCStoreValues
  MaxFrames = 3
  RecvSize = 30
INVARIANTS
  SplitsDoNotShow
  EndsAtTheRightFrame
  RepliesFramed
CHECK_DEADLOCK FALSE
