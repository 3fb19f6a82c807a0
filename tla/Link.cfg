SPECIFICATION MCSpec
CONSTANTS
  Message <- Messages
  HeaderLen = 2
  MinSnapshot = 2
  TxMax = 4
  SeqMax = 2
  MaxFrames = 4
  MaxLen = 5
  Garbled <- GarbledHeaders
  NoiseSym = {"M", "x"}
  TimeLimit = TRUE
  MaxFaults = 2
CHECK_DEADLOCK FALSE
INVARIANTS
  GoodFramesWereSent
  CaptureKeeps
  ResyncWithinReach
  SeqTellsLoss
