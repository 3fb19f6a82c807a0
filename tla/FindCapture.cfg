SPECIFICATION Spec
CONSTANTS
  Message <- Messages
  HeaderLen = 2
  MinSnapshot = 2
  TxMax = 4
  SeqMax = 2
  MaxFrames = 3
  MaxLen = 5
  Garbled <- GarbledHeaders
  NoiseSym = {"M"}
  TimeLimit = FALSE
  MaxFaults = 0
CHECK_DEADLOCK FALSE
INVARIANTS
  CaptureUntilEnd
