SPECIFICATION ReadersSpec
CONSTANTS
  p1 = p1
  p2 = p2
  p3 = p3
  NoPtr = NoPtr
  MaxAllocs = 3
  Ptr <- Ptrs
  Hash <- Homes
  Addr <- Addresses
  Rooms = {0, 2, 3}
  DumpOrder <- LastFirst
  U32Max = 7
  MaxHotspots = 1
  File <- OneFile
  FileId <- OneId
  Line = {10}
  LineMax = 1
  Size = {2}
  MaxOps = 4
  PlainClients = FALSE
  DoubleFrees = FALSE
INVARIANTS
  QuietReportExact
  NoSlotTwice
  ListedExisted
  StableListed
