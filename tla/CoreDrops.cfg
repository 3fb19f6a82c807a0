SPECIFICATION Spec
CONSTANTS
  p1 = p1
  p2 = p2
  p3 = p3
  p4 = p4
  NoPtr = NoPtr
  MaxAllocs = 2
  Ptr <- Ptrs
  Hash <- Collide
  U32Max = 7
  MaxHotspots = 1
  File <- TwoFiles
  FileId <- TwoIds
  Line = {10}
  LineMax = 1
  Size = {2}
  MaxOps = 7
  PlainClients = FALSE
  DoubleFrees = FALSE
SYMMETRY ExchangeablePair
INVARIANTS
  NoLiveBlockSwallowed
  ActiveWithinDrops
  HotspotsCountEveryMalloc
PROPERTIES
  TrackedBlocksStayTracked
  DropsOnlyWhenFull
  ImplementsLedger
