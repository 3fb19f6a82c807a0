SPECIFICATION Spec
CONSTANTS
  p1 = p1
  p2 = p2
  p3 = p3
  p4 = p4
  NoPtr = NoPtr
  MaxAllocs = 2
  Ptr <- FewPtrs
  Hash <- CollideFew
  U32Max = 3
  MaxHotspots = 1
  File <- OneFile
  FileId <- OneId
  Line = {10}
  LineMax = 1
  Size = {0, 2, 3, 6}
  MaxOps = 4
  PlainClients = TRUE
  DoubleFrees = TRUE
INVARIANTS
  TypeOK
  RecordsDescribeLiveBlocks
