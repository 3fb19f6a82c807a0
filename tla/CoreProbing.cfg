SPECIFICATION Spec
CONSTANTS
  p1 = p1
  p2 = p2
  p3 = p3
  p4 = p4
  NoPtr = NoPtr
  MaxAllocs = 4
  Ptr <- ManyPtrs
  Hash <- CollideMany
  U32Max = 7
  MaxHotspots = 1
  File <- OneFile
  FileId <- OneId
  Line = {10}
  LineMax = 1
  Size = {1, 4}
  MaxOps = 6
  PlainClients = FALSE
  DoubleFrees = FALSE
SYMMETRY Exchangeable
INVARIANTS
  RecordsFindable
  SeqIdentifiesRecords
  UsedCountExact
  UsageMatchesRecords
