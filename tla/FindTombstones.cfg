SPECIFICATION Spec
CONSTANTS
  p1 = p1
  p2 = p2
  p3 = p3
  p4 = p4
  NoPtr = NoPtr
  MaxAllocs = 2
  Ptr <- Ptrs
  Hash <- Collide
  U32Max = 7
  MaxHotspots = 1
  File <- OneFile
  FileId <- OneId
  Line = {10}
  LineMax = 1
  Size = {2}
  MaxOps = 5
  PlainClients = FALSE
  DoubleFrees = FALSE
INVARIANTS
  TombstoneCountExact
