SPECIFICATION Spec
CONSTANTS
  p1 = p1
  p2 = p2
  p3 = p3
  NoPtr = NoPtr
  MaxAllocs = 4
  Ptr <- Ptrs
  Hash <- Collide
INVARIANTS
  LoopsReturnSlots
PROPERTIES
  LoopsEnd
CHECK_DEADLOCK FALSE
