SPECIFICATION Spec
CONSTANTS
  p1 = p1
  p2 = p2
  p3 = p3
  main = main
  isr = isr
  task1 = task1
  task2 = task2
  NoPtr = NoPtr
  NoCtx = NoCtx
  MaxAllocs = 2
  Ptr <- FewPtrs
  Hash <- CollideFew
  Ctx <- IsrCtx
  Preempts <- IsrPreempts
  Ops = {"malloc", "free", "realloc"}
INVARIANTS
  GuardReleased
  FoundSlotStays
PROPERTIES
  CallsReturn
