CONSTANTS
  t1 = t1
  t2 = t2
  t3 = t3
  Capacity = 3
  Thread <- MCThread
  Allocator <- MCOneAllocator
SPECIFICATION Spec
INVARIANT TypeOK
INVARIANT OnePlace
INVARIANT CountsSlots
INVARIANT NoDoubleFree
PROPERTY ImplementsSlotPool
