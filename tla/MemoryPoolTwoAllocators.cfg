CONSTANTS
  t1 = t1
  t2 = t2
  t3 = t3
  Capacity = 3
  Thread <- MCTwoThreads
  Allocator <- MCTwoThreads
SPECIFICATION Spec
INVARIANT NoDoubleFree
