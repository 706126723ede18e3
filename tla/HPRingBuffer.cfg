CONSTANTS
  a = a
  b = b
  Junk = Junk
  Size = 4
  Item <- MCItem
SPECIFICATION Spec
INVARIANT TypeOK
INVARIANT NoSlotRace
INVARIANT SizeIsSafe
PROPERTY ImplementsBoundedFifo
PROPERTY ItemsAreConsumed
