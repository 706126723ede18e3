CONSTANTS
  s1 = s1
  s2 = s2
  Symbol <- MCSymbol
  Capacity = 2
  Intervals <- MCIntervals
  MaxTime = 3
  MaxUpdates = 3
SPECIFICATION Spec
INVARIANT TypeOK
INVARIANT ThrottleSpacing
PROPERTY NotStarved
PROPERTY DeliveredInOrder
PROPERTY EverythingArrives
