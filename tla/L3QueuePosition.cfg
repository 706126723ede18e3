CONSTANTS
  o1 = o1
  o2 = o2
  o3 = o3
  t1 = t1
  t2 = t2
  OrderId <- MCOrderId
  TraderId <- MCTwoTraders
  Price <- MCOnePrice
  Submissions <- MCGtcOnly
  Replacements <- MCNoReplacements
SPECIFICATION Spec
INVARIANT QueuePosExact
