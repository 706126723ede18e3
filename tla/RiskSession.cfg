CONSTANTS
  T = T
  A = A
  B = B
  MaxTime = 3
  TraderId <- MCTraderId
  Symbol <- MCSymbol
  LimitChoices <- MCLimitChoices
  InitialLimits <- MCInitialLimits
  Orders <- MCOrders
SPECIFICATION Spec
INVARIANT TypeOK
INVARIANT NetIsSum
PROPERTY LimitsRespected
PROPERTY RateLimited
