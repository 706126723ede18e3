CONSTANTS
  T = T
  U = U
  A = A
  B = B
  NoSymbol = NoSymbol
  TraderId <- MCTraderId
  Symbol <- MCSymbol
  LimitChoices <- MCLimitChoices
  InitialLimits <- MCInitialLimits
  OrderId <- MCOrderId
  NewOrders <- MCNewOrders
  Cancels <- MCCancels
  Replaces <- MCReplaces
  L2Depth = 2
  MaxTradeHistory = 2
  MaxSpreadHistory = 2
  Marks <- MCMarks
SPECIFICATION SessionSpec
INVARIANT RiskSeesAllTrades
