CONSTANTS
  o1 = o1
  o2 = o2
  o3 = o3
  t1 = t1
  t2 = t2
  OrderId <- MCOrderId
  TraderId <- MCTraderId
  Price <- MCPrice
  Submissions <- MCSubmissions
  Replacements <- MCReplacements
SPECIFICATION Spec
INVARIANT TypeOK
INVARIANT NotCrossed
INVARIANT IndexMatchesBook
INVARIANT CountsMatchBook
INVARIANT TobCurrent
INVARIANT ReportMatchesBook
PROPERTY QuantityConserved
PROPERTY PriorityKept
PROPERTY ImplementsPriceTimeBook
PROPERTY CallReturns
PROPERTY BooksMatchAlike
