SPECIFICATION Spec
CONSTANTS
  Workers = {w1}
  Users = {u1, u2}
  Investors = {i1}
  DepositIds = {d1, d2}
  WithdrawalIds = {x1}
  InvestmentIds = {v1}
  RepaymentIds = {r1, r2}
  MaxPeriods = 12
  PaymentReferences = {p1, p2}
  Opportunities = {1, 2}
  Amounts = {20}
  OpeningAmount = 0
  Target <- MCTarget
  Minimum <- MCMinimum
  Maximum <- MCMaximum
  Plan <- MCPlan
  Payments <- MCPayments
  None = None
SYMMETRY Symmetry
INVARIANTS
  LedgerAgrees
  DecisionsAreWhole
  RepaidIsClosed
  ManagementExplained
PROPERTY DecisionStays
