SPECIFICATION RunSpec
CONSTANTS
  Workers = {w1, w2}
  Users = {}
  Investors = {i1}
  DepositIds = {d1}
  WithdrawalIds = {}
  InvestmentIds = {v1}
  RepaymentIds = {}
  MaxPeriods = 1
  PaymentReferences = {}
  Opportunities = {1}
  Amounts = {}
  Payments <- MCPayments
  OpeningAmount = 2
  Target <- MCTarget
  Minimum <- MCMinimum
  Maximum <- MCMaximum
  Plan <- MCPlan
  None = None
SYMMETRY Symmetry
INVARIANT AccruedAtMostOnce
CHECK_DEADLOCK FALSE
