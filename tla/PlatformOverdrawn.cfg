SPECIFICATION Spec
CONSTANTS
  Workers = {w1}
  Users = {u1, u2}
  Investors = {i1}
  DepositIds = {d1}
  WithdrawalIds = {x1}
  InvestmentIds = {v1}
  RepaymentIds = {}
  MaxPeriods = 1
  PaymentReferences = {p1}
  Opportunities = {1}
  Amounts = {20}
  OpeningAmount = 0
  Target <- MCTarget
  Minimum <- MCMinimum
  Maximum <- MCMaximum
  Plan <- MCPlan
  Payments <- MCPayments
  None = None
SYMMETRY Symmetry
INVARIANT WalletNeverOverdrawn
