SPECIFICATION Spec
CONSTANTS
  Workers = {w1, w2}
  Users = {u1, u2}
  Investors = {i1}
  DepositIds = {d1, d2}
  WithdrawalIds = {x1}
  InvestmentIds = {v1}
  RepaymentIds = {}
  MaxPeriods = 1
  PaymentReferences = {p1}
  Opportunities = {1}
  Amounts = {4, 20}
  OpeningAmount = 0
  Target <- MCTarget
  Minimum <- MCMinimum
  Maximum <- MCMaximum
  Plan <- MCPlan
  Payments <- MCPayments
  None = None
SYMMETRY Symmetry
INVARIANTS
  PlatformInv
  CreditNeedsChecker
  ApprovedIsCredited
  OneDepositPerReference
  PayoutNeedsChecker
  DebitHasEntry
  LedgerExplained
  OnlyActiveInvestorsTransact
PROPERTY DepositsKeepPromise
