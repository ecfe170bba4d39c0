SPECIFICATION RunSpec
CONSTANTS
  Workers = {w1, w2}
  Users = {}
  Investors = {i1}
  DepositIds = {d1}
  WithdrawalIds = {}
  InvestmentIds = {v1}
  RepaymentIds = {r1, r2}
  MaxPeriods = 12
  PaymentReferences = {}
  Opportunities = {1, 2}
  Amounts = {}
  Payments <- MCPayments
  OpeningAmount = 2
  Target <- MCTarget
  Minimum <- MCMinimum
  Maximum <- MCMaximum
  Plan <- MCPlan
  None = None
SYMMETRY Symmetry
CONSTRAINTS
  RecordedInOneRow
  ReconciledBesideOne
INVARIANTS
  DisbursedOnceAndWhole
  InvestmentPayableAgrees
  PaidIsPaid
  ClosedIsRepaid
  AccrualsBounded
  QuietRunTellsTruth
  RoiReportsExplained
CHECK_DEADLOCK FALSE
