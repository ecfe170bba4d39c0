SPECIFICATION LiveSpec
CONSTANTS
  Workers = {w1, w2}
  Users = {}
  Investors = {i1}
  DepositIds = {d1, d2}
  WithdrawalIds = {}
  InvestmentIds = {1, 2, 3, 4}
  RepaymentIds = {}
  MaxPeriods = 2
  PaymentReferences = {}
  Opportunities = {o1, o2}
  Amounts = {6, 10}
  OpeningAmount = 1
  Target <- MCTarget
  Minimum <- MCMinimum
  Maximum <- MCMaximum
  Plan <- MCPlan
  None = None
ACTION_CONSTRAINT IdsInOrder
INVARIANTS
  TotalIsCurrentUnderLock
  TargetNeverExceeded
  OverdraftBounded
PROPERTIES
  EveryCallEnds
  ImplementsFunding
CHECK_DEADLOCK FALSE
