SPECIFICATION Spec
CONSTANTS
  Workers = {w1, w2}
  Users = {u1, u2}
  Investors = {i1}
  DepositIds = {d1, d2}
  WithdrawalIds = {}
  InvestmentIds = {}
  RepaymentIds = {}
  MaxPeriods = 0
  PaymentReferences = {p1}
  Opportunities = {}
  Amounts = {10}
  None = None
SYMMETRY Symmetry
INVARIANT RejectedNeverEffective
