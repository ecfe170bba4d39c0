SPECIFICATION Spec
CONSTANTS
  Workers = {w1, w2}
  Users = {u1, u2}
  EntryIds = {e1, e2}
  Amounts = {1}
  Kinds = {"DEPOSIT", "ROI_ACCRUAL"}
  Adjustments <- MCAdjustments
  NewAccounts <- MCNewAccounts
  AccountUpdates <- MCAccountUpdates
  None = None
SYMMETRY Symmetry
INVARIANTS
  BooksInv
  TrialBalanceBalances
  QuietStatementsAgree
