----------------------------- MODULE MCPlatform -----------------------------
(* Small instances of the whole platform for TLC. *)
EXTENDS Reports, TLC

MCTarget  == [o \in Opportunities |-> 2]
MCMinimum == [o \in Opportunities |-> 1]
MCMaximum == MCTarget

(* One row; and, of opportunity 2, a year of rows whose rounding to tenths  *)
(* of a paisa leaves the last of them a negative ROI.                       *)
MCPlan == [o \in Opportunities |->
             IF o = 2 THEN [type |-> "MONTHLY", tenure |-> 12, percent |-> 300000]
                      ELSE [type |-> "BULLET", tenure |-> 1, percent |-> 500000]]

MCPayments == {[principal |-> 10, roi |-> 10, other |-> 0]}

Symmetry == Permutations(Workers) \cup Permutations(Users) \cup Permutations(Investors)
              \cup Permutations(InvestmentIds) \cup Permutations(WithdrawalIds)
              \cup Permutations(DepositIds) \cup Permutations(PaymentReferences)
              \cup Permutations(RepaymentIds)
=============================================================================
