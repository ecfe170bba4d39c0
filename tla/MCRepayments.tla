---------------------------- MODULE MCRepayments ----------------------------
(* Small instances of repaying for TLC. *)
EXTENDS Reconciliation, TLC

MCTarget  == [o \in Opportunities |-> 10]
MCMinimum == [o \in Opportunities |-> 0]
MCMaximum == MCTarget

(* One row; and, of opportunity 2, a year of rows whose rounding to tenths  *)
(* of a paisa leaves the last of them a negative ROI.                       *)
MCPlan == [o \in Opportunities |->
             IF o = 2 THEN [type |-> "MONTHLY", tenure |-> 12, percent |-> 300000]
                      ELSE [type |-> "BULLET", tenure |-> 1, percent |-> 500000]]

Payment(p, r, o) == [principal |-> p, roi |-> r, other |-> o]
MCPayments       == {Payment(10, 0, 0), Payment(20, 10, 0), Payment(10, 0, 10)}

(* A bound: repayments are recorded for schedules of one row only, whose     *)
(* steps are those of any row; a year of them is only accrued and defaulted. *)
RecordedInOneRow ==
  \A w \in Workers :
    call[w].next \in {"checkSchedule", "sumRepaid"} => Len(schedules[call[w].id]) = 1

(* A bound: while one repayment at most is recorded, an account is reconciled*)
(* beside one request at a time, and no other once one has committed.        *)
ReconciledBesideOne ==
  LET busy     == {w \in Workers : call[w] # Idle}
      recorded == {r \in RepaymentIds : repayments[r] # NoRepayment}
  IN  recon.account # "none" =>
        /\ Cardinality(recorded) <= 1
        /\ Cardinality(busy) <= IF recon.quiet THEN 1 ELSE 0

Symmetry == Permutations(Workers) \cup Permutations(RepaymentIds)
              \cup Permutations(InvestmentIds) \cup Permutations(DepositIds)
=============================================================================
