--------------------------- MODULE PlatformProofs ---------------------------
(***************************************************************************)
(* Proofs about the services together, for any number of requests served   *)
(* at a time.  What was proved of a service alone is cited from its own    *)
(* proofs; what is added here is that no other service's step undoes it.   *)
(***************************************************************************)
EXTENDS Reports, StoreProofs

DP == INSTANCE DepositsProofs
WP == INSTANCE WithdrawalsProofs
IP == INSTANCE RepaymentsProofs WITH recon <- 0, written <- 0

(* Each makes of its constants no assumption this module does not.           *)
LEMMA SameAssumptions ==
  /\ DP!StoreAssumption /\ DP!FiniteAssumption
  /\ WP!StoreAssumption /\ WP!FiniteAssumption
  /\ IP!StoreAssumption /\ IP!FiniteAssumption
  /\ IP!OpportunityAssumption /\ IP!PaymentAssumption
<1>1. /\ DP!DocumentIds = DocumentIds /\ WP!DocumentIds = DocumentIds
      /\ IP!DocumentIds = DocumentIds
  BY DEF DP!DocumentIds, WP!DocumentIds, IP!DocumentIds, DocumentIds
<1>2. /\ DP!IsFiniteSet(DocumentIds) <=> IsFiniteSet(DocumentIds)
      /\ WP!IsFiniteSet(DocumentIds) <=> IsFiniteSet(DocumentIds)
      /\ IP!IsFiniteSet(DocumentIds) <=> IsFiniteSet(DocumentIds)
  BY Zenon DEF IsFiniteSet, DP!IsFiniteSet, WP!IsFiniteSet, IP!IsFiniteSet
<1>3. /\ DP!StoreAssumption /\ DP!FiniteAssumption
      /\ WP!StoreAssumption /\ WP!FiniteAssumption
      /\ IP!StoreAssumption /\ IP!FiniteAssumption
  BY <1>1, <1>2, StoreAssumption, FiniteAssumption
     DEF StoreAssumption, FiniteAssumption, DP!StoreAssumption, DP!FiniteAssumption,
         WP!StoreAssumption, WP!FiniteAssumption, IP!StoreAssumption, IP!FiniteAssumption
<1>4. \A plan : IP!PeriodCount(plan) = PeriodCount(plan)
  BY DEF IP!PeriodCount, PeriodCount, IP!PeriodMonths, PeriodMonths
<1>5. IP!OpportunityAssumption /\ IP!PaymentAssumption
  BY <1>4, PlatformAssumption
     DEF PlatformAssumption, PlanTypes, IP!OpportunityAssumption, IP!PaymentAssumption,
         IP!PlanTypes
<1> QED
  BY <1>3, <1>5

(* The instances are the services themselves, over the same store.           *)
LEMMA SameReferences ==
  /\ Dep!References = References /\ DP!References = References
  /\ Wdr!References = References /\ WP!References = References
  /\ Inv!References = References /\ IP!References = References
<1>1. Dep!References = References
  BY DEF References, Dep!References, DepositRef, Dep!DepositRef, WithdrawalRef, Dep!WithdrawalRef,
       InvestmentRef, Dep!InvestmentRef, AccrualRef, Dep!AccrualRef, RoiCashRef, Dep!RoiCashRef,
       RoiWalletRef, Dep!RoiWalletRef, PrincipalRef, Dep!PrincipalRef
<1>2. DP!References = References
  BY DEF References, DP!References, DepositRef, DP!DepositRef, WithdrawalRef, DP!WithdrawalRef,
       InvestmentRef, DP!InvestmentRef, AccrualRef, DP!AccrualRef, RoiCashRef, DP!RoiCashRef,
       RoiWalletRef, DP!RoiWalletRef, PrincipalRef, DP!PrincipalRef
<1>3. Wdr!References = References
  BY DEF References, Wdr!References, DepositRef, Wdr!DepositRef, WithdrawalRef, Wdr!WithdrawalRef,
       InvestmentRef, Wdr!InvestmentRef, AccrualRef, Wdr!AccrualRef, RoiCashRef, Wdr!RoiCashRef,
       RoiWalletRef, Wdr!RoiWalletRef, PrincipalRef, Wdr!PrincipalRef
<1>4. WP!References = References
  BY DEF References, WP!References, DepositRef, WP!DepositRef, WithdrawalRef, WP!WithdrawalRef,
       InvestmentRef, WP!InvestmentRef, AccrualRef, WP!AccrualRef, RoiCashRef, WP!RoiCashRef,
       RoiWalletRef, WP!RoiWalletRef, PrincipalRef, WP!PrincipalRef
<1>5. Inv!References = References
  BY DEF References, Inv!References, DepositRef, Inv!DepositRef, WithdrawalRef, Inv!WithdrawalRef,
       InvestmentRef, Inv!InvestmentRef, AccrualRef, Inv!AccrualRef, RoiCashRef, Inv!RoiCashRef,
       RoiWalletRef, Inv!RoiWalletRef, PrincipalRef, Inv!PrincipalRef
<1>6. IP!References = References
  BY DEF References, IP!References, DepositRef, IP!DepositRef, WithdrawalRef, IP!WithdrawalRef,
       InvestmentRef, IP!InvestmentRef, AccrualRef, IP!AccrualRef, RoiCashRef, IP!RoiCashRef,
       RoiWalletRef, IP!RoiWalletRef, PrincipalRef, IP!PrincipalRef
<1> QED
  BY <1>1, <1>2, <1>3, <1>4, <1>5, <1>6

LEMMA SameStore ==
  /\ Dep!StoreTypeOK <=> StoreTypeOK
  /\ DP!StoreTypeOK <=> StoreTypeOK
  /\ Wdr!StoreTypeOK <=> StoreTypeOK
  /\ WP!StoreTypeOK <=> StoreTypeOK
  /\ Inv!StoreTypeOK <=> StoreTypeOK
  /\ IP!StoreTypeOK <=> StoreTypeOK
  BY SameReferences
  DEF StoreTypeOK, Txn, TxnStatus, Entry, Calls, Steps, DocumentIds,
      Dep!StoreTypeOK, Dep!Txn, Dep!TxnStatus, Dep!Entry, Dep!Calls, Dep!Steps, Dep!DocumentIds,
      DP!StoreTypeOK, DP!Txn, DP!TxnStatus, DP!Entry, DP!Calls, DP!Steps, DP!DocumentIds,
      Wdr!StoreTypeOK, Wdr!Txn, Wdr!TxnStatus, Wdr!Entry, Wdr!Calls, Wdr!Steps, Wdr!DocumentIds,
      WP!StoreTypeOK, WP!Txn, WP!TxnStatus, WP!Entry, WP!Calls, WP!Steps, WP!DocumentIds,
      Inv!StoreTypeOK, Inv!Txn, Inv!TxnStatus, Inv!Entry, Inv!Calls, Inv!Steps, Inv!DocumentIds,
      IP!StoreTypeOK, IP!Txn, IP!TxnStatus, IP!Entry, IP!Calls, IP!Steps, IP!DocumentIds

LEMMA SameDeposits == DP!DepositsInv <=> Dep!DepositsInv
<1>1. DP!TypeOK <=> Dep!TypeOK
  BY SameStore DEF Dep!TypeOK, DP!TypeOK, Dep!DepositRow, DP!DepositRow
<1>2. DP!RowsWellFormed <=> Dep!RowsWellFormed
  BY DEF Dep!RowsWellFormed, Dep!NoDeposit, Dep!Owned, Dep!CreditedByChecker, Dep!Uncredited,
       Dep!DepositRef, Dep!NoTxn, DP!RowsWellFormed, DP!NoDeposit, DP!Owned,
       DP!CreditedByChecker, DP!Uncredited, DP!DepositRef, DP!NoTxn
<1>3. DP!CallsWellFormed <=> Dep!CallsWellFormed
  BY DEF Dep!CallsWellFormed, Dep!CallWellFormed, Dep!NoDeposit, DP!CallsWellFormed,
       DP!CallWellFormed, DP!NoDeposit
<1> QED
  BY <1>1, <1>2, <1>3 DEF DP!DepositsInv, Dep!DepositsInv

LEMMA SameDepositing ==
  ASSUME NEW w \in Workers
  PROVE  Dep!DepositNext(w) <=> DP!DepositNext(w)
  BY DEF Dep!DepositNext, DP!DepositNext, Dep!RequestDeposit, DP!RequestDeposit,
       Dep!StartApproveDeposit, DP!StartApproveDeposit, Dep!StartRejectDeposit,
       DP!StartRejectDeposit, Dep!DepositStep, DP!DepositStep, Dep!ReturnRacedDeposit,
       DP!ReturnRacedDeposit, Dep!CreateDeposit, DP!CreateDeposit, Dep!ApproveDepositFails,
       DP!ApproveDepositFails, Dep!ApproveDeposit, DP!ApproveDeposit, Dep!RejectDeposit,
       DP!RejectDeposit, Dep!MayTransact, DP!MayTransact, Dep!HasDeposit, DP!HasDeposit,
       Dep!Begin, DP!Begin, Dep!Idle, DP!Idle, Dep!End, DP!End, Dep!MayInsert, DP!MayInsert,
       Dep!NoDeposit, DP!NoDeposit, Dep!Column, DP!Column, Dep!MayApproveDeposit,
       DP!MayApproveDeposit, Dep!CanCredit, DP!CanCredit, Dep!ValidLines, DP!ValidLines,
       Dep!NoTxn, DP!NoTxn, Dep!DepositRef, DP!DepositRef, Dep!PostJournal, DP!PostJournal,
       Dep!Posted, DP!Posted, Dep!CreateTxn, DP!CreateTxn, Dep!WithTxn, DP!WithTxn,
       Dep!MayRejectDeposit, DP!MayRejectDeposit

LEMMA SameWithdrawals == WP!WithdrawalsInv <=> Wdr!WithdrawalsInv
<1>1. WP!TypeOK <=> Wdr!TypeOK
  BY SameStore DEF Wdr!TypeOK, WP!TypeOK, Wdr!WithdrawalRow, WP!WithdrawalRow
<1>2. \A d : WP!RowWellFormed(d) <=> Wdr!RowWellFormed(d)
  BY DEF Wdr!RowWellFormed, Wdr!NoWithdrawal, Wdr!Checked, Wdr!PaidOut, Wdr!WithdrawalRef,
       WP!RowWellFormed, WP!NoWithdrawal, WP!Checked, WP!PaidOut, WP!WithdrawalRef
<1>3. \A c : WP!CallWellFormed(c) <=> Wdr!CallWellFormed(c)
  BY DEF Wdr!CallWellFormed, Wdr!Checked, Wdr!NoWithdrawal, WP!CallWellFormed, WP!Checked,
       WP!NoWithdrawal
<1> QED
  BY <1>1, <1>2, <1>3 DEF WP!WithdrawalsInv, Wdr!WithdrawalsInv

LEMMA SameTotals ==
  ASSUME NEW f
  PROVE  /\ Wdr!Total(f) = Total(f) /\ WP!Total(f) = Total(f)
         /\ Inv!Total(f) = Total(f) /\ IP!Total(f) = Total(f)
         /\ Rep!Total(f) = Total(f)
<1>1. \A S : /\ Wdr!Cardinality(S) = Cardinality(S) /\ WP!Cardinality(S) = Cardinality(S)
              /\ Inv!Cardinality(S) = Cardinality(S) /\ IP!Cardinality(S) = Cardinality(S)
              /\ Rep!Cardinality(S) = Cardinality(S)
  BY Zenon DEF Cardinality, Wdr!Cardinality, WP!Cardinality, Inv!Cardinality, IP!Cardinality,
       Rep!Cardinality
<1> QED
  BY <1>1 DEF Total, Units, Wdr!Total, Wdr!Units, WP!Total, WP!Units, Inv!Total, Inv!Units,
       IP!Total, IP!Units, Rep!Total, Rep!Units

LEMMA SameWithdrawing ==
  ASSUME NEW w \in Workers
  PROVE  Wdr!WithdrawalNext(w) <=> WP!WithdrawalNext(w)
<1>1. \A i, status, direction : Wdr!SumTxns(i, status, direction) = WP!SumTxns(i, status, direction)
  BY SameReferences, SameTotals
     DEF Wdr!SumTxns, WP!SumTxns, Wdr!Txns, WP!Txns, Wdr!Direction, WP!Direction
<1> QED
  BY <1>1 DEF Wdr!WithdrawalNext, WP!WithdrawalNext, Wdr!RequestWithdrawal, WP!RequestWithdrawal,
       Wdr!StartApproveWithdrawal, WP!StartApproveWithdrawal, Wdr!StartCompleteWithdrawal,
       WP!StartCompleteWithdrawal, Wdr!StartRejectWithdrawal, WP!StartRejectWithdrawal,
       Wdr!WithdrawalStep, WP!WithdrawalStep, Wdr!SumCredits, WP!SumCredits, Wdr!SumDebits,
       WP!SumDebits, Wdr!SumReserved, WP!SumReserved, Wdr!Withdrawable, WP!Withdrawable,
       Wdr!PostedCredits, WP!PostedCredits, Wdr!PostedDebits, WP!PostedDebits, Wdr!Reserved,
       WP!Reserved, Wdr!CreateWithdrawal, WP!CreateWithdrawal, Wdr!ApproveWithdrawal,
       WP!ApproveWithdrawal, Wdr!CompleteWithdrawal, WP!CompleteWithdrawal,
       Wdr!CompleteWithdrawalFails, WP!CompleteWithdrawalFails, Wdr!RejectWithdrawal,
       WP!RejectWithdrawal, Wdr!MayTransact, WP!MayTransact, Wdr!MayApproveWithdrawal,
       WP!MayApproveWithdrawal, Wdr!MayComplete, WP!MayComplete, Wdr!MayRejectWithdrawal,
       WP!MayRejectWithdrawal, Wdr!Begin, WP!Begin, Wdr!Go, WP!Go, Wdr!End, WP!End, Wdr!Idle,
       WP!Idle, Wdr!NoWithdrawal, WP!NoWithdrawal, Wdr!Column, WP!Column, Wdr!ValidLines,
       WP!ValidLines, Wdr!WithdrawalRef, WP!WithdrawalRef, Wdr!PostJournal, WP!PostJournal,
       Wdr!Posted, WP!Posted, Wdr!CreateTxn, WP!CreateTxn, Wdr!WithTxn, WP!WithTxn

LEMMA SameFunding == IP!FundingInv <=> Inv!FundingInv
<1>1. \A o : Inv!Committed(o) = IP!Committed(o)
  BY SameTotals DEF Inv!Committed, IP!Committed, Inv!Principal, IP!Principal
<1>2. \A c : IP!InvestCallWellFormed(c) <=> Inv!InvestCallWellFormed(c)
  BY DEF Inv!InvestCallWellFormed, IP!InvestCallWellFormed, Inv!FitsTarget, IP!FitsTarget
<1>3. /\ IP!OneHolder <=> Inv!OneHolder
      /\ IP!TotalIsCurrentUnderLock <=> Inv!TotalIsCurrentUnderLock
      /\ IP!TargetNeverExceeded <=> Inv!TargetNeverExceeded
      /\ IP!ClosedOnlyWhenFull <=> Inv!ClosedOnlyWhenFull
  BY <1>1 DEF Inv!OneHolder, IP!OneHolder, Inv!HoldsLock, IP!HoldsLock,
       Inv!TotalIsCurrentUnderLock, IP!TotalIsCurrentUnderLock, Inv!TargetNeverExceeded,
       IP!TargetNeverExceeded, Inv!ClosedOnlyWhenFull, IP!ClosedOnlyWhenFull
<1> QED
  BY <1>2, <1>3, SameStore DEF Inv!FundingInv, IP!FundingInv, Inv!InvestmentRow, IP!InvestmentRow

LEMMA SameSchedules ==
  /\ \A o, a : Inv!NewSchedule(o, a) = IP!NewSchedule(o, a)
  /\ Inv!ScheduleRow = IP!ScheduleRow
<1>1. /\ \A plan : Inv!PeriodCount(plan) = IP!PeriodCount(plan)
      /\ \A m, d : Inv!RoundedQuotient(m, d) = IP!RoundedQuotient(m, d)
      /\ \A p, plan : Inv!TotalRoi(p, plan) = IP!TotalRoi(p, plan)
      /\ Inv!RoiUnit = IP!RoiUnit
  BY DEF Inv!PeriodCount, IP!PeriodCount, Inv!PeriodMonths, IP!PeriodMonths,
       Inv!RoundedQuotient, IP!RoundedQuotient, Inv!TotalRoi, IP!TotalRoi, Inv!RoiUnit, IP!RoiUnit
<1>2. \A p, plan, k : /\ Inv!RoiOfRow(p, plan, k) = IP!RoiOfRow(p, plan, k)
                      /\ Inv!PrincipalOfRow(p, plan, k) = IP!PrincipalOfRow(p, plan, k)
  BY <1>1 DEF Inv!RoiOfRow, IP!RoiOfRow, Inv!RoiPerPeriod, IP!RoiPerPeriod,
       Inv!PrincipalOfRow, IP!PrincipalOfRow
<1>3. \A p, plan, k : Inv!StoredRow(p, plan, k) = IP!StoredRow(p, plan, k)
  BY <1>1, <1>2 DEF Inv!StoredRow, IP!StoredRow, Inv!InPaise, IP!InPaise
<1> QED
  BY <1>1, <1>3 DEF Inv!NewSchedule, IP!NewSchedule, Inv!NewRow, IP!NewRow, Inv!ScheduleRow,
       IP!ScheduleRow

LEMMA SameInvesting ==
  ASSUME NEW w \in Workers
  PROVE  Inv!InvestmentNext(w) <=> IP!InvestmentNext(w)
<1>1. \A o : Inv!Committed(o) = IP!Committed(o)
  BY SameTotals DEF Inv!Committed, IP!Committed, Inv!Principal, IP!Principal
<1>2. \A i, status, direction : Inv!SumTxns(i, status, direction) = IP!SumTxns(i, status, direction)
  BY SameReferences, SameTotals
     DEF Inv!SumTxns, IP!SumTxns, Inv!Txns, IP!Txns, Inv!Direction, IP!Direction
<1>3. \A o, a : Inv!NewSchedule(o, a) = IP!NewSchedule(o, a)
  BY SameSchedules
<1>4. \A i, o, a : Inv!StartInvest(w, i, o, a) <=> IP!StartInvest(w, i, o, a)
  BY DEF Inv!StartInvest, IP!StartInvest, Inv!MayTransact, IP!MayTransact, Inv!Begin, IP!Begin,
       Inv!Idle, IP!Idle, Inv!investmentTables, IP!investmentTables
<1>5. Inv!LockOpportunity(w) <=> IP!LockOpportunity(w)
  BY <1>1 DEF Inv!LockOpportunity, IP!LockOpportunity, Inv!Locked, IP!Locked, Inv!HoldsLock,
       IP!HoldsLock, Inv!FitsTarget, IP!FitsTarget, Inv!End, IP!End, Inv!Idle, IP!Idle,
       Inv!investmentTables, IP!investmentTables
<1>6. /\ Inv!SumInvestorCredits(w) <=> IP!SumInvestorCredits(w)
      /\ Inv!SumInvestorDebits(w) <=> IP!SumInvestorDebits(w)
  BY <1>2 DEF Inv!SumInvestorCredits, IP!SumInvestorCredits, Inv!SumInvestorDebits,
       IP!SumInvestorDebits, Inv!PostedCredits, IP!PostedCredits, Inv!PostedDebits,
       IP!PostedDebits, Inv!Covers, IP!Covers, Inv!Go, IP!Go, Inv!End, IP!End, Inv!Idle, IP!Idle,
       Inv!investmentTables, IP!investmentTables
<1>7. \A v : Inv!CreateInvestment(w, v) <=> IP!CreateInvestment(w, v)
  BY <1>3 DEF Inv!CreateInvestment, IP!CreateInvestment, Inv!Fills, IP!Fills, Inv!NoInvestment,
       IP!NoInvestment, Inv!InvestmentRef, IP!InvestmentRef, Inv!Column, IP!Column,
       Inv!PostJournal, IP!PostJournal, Inv!Posted, IP!Posted, Inv!CreateTxn, IP!CreateTxn,
       Inv!WithTxn, IP!WithTxn, Inv!End, IP!End, Inv!Idle, IP!Idle
<1>8. /\ \A v : Inv!StartMarkDefaulted(w, v) <=> IP!StartMarkDefaulted(w, v)
      /\ Inv!MarkDefaulted(w) <=> IP!MarkDefaulted(w)
  BY DEF Inv!StartMarkDefaulted, IP!StartMarkDefaulted, Inv!MarkDefaulted, IP!MarkDefaulted,
       Inv!Begin, IP!Begin, Inv!End, IP!End, Inv!Idle, IP!Idle, Inv!investmentTables,
       IP!investmentTables
<1> QED
  BY <1>4, <1>5, <1>6, <1>7, <1>8
     DEF Inv!InvestmentNext, IP!InvestmentNext, Inv!InvestmentStep, IP!InvestmentStep

LEMMA RepReferences ==
  /\ Rep!References = References
  /\ \A v, k : Rep!AccrualRef(v, k)[1] = "ROI_ACCRUAL"
  /\ \A r : /\ Rep!RoiCashRef(r)[1] = "REPAYMENT_ROI_CASH"
            /\ Rep!RoiWalletRef(r)[1] = "REPAYMENT_ROI_WALLET"
            /\ Rep!PrincipalRef(r)[1] = "REPAYMENT_PRINCIPAL"
  BY DEF References, Rep!References, DepositRef, Rep!DepositRef, WithdrawalRef, Rep!WithdrawalRef,
       InvestmentRef, Rep!InvestmentRef, AccrualRef, Rep!AccrualRef, RoiCashRef, Rep!RoiCashRef,
       RoiWalletRef, Rep!RoiWalletRef, PrincipalRef, Rep!PrincipalRef

LEMMA SameSums ==
  ASSUME NEW v, NEW k
  PROVE  IP!Paid(v, k) = Rep!Paid(v, k) /\ IP!Repaid(v) = Rep!Repaid(v)
  BY SameTotals DEF IP!Paid, Rep!Paid, IP!Repaid, Rep!Repaid, IP!SumPrincipal, Rep!SumPrincipal

LEMMA SameRows ==
  /\ IP!RepaymentRowsInv <=> Rep!RepaymentRowsInv
  /\ IP!Mirrored <=> Mirrored
  /\ Rep!StoreTypeOK <=> StoreTypeOK
<1>1. /\ IP!Invested = Rep!Invested
      /\ \A v, k : IP!RowAccrued(v, k) <=> Rep!RowAccrued(v, k)
      /\ \A v, k : /\ IP!AccrualRef(v, k) = Rep!AccrualRef(v, k)
                   /\ IP!InvestmentRef(v) = Rep!InvestmentRef(v)
      /\ \A r : /\ IP!RoiCashRef(r) = Rep!RoiCashRef(r)
                /\ IP!RoiWalletRef(r) = Rep!RoiWalletRef(r)
                /\ IP!PrincipalRef(r) = Rep!PrincipalRef(r)
                /\ IP!InvestorOf(r) = Rep!InvestorOf(r)
      /\ \A c : IP!OwnPayment(c) = Rep!OwnPayment(c)
      /\ \A a : IP!Column(a) = Rep!Column(a)
      /\ IP!NoInvestment = Rep!NoInvestment
      /\ IP!NoRepayment = Rep!NoRepayment
      /\ IP!NoTxn = Rep!NoTxn
  BY DEF IP!Invested, Rep!Invested, IP!RowAccrued, Rep!RowAccrued, IP!AccrualRef, Rep!AccrualRef,
       IP!InvestmentRef, Rep!InvestmentRef, IP!RoiCashRef, Rep!RoiCashRef, IP!RoiWalletRef,
       Rep!RoiWalletRef, IP!PrincipalRef, Rep!PrincipalRef, IP!InvestorOf, Rep!InvestorOf,
       IP!OwnPayment, Rep!OwnPayment, IP!Column, Rep!Column, IP!NoInvestment, Rep!NoInvestment,
       IP!NoRepayment, Rep!NoRepayment, IP!NoTxn, Rep!NoTxn
<1>2. Rep!StoreTypeOK <=> StoreTypeOK
  BY RepReferences
     DEF StoreTypeOK, Txn, TxnStatus, Entry, Calls, Steps, DocumentIds, Rep!StoreTypeOK, Rep!Txn,
         Rep!TxnStatus, Rep!Entry, Rep!Calls, Rep!Steps, Rep!DocumentIds
<1>3. IP!RepaymentTypeOK <=> Rep!RepaymentTypeOK
  BY <1>2, SameStore DEF IP!RepaymentTypeOK, Rep!RepaymentTypeOK, IP!TypeOK, Rep!TypeOK,
       IP!InvestmentRow, Rep!InvestmentRow, IP!ScheduleRow, Rep!ScheduleRow, IP!RepaymentRow,
       Rep!RepaymentRow
<1>4. \A c : IP!RepayCallWellFormed(c) <=> Rep!RepayCallWellFormed(c)
  BY <1>1, SameSums DEF IP!RepayCallWellFormed, Rep!RepayCallWellFormed
<1>5. \A v : IP!InvestmentWellFormed(v) <=> Rep!InvestmentWellFormed(v)
  BY <1>1 DEF IP!InvestmentWellFormed, Rep!InvestmentWellFormed
<1>6. \A r : IP!RepaymentWellFormed(r) <=> Rep!RepaymentWellFormed(r)
  BY <1>1 DEF IP!RepaymentWellFormed, Rep!RepaymentWellFormed, IP!RoiReceived, Rep!RoiReceived,
       IP!LegDisbursed, Rep!LegDisbursed
<1>7. (IP!PaidIsPaid <=> Rep!PaidIsPaid) /\ (IP!ClosedIsRepaid <=> Rep!ClosedIsRepaid)
  BY SameSums DEF IP!PaidIsPaid, Rep!PaidIsPaid, IP!ClosedIsRepaid, Rep!ClosedIsRepaid
<1>8. IP!Mirrored <=> Mirrored
  BY SameReferences DEF IP!Mirrored, Mirrored, IP!MirroredAt, MirroredAt, IP!WalletKinds, WalletKinds
<1> QED
  BY <1>2, <1>3, <1>4, <1>5, <1>6, <1>7, <1>8 DEF IP!RepaymentRowsInv, Rep!RepaymentRowsInv

LEMMA SameRepaying ==
  ASSUME NEW w \in Workers
  PROVE  Rep!RepaymentNext(w) <=> IP!RepaymentNext(w)
<1>1. /\ \A r : /\ IP!RoiCashRef(r) = Rep!RoiCashRef(r)
                /\ IP!RoiWalletRef(r) = Rep!RoiWalletRef(r)
                /\ IP!PrincipalRef(r) = Rep!PrincipalRef(r)
                /\ IP!InvestorOf(r) = Rep!InvestorOf(r)
      /\ \A v, k : IP!AccrualRef(v, k) = Rep!AccrualRef(v, k)
      /\ IP!References = Rep!References
      /\ IP!Idle = Rep!Idle
      /\ IP!NoTxn = Rep!NoTxn
      /\ IP!NoRepayment = Rep!NoRepayment
      /\ \A a : IP!Column(a) = Rep!Column(a)
      /\ \A c : IP!OwnPayment(c) = Rep!OwnPayment(c)
  BY SameReferences, RepReferences
     DEF IP!AccrualRef, Rep!AccrualRef, IP!RoiCashRef, Rep!RoiCashRef, IP!RoiWalletRef,
       Rep!RoiWalletRef, IP!PrincipalRef, Rep!PrincipalRef, IP!InvestorOf, Rep!InvestorOf,
       IP!Column, Rep!Column, IP!OwnPayment, Rep!OwnPayment, IP!Idle, Rep!Idle,
       IP!NoTxn, Rep!NoTxn, IP!NoRepayment, Rep!NoRepayment
<1>2. \A v, k : Rep!StartAccrueRoi(w, v, k) <=> IP!StartAccrueRoi(w, v, k)
  BY <1>1 DEF Rep!StartAccrueRoi, IP!StartAccrueRoi, Rep!MayAccrue, IP!MayAccrue, Rep!Begin,
       IP!Begin, Rep!investmentTables, IP!investmentTables
<1>3. \A v, k, payment :
        Rep!StartRecordRepayment(w, v, k, payment) <=> IP!StartRecordRepayment(w, v, k, payment)
  BY <1>1 DEF Rep!StartRecordRepayment, IP!StartRecordRepayment, Rep!MayRecord, IP!MayRecord,
       Rep!Begin, IP!Begin, Rep!investmentTables, IP!investmentTables
<1>4. \A r : Rep!StartDisburse(w, r) <=> IP!StartDisburse(w, r)
  BY <1>1 DEF Rep!StartDisburse, IP!StartDisburse, Rep!Begin, IP!Begin, Rep!investmentTables,
       IP!investmentTables
<1>5. /\ Rep!AccrueRoi(w) <=> IP!AccrueRoi(w)
      /\ Rep!AccrueRoiFails(w) <=> IP!AccrueRoiFails(w)
  BY <1>1 DEF Rep!AccrueRoi, IP!AccrueRoi, Rep!AccrueRoiFails, IP!AccrueRoiFails, Rep!ValidLines,
       IP!ValidLines, Rep!PostJournal, IP!PostJournal, Rep!Posted, IP!Posted, Rep!End, IP!End,
       Rep!investmentTables, IP!investmentTables
<1>6. /\ Rep!CheckSchedule(w) <=> IP!CheckSchedule(w)
      /\ Rep!SumSchedulePaid(w) <=> IP!SumSchedulePaid(w)
      /\ Rep!LockSchedule(w) <=> IP!LockSchedule(w)
      /\ Rep!SumRepaid(w) <=> IP!SumRepaid(w)
  BY <1>1, SameSums DEF Rep!CheckSchedule, IP!CheckSchedule, Rep!SumSchedulePaid,
       IP!SumSchedulePaid, Rep!LockSchedule, IP!LockSchedule, Rep!HoldsSchedule, IP!HoldsSchedule,
       Rep!SumRepaid, IP!SumRepaid, Rep!Go, IP!Go, Rep!End, IP!End, Rep!investmentTables,
       IP!investmentTables
<1>7. \A r : Rep!CreateRepayment(w, r) <=> IP!CreateRepayment(w, r)
  BY <1>1 DEF Rep!CreateRepayment, IP!CreateRepayment, Rep!Settles, IP!Settles, Rep!Closes,
       IP!Closes, Rep!PostJournal, IP!PostJournal, Rep!Posted, IP!Posted, Rep!End, IP!End
<1>8. /\ Rep!Disburse(w) <=> IP!Disburse(w)
      /\ Rep!DisburseFails(w) <=> IP!DisburseFails(w)
  <2>1. \A r : /\ IP!Legs(r) = Rep!Legs(r)
               /\ IP!CanDisburse(r) <=> Rep!CanDisburse(r)
    BY <1>1 DEF IP!Legs, Rep!Legs, IP!CanDisburse, Rep!CanDisburse
  <2> QED
    BY <1>1, <2>1 DEF Rep!Disburse, IP!Disburse, Rep!DisburseFails, IP!DisburseFails, Rep!End,
         IP!End, Rep!investmentTables, IP!investmentTables
<1> QED
  BY <1>2, <1>3, <1>4, <1>5, <1>6, <1>7, <1>8
     DEF Rep!RepaymentNext, IP!RepaymentNext, Rep!RepaymentStep, IP!RepaymentStep

LEMMA SameDisbursed == IP!DisbursedOnceAndWhole <=> Rep!DisbursedOnceAndWhole
  BY DEF IP!DisbursedOnceAndWhole, Rep!DisbursedOnceAndWhole, IP!Legs, Rep!Legs, IP!RoiWalletRef,
       Rep!RoiWalletRef, IP!PrincipalRef, Rep!PrincipalRef

LEMMA SamePayable == IP!InvestmentPayableAgrees <=> Rep!InvestmentPayableAgrees
<1>1. \A account, i : IP!GLBalance(account, i) = Rep!GLBalance(account, i)
  <2>1. \A kind : /\ IP!CreditAccount(kind) = Rep!CreditAccount(kind)
                  /\ IP!DebitAccount(kind) = Rep!DebitAccount(kind)
    BY DEF IP!CreditAccount, Rep!CreditAccount, IP!DebitAccount, Rep!DebitAccount
  <2>2. \A i : IP!Lines(i) = Rep!Lines(i)
    BY SameReferences, RepReferences DEF IP!Lines, Rep!Lines
  <2>3. \A lines : IP!SumLines(lines) = Rep!SumLines(lines)
    BY SameTotals DEF IP!SumLines, Rep!SumLines
  <2> QED
    BY <2>1, <2>2, <2>3 DEF IP!GLBalance, Rep!GLBalance
<1>2. \A i : IP!InvestmentPayable(i) = Rep!InvestmentPayable(i)
  BY SameTotals DEF IP!InvestmentPayable, Rep!InvestmentPayable, IP!Principal, Rep!Principal,
       IP!InvestedBy, Rep!InvestedBy, IP!SumPrincipal, Rep!SumPrincipal, IP!InvestorOf,
       Rep!InvestorOf
<1> QED
  BY <1>1, <1>2 DEF IP!InvestmentPayableAgrees, Rep!InvestmentPayableAgrees

LEMMA SamePrimed ==
  /\ Dep!StoreTypeOK' <=> StoreTypeOK'
  /\ Wdr!StoreTypeOK' <=> StoreTypeOK'
  /\ Inv!StoreTypeOK' <=> StoreTypeOK'
  /\ DP!DepositsInv' <=> Dep!DepositsInv'
  /\ WP!WithdrawalsInv' <=> Wdr!WithdrawalsInv'
  /\ IP!FundingInv' <=> Inv!FundingInv'
  BY SameStore, SameDeposits, SameWithdrawals, SameFunding, PTL

LEMMA SameRowsPrimed ==
  /\ Rep!StoreTypeOK' <=> StoreTypeOK'
  /\ IP!RepaymentRowsInv' <=> Rep!RepaymentRowsInv'
  /\ IP!Mirrored' <=> Mirrored'
<1>1. (IP!RepaymentRowsInv <=> Rep!RepaymentRowsInv)'
  BY SameRows, PTL
<1>2. (IP!Mirrored <=> Mirrored)'
  BY SameRows, PTL
<1>3. (Rep!StoreTypeOK <=> StoreTypeOK)'
  BY SameRows, PTL
<1> QED
  BY <1>1, <1>2, <1>3
-----------------------------------------------------------------------------
(* The steps of a service move its own requests on and write the journal and *)
(* the wallet under its own references alone.                                *)
storeTables == <<investorStatus, walletTxn, journal>>

Serves(kinds, steps) ==
  /\ \A r \in References :
       r[1] \notin kinds => journal'[r] = journal[r] /\ walletTxn'[r] = walletTxn[r]
  /\ \A w \in Workers : call'[w] = call[w] \/ call'[w].next \in steps \cup {"idle"}

DepositSteps == {"createDeposit", "approveDeposit", "rejectDeposit"}

WithdrawalSteps == {"sumCredits", "sumDebits", "sumReserved", "createWithdrawal",
                    "approveWithdrawal", "completeWithdrawal", "rejectWithdrawal"}

FundingSteps == {"lockOpportunity", "sumInvestorCredits", "sumInvestorDebits", "createInvestment",
                 "markDefaulted"}

RepaymentSteps == {"accrueRoi", "checkSchedule", "sumSchedulePaid", "lockSchedule", "sumRepaid",
                   "createRepayment", "disburse"}

LEMMA DepositsKept ==
  ASSUME Dep!DepositsInv, StoreTypeOK', UNCHANGED deposits, NEW kinds, NEW steps,
         Serves(kinds, steps), "DEPOSIT" \notin kinds, steps \cap DepositSteps = {}
  PROVE  Dep!DepositsInv'
<1>1. Dep!TypeOK'
  BY SamePrimed DEF Dep!DepositsInv, Dep!TypeOK
<1>2. \A d \in DepositIds : /\ journal'[Dep!DepositRef(d)] = journal[Dep!DepositRef(d)]
                            /\ walletTxn'[Dep!DepositRef(d)] = walletTxn[Dep!DepositRef(d)]
  BY DEF Serves, References, Dep!DepositRef, DepositRef
<1>3. Dep!RowsWellFormed'
  BY <1>2 DEF Dep!DepositsInv, Dep!RowsWellFormed, Dep!CreditedByChecker, Dep!Uncredited
<1>4. Dep!CallsWellFormed'
  <2> SUFFICES ASSUME NEW w \in Workers PROVE Dep!CallWellFormed(call[w])'
    BY DEF Dep!CallsWellFormed
  <2>1. CASE call'[w] = call[w]
    BY <2>1 DEF Dep!DepositsInv, Dep!CallsWellFormed, Dep!CallWellFormed
  <2>2. CASE call'[w].next \in steps \cup {"idle"}
    BY <2>2 DEF Dep!CallWellFormed, DepositSteps
  <2> QED
    BY <2>1, <2>2 DEF Serves
<1> QED
  BY <1>1, <1>3, <1>4 DEF Dep!DepositsInv

LEMMA WithdrawalsKept ==
  ASSUME Wdr!WithdrawalsInv, StoreTypeOK', UNCHANGED withdrawals, NEW kinds, NEW steps,
         Serves(kinds, steps), "WITHDRAWAL" \notin kinds, steps \cap WithdrawalSteps = {}
  PROVE  Wdr!WithdrawalsInv'
<1>1. Wdr!TypeOK'
  BY SamePrimed DEF Wdr!WithdrawalsInv, Wdr!TypeOK
<1>2. \A d \in WithdrawalIds :
        /\ journal'[Wdr!WithdrawalRef(d)] = journal[Wdr!WithdrawalRef(d)]
        /\ walletTxn'[Wdr!WithdrawalRef(d)] = walletTxn[Wdr!WithdrawalRef(d)]
  BY DEF Serves, References, Wdr!WithdrawalRef, WithdrawalRef
<1>3. \A d \in WithdrawalIds : Wdr!RowWellFormed(d)'
  BY <1>2 DEF Wdr!WithdrawalsInv, Wdr!RowWellFormed, Wdr!PaidOut
<1>4. ASSUME NEW w \in Workers PROVE Wdr!CallWellFormed(call[w])'
  <2>1. CASE call'[w] = call[w]
    BY <2>1 DEF Wdr!WithdrawalsInv, Wdr!CallWellFormed
  <2>2. CASE call'[w].next \in steps \cup {"idle"}
    BY <2>2 DEF Wdr!CallWellFormed, WithdrawalSteps
  <2> QED
    BY <2>1, <2>2 DEF Serves
<1> QED
  BY <1>1, <1>3, <1>4 DEF Wdr!WithdrawalsInv

(* What is invested, and in what, outlives the status of an investment.      *)
LEMMA FundingKept ==
  ASSUME Inv!FundingInv, StoreTypeOK', UNCHANGED opportunities,
         investments' \in [InvestmentIds -> Inv!InvestmentRow],
         \A v \in InvestmentIds : /\ investments'[v].opportunity = investments[v].opportunity
                                  /\ investments'[v].principal = investments[v].principal,
         NEW kinds, NEW steps, Serves(kinds, steps), steps \cap FundingSteps = {}
  PROVE  Inv!FundingInv'
<1>1. ASSUME NEW o \in Opportunities PROVE Inv!Committed(o)' = Inv!Committed(o)
  <2>1. {v \in InvestmentIds : investments[v].opportunity = o}'
          = {v \in InvestmentIds : investments[v].opportunity = o}
    OBVIOUS
  <2>2. [v \in {v \in InvestmentIds : investments[v].opportunity = o}' |-> investments'[v].principal]
          = [v \in {v \in InvestmentIds : investments[v].opportunity = o} |-> investments[v].principal]
    BY <2>1
  <2> QED
    BY <2>2 DEF Inv!Committed, Inv!Principal
<1>2. \A w \in Workers : \/ call'[w] = call[w]
                         \/ call'[w].next \notin FundingSteps
  BY DEF Serves, FundingSteps
<1>3. \A w \in Workers, o \in Opportunities :
        Inv!HoldsLock(w, o)' => Inv!HoldsLock(w, o) /\ call'[w] = call[w]
  BY <1>2 DEF Inv!HoldsLock, FundingSteps
<1>4. \A w \in Workers : Inv!InvestCallWellFormed(call[w])'
  BY <1>2 DEF Inv!FundingInv, Inv!InvestCallWellFormed, FundingSteps, Inv!FitsTarget
<1>5. Inv!OneHolder' /\ Inv!TotalIsCurrentUnderLock'
  BY <1>1, <1>3 DEF Inv!FundingInv, Inv!OneHolder, Inv!TotalIsCurrentUnderLock
<1>6. Inv!TargetNeverExceeded' /\ Inv!ClosedOnlyWhenFull'
  BY <1>1 DEF Inv!FundingInv, Inv!TargetNeverExceeded, Inv!ClosedOnlyWhenFull
<1> QED
  BY <1>4, <1>5, <1>6, SamePrimed DEF Inv!FundingInv

RepaidKinds == {"ROI_ACCRUAL", "REPAYMENT_ROI_CASH", "REPAYMENT_ROI_WALLET", "REPAYMENT_PRINCIPAL"}

LEMMA RepaymentsKept ==
  ASSUME Rep!RepaymentRowsInv, StoreTypeOK',
         UNCHANGED <<opportunities, investments, schedules, repayments>>, NEW kinds, NEW steps,
         Serves(kinds, steps), kinds \cap (RepaidKinds \cup {"INVESTMENT"}) = {},
         steps \cap (RepaymentSteps \cup {"markDefaulted"}) = {}
  PROVE  Rep!RepaymentRowsInv'
<1>1. Rep!RepaymentTypeOK'
  BY SameRowsPrimed DEF Rep!RepaymentRowsInv, Rep!RepaymentTypeOK, Rep!TypeOK
<1>2. \A ref \in References : ref[1] \in RepaidKinds \cup {"INVESTMENT"} =>
        journal'[ref] = journal[ref] /\ walletTxn'[ref] = walletTxn[ref]
  BY DEF Serves
<1>3. UNCHANGED Rep!Invested
  BY DEF Rep!Invested
<1>4. \A v, k : /\ Rep!Paid(v, k)' = Rep!Paid(v, k)
                /\ Rep!Repaid(v)' = Rep!Repaid(v)
                /\ Rep!RowAccrued(v, k)' <=> Rep!RowAccrued(v, k)
  BY DEF Rep!Paid, Rep!Repaid, Rep!SumPrincipal, Rep!RowAccrued
<1>5. ASSUME NEW v \in InvestmentIds PROVE Rep!InvestmentWellFormed(v)'
  <2>1. journal'[Rep!InvestmentRef(v)] = journal[Rep!InvestmentRef(v)]
    BY <1>2 DEF References, Rep!InvestmentRef, InvestmentRef
  <2>2. \A k \in 1 .. MaxPeriods :
          journal'[Rep!AccrualRef(v, k)] = journal[Rep!AccrualRef(v, k)]
    <3> SUFFICES ASSUME NEW k \in 1 .. MaxPeriods
                 PROVE  journal'[Rep!AccrualRef(v, k)] = journal[Rep!AccrualRef(v, k)]
      OBVIOUS
    <3>1. Rep!AccrualRef(v, k) = AccrualRef(v, k) /\ AccrualRef(v, k) \in References
      BY DEF References, Rep!AccrualRef, AccrualRef
    <3> QED
      BY <1>2, <3>1, RepReferences DEF RepaidKinds
  <2>3. Rep!InvestmentWellFormed(v)
    BY DEF Rep!RepaymentRowsInv
  <2> QED
    BY <1>3, <1>4, <2>1, <2>2, <2>3 DEF Rep!InvestmentWellFormed
<1>6. ASSUME NEW r \in RepaymentIds PROVE Rep!RepaymentWellFormed(r)'
  <2>1. {Rep!RoiCashRef(r), Rep!RoiWalletRef(r), Rep!PrincipalRef(r)} \subseteq References
    BY DEF References, Rep!RoiCashRef, RoiCashRef, Rep!RoiWalletRef, RoiWalletRef,
         Rep!PrincipalRef, PrincipalRef
  <2>2. \A ref \in {Rep!RoiCashRef(r), Rep!RoiWalletRef(r), Rep!PrincipalRef(r)} :
          journal'[ref] = journal[ref] /\ walletTxn'[ref] = walletTxn[ref]
    BY <1>2, <2>1, RepReferences DEF RepaidKinds
  <2>3. Rep!RepaymentWellFormed(r)
    BY DEF Rep!RepaymentRowsInv
  <2> QED
    BY <1>3, <1>4, <2>2, <2>3 DEF Rep!RepaymentWellFormed, Rep!RoiReceived, Rep!LegDisbursed,
         Rep!InvestorOf
<1>7. Rep!PaidIsPaid' /\ Rep!ClosedIsRepaid'
  BY <1>4 DEF Rep!RepaymentRowsInv, Rep!PaidIsPaid, Rep!ClosedIsRepaid
<1>8. ASSUME NEW w \in Workers PROVE Rep!RepayCallWellFormed(call[w])'
  <2>1. CASE call'[w] = call[w]
    <3>1. Rep!RepayCallWellFormed(call[w])
      BY DEF Rep!RepaymentRowsInv
    <3> QED
      BY <1>3, <1>4, <2>1, <3>1 DEF Rep!RepayCallWellFormed
  <2>2. CASE call'[w].next \in steps \cup {"idle"}
    BY <2>2 DEF Rep!RepayCallWellFormed, RepaymentSteps
  <2> QED
    BY <2>1, <2>2 DEF Serves
<1> QED
  BY <1>1, <1>5, <1>6, <1>7, <1>8 DEF Rep!RepaymentRowsInv

(* Past the check that its investor may transact.                            *)
CheckedSteps == {"createDeposit", "sumCredits", "sumDebits", "sumReserved", "createWithdrawal",
                 "lockOpportunity", "sumInvestorCredits", "sumInvestorDebits",
                 "createInvestment"}

Admitted(c) == c.next \in CheckedSteps => investorStatus[c.investor] = "ACTIVE"

LEMMA InvestorsKept ==
  ASSUME PlatformInv,
         \A i \in Investors : investorStatus[i] = "ACTIVE" => investorStatus'[i] = "ACTIVE",
         \A d \in DepositIds : \/ deposits'[d].investor = deposits[d].investor
                               \/ investorStatus'[deposits'[d].investor] = "ACTIVE",
         \A d \in WithdrawalIds : \/ withdrawals'[d].investor = withdrawals[d].investor
                                  \/ investorStatus'[withdrawals'[d].investor] = "ACTIVE",
         \A v \in InvestmentIds : \/ investments'[v].investor = investments[v].investor
                                  \/ investorStatus'[investments'[v].investor] = "ACTIVE",
         \A w \in Workers : call'[w] = call[w] \/ Admitted(call[w])'
  PROVE  InvestorsFit'
<1>1. OnlyActiveInvestorsTransact'
  <2>1. /\ \A d \in DepositIds : deposits[d].investor \in Investors \cup {None}
        /\ \A d \in WithdrawalIds : withdrawals[d].investor \in Investors \cup {None}
        /\ \A v \in InvestmentIds : investments[v].investor \in Investors \cup {None}
    BY DEF PlatformInv, Dep!DepositsInv, Dep!TypeOK, Dep!DepositRow, Wdr!WithdrawalsInv,
         Wdr!TypeOK, Wdr!WithdrawalRow, Inv!FundingInv, Inv!InvestmentRow
  <2> QED
    BY <2>1 DEF PlatformInv, InvestorsFit, OnlyActiveInvestorsTransact
<1>2. ASSUME NEW w \in Workers, call'[w].next \in CheckedSteps
      PROVE  investorStatus'[call'[w].investor] = "ACTIVE"
  <2>1. CASE call'[w] = call[w]
    <3>1. call[w].investor \in Investors
      BY <1>2, <2>1 DEF PlatformInv, Dep!DepositsInv, Dep!CallsWellFormed, Dep!CallWellFormed,
           Wdr!WithdrawalsInv, Wdr!CallWellFormed, Inv!FundingInv, Inv!InvestCallWellFormed,
           CheckedSteps
    <3> QED
      BY <1>2, <2>1, <3>1 DEF PlatformInv, InvestorsFit, CheckedSteps
  <2>2. CASE Admitted(call[w])'
    BY <1>2, <2>2 DEF Admitted
  <2> QED
    BY <2>1, <2>2
<1> QED
  BY <1>1, <1>2 DEF InvestorsFit, CheckedSteps
-----------------------------------------------------------------------------
(* A step that does no more than say what a request will do next.            *)
LEMMA CallMoves ==
  ASSUME call \in [Workers -> Calls], NEW w \in Workers, NEW c, call' = [call EXCEPT ![w] = c],
         UNCHANGED <<investorStatus, walletTxn, journal>>,
         NEW kinds, NEW steps, c.next \in steps \cup {"idle"}, Admitted(c)
  PROVE  /\ Serves(kinds, steps)
         /\ \A x \in Workers : call'[x] = call[x] \/ Admitted(call[x])'
  BY DEF Serves, Admitted

LEMMA IdleAdmitted == Idle.next = "idle" /\ Admitted(Idle)
  BY DEF Idle, Admitted, CheckedSteps
-----------------------------------------------------------------------------
(* Depositing.                                                               *)
LEMMA DepositingServes ==
  ASSUME PlatformInv, NEW w \in Workers, Depositing(w)
  PROVE  /\ Serves({"DEPOSIT"}, DepositSteps)
         /\ UNCHANGED investorStatus
         /\ \A d \in DepositIds : \/ deposits'[d].investor = deposits[d].investor
                                  \/ investorStatus[deposits'[d].investor] = "ACTIVE"
         /\ \A x \in Workers : call'[x] = call[x] \/ Admitted(call[x])'
<1> DEFINE Goal == /\ Serves({"DEPOSIT"}, DepositSteps)
                   /\ UNCHANGED investorStatus
                   /\ \A d \in DepositIds : \/ deposits'[d].investor = deposits[d].investor
                                            \/ investorStatus[deposits'[d].investor] = "ACTIVE"
                   /\ \A x \in Workers : call'[x] = call[x] \/ Admitted(call[x])'
<1>1. /\ StoreTypeOK
      /\ call \in [Workers -> Calls]
      /\ deposits \in [DepositIds -> Dep!DepositRow]
  BY SameStore DEF PlatformInv, Dep!DepositsInv, Dep!TypeOK, StoreTypeOK
<1>2. \A d : Dep!DepositRef(d)[1] = "DEPOSIT"
  BY DEF Dep!DepositRef
<1>3. Admitted(call[w])
  BY DEF PlatformInv, InvestorsFit, Admitted, CheckedSteps
<1>4. ASSUME NEW c, call' = [call EXCEPT ![w] = c], UNCHANGED <<storeTables, deposits>>,
             c.next \in DepositSteps \cup {"idle"}, Admitted(c)
      PROVE  Goal
  BY <1>1, <1>4, CallMoves DEF storeTables
<1>5. ASSUME NEW u \in Users, NEW i \in Investors, NEW p \in PaymentReferences, NEW a \in Amounts,
             Dep!RequestDeposit(w, u, i, p, a)
      PROVE  Goal
  <2> DEFINE c == [Idle EXCEPT !.next = "createDeposit", !.by = u, !.investor = i,
                               !.key = p, !.amount = a]
  <2>1. c.next = "createDeposit" /\ c.investor = i
    BY DEF Idle
  <2>2. CASE UNCHANGED call
    BY <1>5, <2>2 DEF Dep!RequestDeposit, Serves
  <2>3. CASE call' = [call EXCEPT ![w] = c]
    <3>1. Admitted(c)
      BY <1>5, <2>1 DEF Dep!RequestDeposit, Dep!MayTransact, Admitted
    <3> QED
      BY <1>4, <1>5, <2>1, <2>3, <3>1 DEF Dep!RequestDeposit, DepositSteps, storeTables
  <2> QED
    BY <1>5, <2>2, <2>3 DEF Dep!RequestDeposit, Dep!Begin, Dep!Idle, Idle
<1>6. ASSUME NEW u \in Users, NEW d \in DepositIds,
             Dep!StartApproveDeposit(w, u, d) \/ Dep!StartRejectDeposit(w, u, d)
      PROVE  Goal
  <2>1. PICK step \in {"approveDeposit", "rejectDeposit"} :
          call' = [call EXCEPT ![w] = [Idle EXCEPT !.next = step, !.by = u, !.id = d]]
    BY <1>6 DEF Dep!StartApproveDeposit, Dep!StartRejectDeposit, Dep!Begin, Dep!Idle, Idle
  <2>2. [Idle EXCEPT !.next = step, !.by = u, !.id = d].next = step
    BY DEF Idle
  <2>3. Admitted([Idle EXCEPT !.next = step, !.by = u, !.id = d])
    BY <2>2 DEF Admitted, CheckedSteps
  <2> QED
    BY <1>4, <1>6, <2>1, <2>2, <2>3
       DEF Dep!StartApproveDeposit, Dep!StartRejectDeposit, storeTables, DepositSteps
<1>7. CASE Dep!ReturnRacedDeposit(w) \/ Dep!ApproveDepositFails(w)
  <2>1. call' = [call EXCEPT ![w] = Idle] /\ UNCHANGED <<storeTables, deposits>>
    BY <1>7 DEF Dep!ReturnRacedDeposit, Dep!ApproveDepositFails, Dep!End, Dep!Idle, Idle, storeTables
  <2> QED
    BY <1>4, <2>1, IdleAdmitted
<1>8. ASSUME NEW d \in DepositIds, Dep!CreateDeposit(w, d)
      PROVE  Goal
  <2>1. call' = [call EXCEPT ![w] = Idle] /\ UNCHANGED storeTables
    BY <1>8 DEF Dep!CreateDeposit, Dep!End, Dep!Idle, Idle, storeTables
  <2>2. \A e \in DepositIds : \/ deposits'[e].investor = deposits[e].investor
                              \/ deposits'[e].investor = call[w].investor
    BY <1>1, <1>8 DEF Dep!CreateDeposit
  <2>3. investorStatus[call[w].investor] = "ACTIVE"
    BY <1>3, <1>8 DEF Dep!CreateDeposit, Admitted, CheckedSteps
  <2> QED
    BY <1>1, <2>1, <2>2, <2>3, CallMoves, IdleAdmitted DEF storeTables
<1>9. CASE Dep!ApproveDeposit(w)
  <2>1. /\ UNCHANGED investorStatus
        /\ call' = [call EXCEPT ![w] = Idle]
        /\ \A r \in References :
             r # Dep!DepositRef(call[w].id) => journal'[r] = journal[r] /\ walletTxn'[r] = walletTxn[r]
    BY <1>1, <1>9 DEF StoreTypeOK, Dep!ApproveDeposit, Dep!PostJournal, Dep!Posted,
         Dep!CreateTxn, Dep!WithTxn, Dep!End, Dep!Idle, Idle
  <2>2. \A d \in DepositIds : deposits'[d].investor = deposits[d].investor
    BY <1>1, <1>9 DEF Dep!ApproveDeposit, Dep!DepositRow
  <2> QED
    BY <1>1, <1>2, <2>1, <2>2, IdleAdmitted DEF Serves, Admitted
<1>10. CASE Dep!RejectDeposit(w)
  <2>1. call' = [call EXCEPT ![w] = Idle] /\ UNCHANGED storeTables
    BY <1>10 DEF Dep!RejectDeposit, Dep!End, Dep!Idle, Idle, storeTables
  <2>2. \A d \in DepositIds : deposits'[d].investor = deposits[d].investor
    BY <1>1, <1>10 DEF Dep!RejectDeposit, Dep!DepositRow
  <2> QED
    BY <1>1, <2>1, <2>2, CallMoves, IdleAdmitted DEF storeTables
<1> QED
  BY <1>5, <1>6, <1>7, <1>8, <1>9, <1>10 DEF Depositing, Dep!DepositNext, Dep!DepositStep

LEMMA DepositingKeepsInv ==
  ASSUME PlatformInv, NEW w \in Workers, Depositing(w)
  PROVE  PlatformInv'
<1>1. Dep!DepositNext(w) /\ UNCHANGED <<activationAudits, withdrawals, investmentTables, repayments>>
  BY DEF Depositing
<1>2. DP!DepositsInv /\ [DP!Next]_(DP!depositVars)
  BY <1>1, SameDeposits, SameDepositing DEF PlatformInv, DP!Next
<1>3. DP!DepositsInv'
  BY <1>2, SameAssumptions, DP!StepInv
<1>4. Dep!DepositsInv' /\ StoreTypeOK'
  BY <1>3, SamePrimed DEF Dep!DepositsInv, Dep!TypeOK
<1>5. Serves({"DEPOSIT"}, DepositSteps)
  BY DepositingServes
<1>6. Wdr!WithdrawalsInv'
  BY <1>1, <1>4, <1>5, WithdrawalsKept DEF PlatformInv, DepositSteps, WithdrawalSteps
<1>7. Inv!FundingInv'
  BY <1>1, <1>4, <1>5, FundingKept
     DEF PlatformInv, DepositSteps, FundingSteps, investmentTables, Inv!FundingInv
<1>8. Rep!RepaymentRowsInv'
  BY <1>1, <1>4, <1>5, RepaymentsKept
  DEF PlatformInv, DepositSteps, RepaymentSteps, RepaidKinds, investmentTables
<1>9. InvestorsFit'
  BY <1>1, DepositingServes, InvestorsKept DEF PlatformInv, investmentTables
<1> QED
  BY <1>1, <1>4, <1>6, <1>7, <1>8, <1>9 DEF PlatformInv
-----------------------------------------------------------------------------
(* Withdrawing.  A request goes on to its next sum only for an investor it    *)
(* has found ACTIVE.                                                         *)
Advances(w, steps) ==
  /\ \A x \in Workers \ {w} : call'[x] = call[x]
  /\ call'[w].next \in steps \cup {"idle"}
  /\ call'[w].next \in CheckedSteps => investorStatus[call'[w].investor] = "ACTIVE"

LEMMA GoAdvances ==
  ASSUME call \in [Workers -> Calls], NEW w \in Workers, NEW step, NEW steps, NEW n,
         Admitted(call[w]), call[w].next \in CheckedSteps, step \in steps,
         call' = [call EXCEPT ![w].next = step, ![w].seen = n]
  PROVE  Advances(w, steps)
<1>1. call'[w].next = step /\ call'[w].investor = call[w].investor
  BY DEF Calls
<1> QED
  BY <1>1 DEF Advances, Admitted

LEMMA EndAdvances ==
  ASSUME call \in [Workers -> Calls], NEW w \in Workers, NEW steps,
         call' = [call EXCEPT ![w] = Idle]
  PROVE  Advances(w, steps)
  BY IdleAdmitted DEF Advances, CheckedSteps

LEMMA WithdrawingServes ==
  ASSUME PlatformInv, NEW w \in Workers, Withdrawing(w)
  PROVE  /\ Serves({"WITHDRAWAL"}, WithdrawalSteps)
         /\ UNCHANGED investorStatus
         /\ \A d \in WithdrawalIds : \/ withdrawals'[d].investor = withdrawals[d].investor
                                     \/ investorStatus[withdrawals'[d].investor] = "ACTIVE"
         /\ \A x \in Workers : call'[x] = call[x] \/ Admitted(call[x])'
<1> DEFINE Foreign == \A r \in References : r[1] # "WITHDRAWAL" =>
                        journal'[r] = journal[r] /\ walletTxn'[r] = walletTxn[r]
           Rows == \A d \in WithdrawalIds : \/ withdrawals'[d].investor = withdrawals[d].investor
                                            \/ investorStatus[withdrawals'[d].investor] = "ACTIVE"
           Goal == /\ UNCHANGED investorStatus
                   /\ Advances(w, WithdrawalSteps)
                   /\ Foreign
                   /\ Rows
<1>1. /\ StoreTypeOK
      /\ call \in [Workers -> Calls]
      /\ withdrawals \in [WithdrawalIds -> Wdr!WithdrawalRow]
  BY SameStore DEF PlatformInv, Wdr!WithdrawalsInv, Wdr!TypeOK, StoreTypeOK
<1>2. \A d : Wdr!WithdrawalRef(d)[1] = "WITHDRAWAL"
  BY DEF Wdr!WithdrawalRef
<1>3. Admitted(call[w])
  BY DEF PlatformInv, InvestorsFit, Admitted, CheckedSteps
<1>4. ASSUME Advances(w, WithdrawalSteps), UNCHANGED <<storeTables, withdrawals>>
      PROVE  Goal
  BY <1>4 DEF storeTables
<1>5. ASSUME NEW u \in Users, NEW i \in Investors, NEW a \in Amounts,
             Wdr!RequestWithdrawal(w, u, i, a)
      PROVE  Goal
  <2>1. call' = [call EXCEPT ![w] = [Idle EXCEPT !.next = "sumCredits", !.by = u,
                                                 !.investor = i, !.amount = a]]
    BY <1>5 DEF Wdr!RequestWithdrawal, Wdr!Begin, Wdr!Idle, Idle
  <2>2. call'[w].next = "sumCredits" /\ call'[w].investor = i
    BY <1>1, <2>1 DEF Idle
  <2>3. Advances(w, WithdrawalSteps)
    BY <1>1, <1>5, <2>1, <2>2
       DEF Wdr!RequestWithdrawal, Wdr!MayTransact, Advances, WithdrawalSteps
  <2> QED
    BY <1>4, <1>5, <2>3 DEF Wdr!RequestWithdrawal, storeTables
<1>6. ASSUME NEW d \in WithdrawalIds,
             \/ \E u \in Users : Wdr!StartApproveWithdrawal(w, u, d)
             \/ Wdr!StartCompleteWithdrawal(w, d)
             \/ Wdr!StartRejectWithdrawal(w, d)
      PROVE  Goal
  <2>1. call' = [call EXCEPT ![w] = call'[w]]
          /\ call'[w].next \in {"approveWithdrawal", "completeWithdrawal", "rejectWithdrawal"}
    BY <1>1, <1>6 DEF Wdr!StartApproveWithdrawal, Wdr!StartCompleteWithdrawal,
         Wdr!StartRejectWithdrawal, Wdr!Begin, Wdr!Idle
  <2>2. Advances(w, WithdrawalSteps)
    BY <1>1, <2>1 DEF Advances, WithdrawalSteps, CheckedSteps
  <2> QED
    BY <1>4, <1>6, <2>2 DEF Wdr!StartApproveWithdrawal, Wdr!StartCompleteWithdrawal,
         Wdr!StartRejectWithdrawal, storeTables
<1>7. ASSUME Wdr!SumCredits(w) \/ Wdr!SumDebits(w) \/ Wdr!SumReserved(w)
      PROVE  Goal
  <2> HIDE DEF Goal
  <2>0. UNCHANGED <<storeTables, withdrawals>>
    BY <1>7 DEF Wdr!SumCredits, Wdr!SumDebits, Wdr!SumReserved, storeTables
  <2>1. CASE call' = [call EXCEPT ![w] = Idle]
    <3>1. Advances(w, WithdrawalSteps)
      BY <1>1, <2>1, EndAdvances
    <3> QED
      BY <1>4, <2>0, <3>1
  <2>2. ASSUME NEW step \in {"sumDebits", "sumReserved", "createWithdrawal"}, NEW n,
               call' = [call EXCEPT ![w].next = step, ![w].seen = n]
        PROVE  Goal
    <3>1. call[w].next \in CheckedSteps /\ step \in WithdrawalSteps
      BY <1>7 DEF Wdr!SumCredits, Wdr!SumDebits, Wdr!SumReserved, CheckedSteps, WithdrawalSteps
    <3>2. Advances(w, WithdrawalSteps)
      BY <1>1, <1>3, <2>2, <3>1, GoAdvances
    <3> QED
      BY <1>4, <2>0, <3>2
  <2>3. CASE Wdr!SumCredits(w)
    BY <2>2, <2>3 DEF Wdr!SumCredits, Wdr!Go
  <2>4. CASE Wdr!SumDebits(w)
    BY <2>2, <2>4 DEF Wdr!SumDebits, Wdr!Go
  <2>5. CASE Wdr!SumReserved(w)
    BY <2>1, <2>2, <2>5 DEF Wdr!SumReserved, Wdr!Go, Wdr!End, Wdr!Idle, Idle
  <2> QED
    BY <1>7, <2>3, <2>4, <2>5
<1>8. ASSUME NEW d \in WithdrawalIds, Wdr!CreateWithdrawal(w, d)
      PROVE  Goal
  <2>1. /\ call' = [call EXCEPT ![w] = Idle]
        /\ UNCHANGED <<investorStatus, journal>>
        /\ \A r \in References : r # Wdr!WithdrawalRef(d) => walletTxn'[r] = walletTxn[r]
    BY <1>1, <1>8 DEF StoreTypeOK, Wdr!CreateWithdrawal, Wdr!CreateTxn, Wdr!WithTxn, Wdr!End,
         Wdr!Idle, Idle
  <2>2. \A e \in WithdrawalIds : \/ withdrawals'[e].investor = withdrawals[e].investor
                                 \/ withdrawals'[e].investor = call[w].investor
    BY <1>1, <1>8 DEF Wdr!CreateWithdrawal
  <2>3. investorStatus[call[w].investor] = "ACTIVE"
    BY <1>3, <1>8 DEF Wdr!CreateWithdrawal, Admitted, CheckedSteps
  <2> QED
    BY <1>1, <1>2, <2>1, <2>2, <2>3, EndAdvances
<1>9. ASSUME \/ Wdr!ApproveWithdrawal(w)
             \/ Wdr!RejectWithdrawal(w)
             \/ Wdr!CompleteWithdrawal(w)
             \/ Wdr!CompleteWithdrawalFails(w)
      PROVE  Goal
  <2>1. /\ call' = [call EXCEPT ![w] = Idle]
        /\ UNCHANGED investorStatus
    BY <1>9 DEF Wdr!ApproveWithdrawal, Wdr!RejectWithdrawal, Wdr!CompleteWithdrawal,
         Wdr!CompleteWithdrawalFails, Wdr!End, Wdr!Idle, Idle
  <2>2. \A r \in References : r # Wdr!WithdrawalRef(call[w].id) =>
          walletTxn'[r] = walletTxn[r] /\ journal'[r] = journal[r]
    BY <1>1, <1>9 DEF StoreTypeOK, Wdr!ApproveWithdrawal, Wdr!RejectWithdrawal,
         Wdr!CompleteWithdrawal, Wdr!CompleteWithdrawalFails, Wdr!PostJournal, Wdr!Posted
  <2>3. \A d \in WithdrawalIds : withdrawals'[d].investor = withdrawals[d].investor
    BY <1>1, <1>9 DEF Wdr!ApproveWithdrawal, Wdr!RejectWithdrawal, Wdr!CompleteWithdrawal,
         Wdr!CompleteWithdrawalFails, Wdr!WithdrawalRow
  <2>4. Advances(w, WithdrawalSteps)
    BY <1>1, <2>1, EndAdvances
  <2>5. Foreign
    BY <1>2, <2>2
  <2> QED
    BY <2>1, <2>3, <2>4, <2>5
<1>10. Goal
  <2> HIDE DEF Goal
  <2>1. Wdr!WithdrawalNext(w)
    BY DEF Withdrawing
  <2>2. CASE \E u \in Users, d \in WithdrawalIds : Wdr!StartApproveWithdrawal(w, u, d)
    BY <1>6, <2>2
  <2>3. CASE \E d \in WithdrawalIds :
               Wdr!StartCompleteWithdrawal(w, d) \/ Wdr!StartRejectWithdrawal(w, d)
    BY <1>6, <2>3
  <2>4. CASE Wdr!WithdrawalStep(w)
    BY <1>7, <1>8, <1>9, <2>4 DEF Wdr!WithdrawalStep
  <2> QED
    BY <1>5, <2>1, <2>2, <2>3, <2>4 DEF Wdr!WithdrawalNext
<1> QED
  BY <1>10 DEF Advances, Serves, Admitted

LEMMA WithdrawingKeepsInv ==
  ASSUME PlatformInv, NEW w \in Workers, Withdrawing(w)
  PROVE  PlatformInv'
<1>1. /\ Wdr!WithdrawalNext(w)
      /\ UNCHANGED <<activationAudits, deposits, investmentTables, repayments>>
  BY DEF Withdrawing
<1>2. WP!WithdrawalsInv /\ WP!WithdrawalNext(w)
  BY <1>1, SameWithdrawals, SameWithdrawing DEF PlatformInv
<1>3. WP!WithdrawalsInv'
  BY <1>2, SameAssumptions, WP!StepInv
<1>4. Wdr!WithdrawalsInv' /\ StoreTypeOK'
  BY <1>3, SamePrimed DEF Wdr!WithdrawalsInv, Wdr!TypeOK
<1>5. Serves({"WITHDRAWAL"}, WithdrawalSteps)
  BY WithdrawingServes
<1>6. Dep!DepositsInv'
  BY <1>1, <1>4, <1>5, DepositsKept DEF PlatformInv, DepositSteps, WithdrawalSteps
<1>7. Inv!FundingInv'
  BY <1>1, <1>4, <1>5, FundingKept
     DEF PlatformInv, WithdrawalSteps, FundingSteps, investmentTables, Inv!FundingInv
<1>8. Rep!RepaymentRowsInv'
  BY <1>1, <1>4, <1>5, RepaymentsKept
  DEF PlatformInv, WithdrawalSteps, RepaymentSteps, RepaidKinds, investmentTables
<1>9. InvestorsFit'
  BY <1>1, WithdrawingServes, InvestorsKept DEF PlatformInv, investmentTables
<1> QED
  BY <1>1, <1>4, <1>6, <1>7, <1>8, <1>9 DEF PlatformInv
-----------------------------------------------------------------------------
(* Onboarding: nobody's activation is taken back.                            *)
LEMMA OnboardingServes ==
  ASSUME PlatformInv, NEW w \in Workers, Onboarding(w)
  PROVE  /\ UNCHANGED <<walletTxn, journal>>
         /\ \A x \in Workers :
              call'[x] = call[x] \/ call'[x].next \in {"activate", "auditActivation", "idle"}
         /\ \A i \in Investors : investorStatus[i] = "ACTIVE" => investorStatus'[i] = "ACTIVE"
         /\ StoreTypeOK'
         /\ activationAudits' \in [Investors -> Nat]
<1> DEFINE Goal == /\ UNCHANGED <<walletTxn, journal>>
                   /\ \A x \in Workers :
                        call'[x] = call[x] \/ call'[x].next \in {"activate", "auditActivation", "idle"}
                   /\ \A i \in Investors : investorStatus[i] = "ACTIVE" => investorStatus'[i] = "ACTIVE"
                   /\ call' \in [Workers -> Calls]
                   /\ investorStatus' \in [Investors -> {"NONE", "PENDING_ACTIVATION", "ACTIVE"}]
                   /\ activationAudits' \in [Investors -> Nat]
<1>1. /\ StoreTypeOK
      /\ call \in [Workers -> Calls]
      /\ investorStatus \in [Investors -> {"NONE", "PENDING_ACTIVATION", "ACTIVE"}]
      /\ activationAudits \in [Investors -> Nat]
  BY SameStore DEF PlatformInv, Dep!DepositsInv, Dep!TypeOK, StoreTypeOK
<1>2. ASSUME NEW i \in Investors, Onb!RegisterInvestor(i)
      PROVE  Goal
  BY <1>1, <1>2 DEF Onb!RegisterInvestor
<1>3. ASSUME NEW i \in Investors, Onb!StartActivate(w, i)
      PROVE  Goal
  <2>1. /\ [Idle EXCEPT !.next = "activate", !.investor = i].next = "activate"
        /\ [Idle EXCEPT !.next = "activate", !.investor = i] \in Calls
    BY IdleIsACall DEF Calls, Steps
  <2>2. /\ call' = [call EXCEPT ![w] = [Idle EXCEPT !.next = "activate", !.investor = i]]
        /\ UNCHANGED <<investorStatus, walletTxn, journal, activationAudits>>
    BY <1>3 DEF Onb!StartActivate, Onb!Begin, Onb!Idle, Idle
  <2> QED
    BY <1>1, <2>1, <2>2
<1>4. ASSUME Onb!Activate(w)
      PROVE  Goal
  <2>1. call' = [call EXCEPT ![w].next = "auditActivation", ![w].seen = 0]
    BY <1>4 DEF Onb!Activate, Onb!Go
  <2>2. [call[w] EXCEPT !.next = "auditActivation", !.seen = 0] \in Calls
    <3>1. call[w] \in Calls /\ "auditActivation" \in Steps /\ 0 \in Int
      BY <1>1 DEF Steps
    <3> QED
      BY <3>1 DEF Calls
  <2>3. PICK c : c = [call[w] EXCEPT !.next = "auditActivation", !.seen = 0]
    OBVIOUS
  <2>5. c \in Calls /\ c.next = "auditActivation" /\ call' = [call EXCEPT ![w] = c]
    BY <1>1, <2>1, <2>2, <2>3 DEF Calls
  <2>4. /\ \A i \in Investors : investorStatus[i] = "ACTIVE" => investorStatus'[i] = "ACTIVE"
        /\ investorStatus' \in [Investors -> {"NONE", "PENDING_ACTIVATION", "ACTIVE"}]
    <3>1. PICK j : j = call[w].investor
      OBVIOUS
    <3>2. investorStatus'
            = [i \in Investors |-> IF i = j THEN "ACTIVE" ELSE investorStatus[i]]
      BY <1>1, <1>4, <3>1 DEF Onb!Activate
    <3>3. \A i \in Investors : investorStatus[i] = "ACTIVE" => investorStatus'[i] = "ACTIVE"
      BY <1>1, <3>2
    <3> QED
      BY <1>1, <3>2, <3>3
  <2> QED
    BY <1>1, <1>4, <2>5, <2>4 DEF Onb!Activate
<1>5. ASSUME Onb!AuditActivation(w)
      PROVE  Goal
  <2>1. call' = [call EXCEPT ![w] = Idle] /\ UNCHANGED <<investorStatus, walletTxn, journal>>
    BY <1>5 DEF Onb!AuditActivation, Onb!End, Onb!Idle, Idle
  <2>2. Idle \in Calls /\ Idle.next = "idle"
    BY IdleIsACall, IdleAdmitted
  <2>3. activationAudits' \in [Investors -> Nat]
    <3>0. PICK j : j = call[w].investor
      OBVIOUS
    <3>1. activationAudits'
            = [i \in Investors |->
                 IF i = j THEN activationAudits[i] + 1 ELSE activationAudits[i]]
      BY <1>1, <1>5, <3>0 DEF Onb!AuditActivation
    <3> QED
      BY <1>1, <3>1
  <2> QED
    BY <1>1, <2>1, <2>2, <2>3
<1>6. Goal
  <2> HIDE DEF Goal
  <2> QED
    BY <1>2, <1>3, <1>4, <1>5 DEF Onboarding, Onb!OnboardingNext, Onb!OnboardingStep
<1> QED
  BY <1>1, <1>6 DEF StoreTypeOK

LEMMA OnboardingKeepsInv ==
  ASSUME PlatformInv, NEW w \in Workers, Onboarding(w)
  PROVE  PlatformInv'
<1>1. UNCHANGED <<deposits, withdrawals, investmentTables, repayments>>
  BY DEF Onboarding
<1>2. Serves({}, {"activate", "auditActivation"})
  BY OnboardingServes DEF Serves
<1>3. StoreTypeOK'
  BY OnboardingServes
<1>4. Dep!DepositsInv'
  BY <1>1, <1>2, <1>3, DepositsKept DEF PlatformInv, DepositSteps
<1>5. Wdr!WithdrawalsInv'
  BY <1>1, <1>2, <1>3, WithdrawalsKept DEF PlatformInv, WithdrawalSteps
<1>6. Inv!FundingInv'
  BY <1>1, <1>2, <1>3, FundingKept DEF PlatformInv, FundingSteps, investmentTables, Inv!FundingInv
<1>7. Rep!RepaymentRowsInv'
  BY <1>1, <1>2, <1>3, RepaymentsKept
  DEF PlatformInv, RepaymentSteps, RepaidKinds, investmentTables
<1>8. \A x \in Workers : call'[x] = call[x] \/ Admitted(call[x])'
  BY OnboardingServes DEF Admitted, CheckedSteps
<1>9. InvestorsFit'
  BY <1>1, <1>8, OnboardingServes, InvestorsKept DEF PlatformInv, investmentTables
<1> QED
  BY <1>4, <1>5, <1>6, <1>7, <1>9, OnboardingServes DEF PlatformInv
-----------------------------------------------------------------------------
(* A request that dies, and the steps in which nothing happens.              *)
LEMMA AbortingKeepsInv ==
  ASSUME PlatformInv, NEW w \in Workers, Aborting(w)
  PROVE  PlatformInv'
<1>1. /\ call' = [call EXCEPT ![w] = Idle]
      /\ UNCHANGED <<storeTables, activationAudits, deposits, withdrawals, investmentTables,
                     repayments>>
  BY DEF Aborting, Abort, End, tables, storeTables
<1>2. StoreTypeOK
  BY SameStore DEF PlatformInv, Dep!DepositsInv, Dep!TypeOK
<1>3. StoreTypeOK'
  BY <1>1, <1>2, IdleIsACall DEF StoreTypeOK, storeTables
<1>4. Serves({}, {}) /\ \A x \in Workers : call'[x] = call[x] \/ Admitted(call[x])'
  BY <1>1, <1>2, CallMoves, IdleAdmitted DEF StoreTypeOK, storeTables
<1>5. Dep!DepositsInv'
  BY <1>1, <1>3, <1>4, DepositsKept DEF PlatformInv
<1>6. Wdr!WithdrawalsInv'
  BY <1>1, <1>3, <1>4, WithdrawalsKept DEF PlatformInv
<1>7. Inv!FundingInv'
  BY <1>1, <1>3, <1>4, FundingKept DEF PlatformInv, investmentTables, Inv!FundingInv
<1>8. Rep!RepaymentRowsInv'
  BY <1>1, <1>3, <1>4, RepaymentsKept DEF PlatformInv, investmentTables
<1>9. InvestorsFit'
  BY <1>1, <1>4, InvestorsKept DEF PlatformInv, investmentTables, storeTables
<1> QED
  BY <1>1, <1>5, <1>6, <1>7, <1>8, <1>9 DEF PlatformInv

LEMMA StutterKeepsInv ==
  ASSUME PlatformInv, UNCHANGED vars
  PROVE  PlatformInv'
<1>1. UNCHANGED <<storeTables, call, activationAudits, deposits, withdrawals, investmentTables,
                  repayments>>
  BY DEF vars, storeVars, tables, storeTables
<1>2. StoreTypeOK
  BY SameStore DEF PlatformInv, Dep!DepositsInv, Dep!TypeOK
<1>3. StoreTypeOK'
  BY <1>1, <1>2 DEF StoreTypeOK, storeTables
<1>4. Serves({}, {})
  BY <1>1 DEF Serves, storeTables
<1>5. Dep!DepositsInv'
  BY <1>1, <1>3, <1>4, DepositsKept DEF PlatformInv
<1>6. Wdr!WithdrawalsInv'
  BY <1>1, <1>3, <1>4, WithdrawalsKept DEF PlatformInv
<1>7. Inv!FundingInv'
  BY <1>1, <1>3, <1>4, FundingKept DEF PlatformInv, investmentTables, Inv!FundingInv
<1>8. Rep!RepaymentRowsInv'
  BY <1>1, <1>3, <1>4, RepaymentsKept DEF PlatformInv, investmentTables
<1>9. InvestorsFit'
  BY <1>1, InvestorsKept DEF PlatformInv, investmentTables, storeTables
<1> QED
  BY <1>1, <1>5, <1>6, <1>7, <1>8, <1>9 DEF PlatformInv
-----------------------------------------------------------------------------
(* Investing.                                                                *)
LEMMA InvestingServes ==
  ASSUME PlatformInv, NEW w \in Workers, Investing(w)
  PROVE  /\ Serves({"INVESTMENT"}, FundingSteps)
         /\ UNCHANGED investorStatus
         /\ \A v \in InvestmentIds : \/ investments'[v].investor = investments[v].investor
                                     \/ investorStatus[investments'[v].investor] = "ACTIVE"
         /\ \A x \in Workers : call'[x] = call[x] \/ Admitted(call[x])'
<1> DEFINE Foreign == \A r \in References : r[1] # "INVESTMENT" =>
                        journal'[r] = journal[r] /\ walletTxn'[r] = walletTxn[r]
           Rows == \A v \in InvestmentIds : \/ investments'[v].investor = investments[v].investor
                                            \/ investorStatus[investments'[v].investor] = "ACTIVE"
           Goal == /\ UNCHANGED investorStatus
                   /\ Advances(w, FundingSteps)
                   /\ Foreign
                   /\ Rows
           Asking == FundingSteps \ {"markDefaulted"}
<1>1. /\ StoreTypeOK
      /\ call \in [Workers -> Calls]
      /\ investments \in [InvestmentIds -> Inv!InvestmentRow]
  BY SameStore DEF PlatformInv, Inv!FundingInv, StoreTypeOK
<1>2. \A v : Inv!InvestmentRef(v)[1] = "INVESTMENT"
  BY DEF Inv!InvestmentRef
<1>3. Admitted(call[w])
  BY DEF PlatformInv, InvestorsFit, Admitted, CheckedSteps
<1>4. UNCHANGED repayments /\ Inv!InvestmentNext(w)
  BY DEF Investing
<1>5. ASSUME Advances(w, Asking), UNCHANGED <<storeTables, investmentTables>>
      PROVE  Goal
  <2>1. Advances(w, FundingSteps)
    BY <1>5 DEF Advances
  <2> QED
    BY <1>5, <2>1 DEF storeTables, investmentTables
<1>6. ASSUME NEW i \in Investors, NEW o \in Opportunities, NEW a \in Amounts,
             Inv!StartInvest(w, i, o, a)
      PROVE  Goal
  <2>1. call' = [call EXCEPT ![w] = [Idle EXCEPT !.next = "lockOpportunity", !.investor = i,
                                                 !.key = o, !.amount = a]]
    BY <1>6 DEF Inv!StartInvest, Inv!Begin, Inv!Idle, Idle
  <2>2. call'[w].next = "lockOpportunity" /\ call'[w].investor = i
    BY <1>1, <2>1 DEF Idle
  <2>3. Advances(w, Asking)
    BY <1>1, <1>6, <2>1, <2>2 DEF Inv!StartInvest, Inv!MayTransact, Advances, FundingSteps
  <2> QED
    BY <1>5, <1>6, <2>3 DEF Inv!StartInvest, storeTables, Inv!investmentTables, investmentTables
<1>7. ASSUME NEW v \in InvestmentIds, Inv!StartMarkDefaulted(w, v)
      PROVE  Goal
  <2>1. /\ call' = [call EXCEPT ![w] = [Idle EXCEPT !.next = "markDefaulted", !.id = v]]
        /\ UNCHANGED <<storeTables, investments, schedules>>
    BY <1>7 DEF Inv!StartMarkDefaulted, Inv!Begin, Inv!Idle, Idle, storeTables,
         Inv!investmentTables
  <2>2. call'[w].next = "markDefaulted"
    BY <1>1, <2>1 DEF Idle
  <2>3. Advances(w, FundingSteps)
    BY <1>1, <2>1, <2>2 DEF Advances, FundingSteps, CheckedSteps
  <2> QED
    BY <2>1, <2>3 DEF storeTables
<1>8. ASSUME Inv!LockOpportunity(w) \/ Inv!SumInvestorCredits(w) \/ Inv!SumInvestorDebits(w)
      PROVE  Goal
  <2> HIDE DEF Goal
  <2>1. UNCHANGED <<storeTables, investmentTables>>
    BY <1>8 DEF Inv!LockOpportunity, Inv!SumInvestorCredits, Inv!SumInvestorDebits, storeTables,
         Inv!investmentTables, investmentTables
  <2>2. CASE call' = [call EXCEPT ![w] = Idle]
    <3>1. Advances(w, Asking)
      BY <1>1, <2>2, EndAdvances
    <3> QED
      BY <1>5, <2>1, <3>1
  <2>3. ASSUME NEW step \in {"sumInvestorDebits", "createInvestment"}, NEW n,
               call' = [call EXCEPT ![w].next = step, ![w].seen = n]
        PROVE  Goal
    <3>1. call[w].next \in CheckedSteps /\ step \in Asking
      BY <1>8 DEF Inv!LockOpportunity, Inv!SumInvestorCredits, Inv!SumInvestorDebits,
           CheckedSteps, FundingSteps
    <3>2. Advances(w, Asking)
      BY <1>1, <1>3, <2>3, <3>1, GoAdvances
    <3> QED
      BY <1>5, <2>1, <3>2
  <2>4. CASE Inv!LockOpportunity(w)
    <3>1. PICK n : \/ call' = [call EXCEPT ![w] = Idle]
                   \/ call' = [call EXCEPT ![w].next = "sumInvestorCredits", ![w].total = n]
      BY <2>4 DEF Inv!LockOpportunity, Inv!End, Inv!Idle, Idle
    <3>2. CASE call' = [call EXCEPT ![w].next = "sumInvestorCredits", ![w].total = n]
      <4>1. /\ call'[w].next = "sumInvestorCredits"
            /\ call'[w].investor = call[w].investor
            /\ \A x \in Workers \ {w} : call'[x] = call[x]
        BY <1>1, <3>2 DEF Calls
      <4>2. investorStatus[call[w].investor] = "ACTIVE"
        BY <1>3, <2>4 DEF Inv!LockOpportunity, Admitted, CheckedSteps
      <4>3. Advances(w, Asking)
        BY <4>1, <4>2 DEF Advances, FundingSteps
      <4> QED
        BY <1>5, <2>1, <4>3
    <3> QED
      BY <2>2, <3>1, <3>2
  <2>5. CASE Inv!SumInvestorCredits(w)
    BY <2>3, <2>5 DEF Inv!SumInvestorCredits, Inv!Go
  <2>6. CASE Inv!SumInvestorDebits(w)
    BY <2>2, <2>3, <2>6 DEF Inv!SumInvestorDebits, Inv!Go, Inv!End, Inv!Idle, Idle
  <2> QED
    BY <1>8, <2>4, <2>5, <2>6
<1>9. ASSUME NEW v \in InvestmentIds, Inv!CreateInvestment(w, v)
      PROVE  Goal
  <2>1. /\ call' = [call EXCEPT ![w] = Idle]
        /\ UNCHANGED investorStatus
        /\ \A r \in References :
             r # Inv!InvestmentRef(v) => journal'[r] = journal[r] /\ walletTxn'[r] = walletTxn[r]
    BY <1>1, <1>9 DEF StoreTypeOK, Inv!CreateInvestment, Inv!PostJournal, Inv!Posted,
         Inv!CreateTxn, Inv!WithTxn, Inv!End, Inv!Idle, Idle
  <2>2. investorStatus[call[w].investor] = "ACTIVE"
    BY <1>3, <1>9 DEF Inv!CreateInvestment, Admitted, CheckedSteps
  <2>3. PICK row : /\ row.investor = call[w].investor
                   /\ investments' = [investments EXCEPT ![v] = row]
    BY <1>9 DEF Inv!CreateInvestment
  <2>4. Advances(w, FundingSteps)
    BY <1>1, <2>1, EndAdvances
  <2>5. Foreign
    BY <1>2, <2>1
  <2>6. Rows
    BY <1>1, <2>2, <2>3
  <2> QED
    BY <2>1, <2>4, <2>5, <2>6
<1>10. ASSUME Inv!MarkDefaulted(w)
       PROVE  Goal
  <2>1. PICK v \in InvestmentIds : v = call[w].id
    BY <1>10 DEF Inv!MarkDefaulted, PlatformInv, Inv!FundingInv, Inv!InvestCallWellFormed
  <2>2. PICK row : row = [investments[v] EXCEPT !.status = "DEFAULTED"]
    OBVIOUS
  <2>3. /\ call' = [call EXCEPT ![w] = Idle]
        /\ investments' = [investments EXCEPT ![v] = row]
        /\ UNCHANGED storeTables
    BY <1>1, <1>10, <2>1, <2>2
       DEF Inv!MarkDefaulted, Inv!End, Inv!Idle, Idle, storeTables
  <2>4. row.investor = investments[v].investor
    BY <1>1, <2>2 DEF Inv!InvestmentRow
  <2>5. Advances(w, FundingSteps)
    BY <1>1, <2>3, EndAdvances
  <2> QED
    BY <1>1, <2>3, <2>4, <2>5 DEF storeTables
<1>11. Goal
  <2> HIDE DEF Goal
  <2> QED
    BY <1>4, <1>6, <1>7, <1>8, <1>9, <1>10 DEF Inv!InvestmentNext, Inv!InvestmentStep
<1> QED
  BY <1>11 DEF Advances, Serves, Admitted

(* What is invested stays invested, under the schedule it got: investing adds*)
(* an investment no row and no entry has named, and the rest of its steps    *)
(* leave the rows as they are but for a default.                             *)
LEMMA CreateKeepsRows ==
  ASSUME PlatformInv, StoreTypeOK', Inv!FundingInv', NEW w \in Workers, NEW v \in InvestmentIds,
         Inv!CreateInvestment(w, v), UNCHANGED repayments
  PROVE  Rep!RepaymentRowsInv'
<1>1. /\ walletTxn \in [References -> Txn]
      /\ journal \in [References -> Seq(Entry)]
      /\ call \in [Workers -> Calls]
      /\ investments \in [InvestmentIds -> Rep!InvestmentRow]
      /\ schedules \in [InvestmentIds -> Seq(Rep!ScheduleRow)]
      /\ repayments \in [RepaymentIds -> Rep!RepaymentRow]
      /\ \A u \in InvestmentIds : Rep!InvestmentWellFormed(u)
      /\ \A r \in RepaymentIds : Rep!RepaymentWellFormed(r)
      /\ \A x \in Workers : Rep!RepayCallWellFormed(call[x])
      /\ Rep!PaidIsPaid /\ Rep!ClosedIsRepaid
  BY SameStore, SameRows DEF PlatformInv, Rep!RepaymentRowsInv, Rep!RepaymentTypeOK, Rep!TypeOK,
       Inv!FundingInv, StoreTypeOK
<1>2. /\ call[w].key \in Opportunities
      /\ call[w].investor \in Investors
      /\ call[w].amount \in Nat
  BY <1>1, StoreAssumption DEF Inv!CreateInvestment, PlatformInv, Inv!FundingInv,
       Inv!InvestCallWellFormed, StoreAssumption
<1>3. PICK row, rows, e :
        /\ row = [status |-> "ACTIVE", investor |-> call[w].investor,
                  opportunity |-> call[w].key, principal |-> Inv!Column(call[w].amount)]
        /\ rows = Inv!NewSchedule(call[w].key, call[w].amount)
        /\ e = [investor |-> call[w].investor, amount |-> Inv!Column(call[w].amount)]
  OBVIOUS
<1>4. /\ investments' = [investments EXCEPT ![v] = row]
      /\ schedules' = [schedules EXCEPT ![v] = rows]
      /\ journal' = [journal EXCEPT ![InvestmentRef(v)] = Append(@, e)]
      /\ \A r \in References : r # InvestmentRef(v) => walletTxn'[r] = walletTxn[r]
      /\ call' = [call EXCEPT ![w] = Idle]
      /\ investments[v] = Inv!NoInvestment
  BY <1>1, <1>3 DEF Inv!CreateInvestment, Inv!PostJournal, Inv!Posted, Inv!CreateTxn, Inv!WithTxn,
       Inv!InvestmentRef, InvestmentRef, Inv!End, Inv!Idle, Idle
<1>5. /\ rows \in Seq(Rep!ScheduleRow)
      /\ DOMAIN rows \subseteq 1 .. MaxPeriods
      /\ \A k \in DOMAIN rows : rows[k].status = "PENDING" /\ ~rows[k].accrued
  <2>1. IP!NewSchedule(call[w].key, call[w].amount) \in Seq(IP!ScheduleRow)
    BY <1>2, SameAssumptions, IP!NewScheduleTyped
  <2>2. rows \in Seq(Rep!ScheduleRow)
    BY <1>3, <2>1, SameSchedules DEF Rep!ScheduleRow, IP!ScheduleRow
  <2>3. PICK n : n = Inv!PeriodCount(Plan[call[w].key])
    OBVIOUS
  <2>4. n \in Nat /\ n <= MaxPeriods
    <3>1. Inv!PeriodCount(Plan[call[w].key]) = PeriodCount(Plan[call[w].key])
      BY DEF Inv!PeriodCount, PeriodCount, Inv!PeriodMonths, PeriodMonths
    <3>2. IP!PeriodCount(Plan[call[w].key]) = PeriodCount(Plan[call[w].key])
      BY DEF IP!PeriodCount, PeriodCount, IP!PeriodMonths, PeriodMonths
    <3>3. Plan[call[w].key] \in IP!Plans
      BY <1>2, PlatformAssumption DEF PlatformAssumption, PlanTypes, IP!Plans, IP!PlanTypes
    <3> QED
      BY <1>2, <2>3, <3>1, <3>2, <3>3, PlatformAssumption, SameAssumptions, IP!PeriodsPositive
         DEF PlatformAssumption
  <2>5. /\ DOMAIN rows = 1 .. n
        /\ \A k \in 1 .. n : \E due : rows[k] = Inv!NewRow(due)
    BY <1>3, <2>3 DEF Inv!NewSchedule
  <2>6. \A due : Inv!NewRow(due).status = "PENDING" /\ ~Inv!NewRow(due).accrued
    BY DEF Inv!NewRow
  <2> QED
    BY <2>2, <2>4, <2>5, <2>6, StoreAssumption DEF StoreAssumption
<1>6. /\ v \notin Rep!Invested
      /\ schedules[v] = <<>>
      /\ journal[InvestmentRef(v)] = <<>>
  <2>1. v \notin Rep!Invested
    BY <1>4 DEF Rep!Invested, Inv!NoInvestment
  <2> QED
    BY <1>1, <2>1 DEF Rep!InvestmentWellFormed, Rep!InvestmentRef, InvestmentRef
<1>7. /\ \A u \in InvestmentIds \ {v} : /\ investments'[u] = investments[u]
                                        /\ schedules'[u] = schedules[u]
      /\ investments'[v] = row /\ schedules'[v] = rows
      /\ v \in Rep!Invested'
      /\ \A u \in InvestmentIds \ {v} : u \in Rep!Invested' <=> u \in Rep!Invested
  BY <1>1, <1>3, <1>4 DEF Rep!Invested
<1>8. \A ref \in References :
        ref # InvestmentRef(v) => journal'[ref] = journal[ref] /\ walletTxn'[ref] = walletTxn[ref]
  BY <1>1, <1>4
<1>9. \A u, k : Rep!Paid(u, k)' = Rep!Paid(u, k) /\ Rep!Repaid(u)' = Rep!Repaid(u)
  BY DEF Rep!Paid, Rep!Repaid, Rep!SumPrincipal
<1>10. Rep!RepaymentTypeOK'
  <2>1. schedules' \in [InvestmentIds -> Seq(Rep!ScheduleRow)]
    BY <1>1, <1>4, <1>5
  <2> QED
    BY <1>1, <2>1, SameRowsPrimed DEF Rep!RepaymentTypeOK, Rep!TypeOK, Inv!FundingInv,
         Inv!InvestmentRow, Rep!InvestmentRow
<1>11. ASSUME NEW u \in InvestmentIds PROVE Rep!InvestmentWellFormed(u)'
  <2>1. ASSUME NEW k \in 1 .. MaxPeriods
        PROVE  journal'[Rep!AccrualRef(u, k)] = journal[Rep!AccrualRef(u, k)]
    <3>1. /\ Rep!AccrualRef(u, k) = AccrualRef(u, k) /\ AccrualRef(u, k) \in References
          /\ AccrualRef(u, k) # InvestmentRef(v)
      BY DEF References, Rep!AccrualRef, AccrualRef, InvestmentRef
    <3> QED
      BY <1>8, <3>1
  <2>2. CASE u # v
    <3>1. journal'[Rep!InvestmentRef(u)] = journal[Rep!InvestmentRef(u)]
      <4>1. /\ Rep!InvestmentRef(u) = InvestmentRef(u) /\ InvestmentRef(u) \in References
            /\ InvestmentRef(u) # InvestmentRef(v)
        BY <2>2 DEF References, Rep!InvestmentRef, InvestmentRef
      <4> QED
        BY <1>8, <4>1
    <3>2. Rep!InvestmentWellFormed(u)
      BY <1>1
    <3> QED
      BY <1>7, <2>1, <2>2, <3>1, <3>2 DEF Rep!InvestmentWellFormed, Rep!RowAccrued
  <2>3. CASE u = v
    <3>1. journal'[Rep!InvestmentRef(v)]
            = <<[investor |-> row.investor, amount |-> row.principal]>>
      <4>1. Rep!InvestmentRef(v) = InvestmentRef(v) /\ InvestmentRef(v) \in References
        BY DEF References, Rep!InvestmentRef, InvestmentRef
      <4>2. journal'[InvestmentRef(v)] = Append(<<>>, e)
        BY <1>1, <1>4, <1>6, <4>1
      <4> QED
        BY <1>3, <4>1, <4>2
    <3>2. \A k \in 1 .. MaxPeriods : journal[Rep!AccrualRef(v, k)] = <<>>
      <4>1. \A k \in 1 .. MaxPeriods : ~Rep!RowAccrued(v, k)
        BY <1>6 DEF Rep!RowAccrued
      <4> QED
        BY <1>1, <4>1 DEF Rep!InvestmentWellFormed
    <3>3. \A k \in 1 .. MaxPeriods : ~Rep!RowAccrued(v, k)' /\ journal'[Rep!AccrualRef(v, k)] = <<>>
      BY <1>5, <1>7, <2>1, <2>3, <3>2 DEF Rep!RowAccrued
    <3>4. row.investor \in Investors
      BY <1>2, <1>3
    <3> QED
      BY <1>5, <1>7, <2>3, <3>1, <3>3, <3>4 DEF Rep!InvestmentWellFormed
  <2> QED
    BY <2>2, <2>3
<1>12. ASSUME NEW r \in RepaymentIds PROVE Rep!RepaymentWellFormed(r)'
  <2>1. \A ref \in {Rep!RoiCashRef(r), Rep!RoiWalletRef(r), Rep!PrincipalRef(r)} :
          ref \in References /\ ref # InvestmentRef(v)
    BY DEF References, Rep!RoiCashRef, RoiCashRef, Rep!RoiWalletRef, RoiWalletRef,
         Rep!PrincipalRef, PrincipalRef, InvestmentRef
  <2>2. \A ref \in {Rep!RoiCashRef(r), Rep!RoiWalletRef(r), Rep!PrincipalRef(r)} :
          journal'[ref] = journal[ref] /\ walletTxn'[ref] = walletTxn[ref]
    BY <1>8, <2>1
  <2>3. Rep!RepaymentWellFormed(r)
    BY <1>1
  <2>4. CASE repayments[r].status = "NONE"
    <3>1. repayments[r] = Rep!NoRepayment
      BY <2>3, <2>4 DEF Rep!RepaymentWellFormed
    <3> QED
      BY <2>2, <2>3, <2>4, <3>1 DEF Rep!RepaymentWellFormed, Rep!RoiReceived, Rep!LegDisbursed,
           Rep!NoRepayment
  <2>5. CASE repayments[r].status # "NONE"
    <3>1. repayments[r].investment \in Rep!Invested
      BY <2>3, <2>5 DEF Rep!RepaymentWellFormed
    <3>2. repayments[r].investment \in InvestmentIds \ {v}
      BY <1>6, <3>1 DEF Rep!Invested
    <3> QED
      BY <1>7, <2>2, <2>3, <2>5, <3>2 DEF Rep!RepaymentWellFormed, Rep!RoiReceived,
           Rep!LegDisbursed, Rep!InvestorOf, Rep!RowAccrued
  <2> QED
    BY <2>4, <2>5
<1>13. Rep!PaidIsPaid' /\ Rep!ClosedIsRepaid'
  <2>1. row.status = "ACTIVE"
    BY <1>3
  <2> QED
    BY <1>1, <1>5, <1>7, <1>9, <2>1 DEF Rep!PaidIsPaid, Rep!ClosedIsRepaid
<1>14. ASSUME NEW x \in Workers PROVE Rep!RepayCallWellFormed(call[x])'
  <2>1. CASE x = w
    BY <1>1, <1>4, <2>1, IdleAdmitted DEF Rep!RepayCallWellFormed
  <2>2. CASE x # w
    <3>1. call'[x] = call[x] /\ Rep!RepayCallWellFormed(call[x])
      BY <1>1, <1>4, <2>2
    <3>2. \A u \in Rep!Invested : /\ u \in Rep!Invested' /\ schedules'[u] = schedules[u]
                                 /\ \A k : Rep!RowAccrued(u, k) => Rep!RowAccrued(u, k)'
      BY <1>6, <1>7 DEF Rep!Invested, Rep!RowAccrued
    <3> QED
      BY <1>9, <3>1, <3>2 DEF Rep!RepayCallWellFormed
  <2> QED
    BY <2>1, <2>2
<1> QED
  BY <1>10, <1>11, <1>12, <1>13, <1>14 DEF Rep!RepaymentRowsInv

LEMMA DefaultKeepsRows ==
  ASSUME PlatformInv, NEW w \in Workers, UNCHANGED repayments,
         Inv!MarkDefaulted(w) \/ \E v \in InvestmentIds : Inv!StartMarkDefaulted(w, v)
  PROVE  Rep!RepaymentRowsInv' /\ (Mirrored => Mirrored')
<1>1. /\ \A v : Inv!StartMarkDefaulted(w, v) <=> IP!StartMarkDefaulted(w, v)
      /\ Inv!MarkDefaulted(w) <=> IP!MarkDefaulted(w)
  BY DEF Inv!StartMarkDefaulted, IP!StartMarkDefaulted, Inv!MarkDefaulted, IP!MarkDefaulted,
       Inv!Begin, IP!Begin, Inv!End, IP!End, Inv!Idle, IP!Idle, Inv!investmentTables,
       IP!investmentTables
<1>2. IP!RepaymentRowsInv /\ IP!RepayNext
  BY <1>1, SameRows DEF PlatformInv, IP!RepayNext, IP!Defaulting
<1>3. IP!RowsKept
  BY <1>2, SameAssumptions, IP!RepayStepKeepsRows
<1> QED
  BY <1>3, SameRows, SameRowsPrimed DEF IP!RowsKept

LEMMA InvestingKeepsRows ==
  ASSUME PlatformInv, StoreTypeOK', Inv!FundingInv', NEW w \in Workers, Investing(w)
  PROVE  Rep!RepaymentRowsInv'
<1>1. UNCHANGED repayments
  BY DEF Investing
<1>2. CASE Inv!MarkDefaulted(w) \/ \E v \in InvestmentIds : Inv!StartMarkDefaulted(w, v)
  BY <1>1, <1>2, DefaultKeepsRows
<1>3. CASE \E v \in InvestmentIds : Inv!CreateInvestment(w, v)
  BY <1>1, <1>3, CreateKeepsRows
<1>4. CASE /\ ~(Inv!MarkDefaulted(w) \/ \E v \in InvestmentIds : Inv!StartMarkDefaulted(w, v))
           /\ ~\E v \in InvestmentIds : Inv!CreateInvestment(w, v)
  <2>1. UNCHANGED <<storeTables, investmentTables>>
    BY <1>4 DEF Investing, Inv!InvestmentNext, Inv!InvestmentStep, Inv!StartInvest,
         Inv!LockOpportunity, Inv!SumInvestorCredits, Inv!SumInvestorDebits,
         Inv!investmentTables, storeTables, investmentTables
  <2>2. Serves({}, {"lockOpportunity", "sumInvestorCredits", "sumInvestorDebits",
                    "createInvestment"})
    <3>1. call \in [Workers -> Calls]
      BY SameStore DEF PlatformInv, Inv!FundingInv, StoreTypeOK
    <3>2. Idle.next = "idle"
      BY IdleAdmitted
    <3>3. CASE \E i \in Investors, o \in Opportunities, a \in Amounts : Inv!StartInvest(w, i, o, a)
      <4>1. PICK c : c.next = "lockOpportunity" /\ call' = [call EXCEPT ![w] = c]
        BY <3>3 DEF Inv!StartInvest, Inv!Begin, Inv!Idle
      <4> QED
        BY <2>1, <3>1, <4>1 DEF Serves, storeTables
    <3>4. CASE Inv!LockOpportunity(w)
      BY <2>1, <3>1, <3>2, <3>4 DEF Inv!LockOpportunity, Inv!End, Inv!Idle, Idle, Serves,
           storeTables, Calls
    <3>5. CASE Inv!SumInvestorCredits(w) \/ Inv!SumInvestorDebits(w)
      <4>1. PICK s, n : /\ s \in {"sumInvestorDebits", "createInvestment"}
                        /\ \/ call' = [call EXCEPT ![w].next = s, ![w].seen = n]
                           \/ call' = [call EXCEPT ![w] = Idle]
        BY <3>5 DEF Inv!SumInvestorCredits, Inv!SumInvestorDebits, Inv!Go, Inv!End, Inv!Idle, Idle
      <4> QED
        BY <2>1, <3>1, <3>2, <4>1 DEF Serves, storeTables, Calls
    <3> QED
      BY <1>4, <3>3, <3>4, <3>5 DEF Investing, Inv!InvestmentNext, Inv!InvestmentStep
  <2> QED
    BY <1>1, <2>1, <2>2, RepaymentsKept DEF PlatformInv, RepaymentSteps, investmentTables
<1> QED
  BY <1>2, <1>3, <1>4

LEMMA InvestingKeepsInv ==
  ASSUME PlatformInv, NEW w \in Workers, Investing(w)
  PROVE  PlatformInv'
<1>1. /\ Inv!InvestmentNext(w)
      /\ UNCHANGED <<activationAudits, deposits, withdrawals, repayments>>
  BY DEF Investing
<1>2. IP!FundingInv /\ [IP!Next]_(IP!investmentVars)
  BY <1>1, SameFunding, SameInvesting DEF PlatformInv, IP!Next
<1>3. IP!FundingInv'
  BY <1>2, SameAssumptions, IP!FundingStep
<1>4. Inv!FundingInv' /\ StoreTypeOK'
  BY <1>3, SamePrimed DEF Inv!FundingInv
<1>5. Serves({"INVESTMENT"}, FundingSteps)
  BY InvestingServes
<1>6. Dep!DepositsInv'
  BY <1>1, <1>4, <1>5, DepositsKept DEF PlatformInv, DepositSteps, FundingSteps
<1>7. Wdr!WithdrawalsInv'
  BY <1>1, <1>4, <1>5, WithdrawalsKept DEF PlatformInv, WithdrawalSteps, FundingSteps
<1>8. Rep!RepaymentRowsInv'
  BY <1>4, InvestingKeepsRows
<1>9. InvestorsFit'
  BY <1>1, InvestingServes, InvestorsKept DEF PlatformInv
<1> QED
  BY <1>1, <1>4, <1>6, <1>7, <1>8, <1>9 DEF PlatformInv
-----------------------------------------------------------------------------
(* Repaying: it writes its own references and the status of investments and  *)
(* of schedule rows, and leaves what is invested as it is.                   *)
Repays(w) ==
  /\ UNCHANGED <<investorStatus, opportunities>>
  /\ \A r \in References :
       r[1] \notin RepaidKinds => journal'[r] = journal[r] /\ walletTxn'[r] = walletTxn[r]
  /\ \A x \in Workers : call'[x] = call[x] \/ call'[x].next \in RepaymentSteps \cup {"idle"}
  /\ \A v \in InvestmentIds : /\ investments'[v].investor = investments[v].investor
                              /\ investments'[v].opportunity = investments[v].opportunity
                              /\ investments'[v].principal = investments[v].principal

RepayTables ==
  /\ call \in [Workers -> Calls]
  /\ walletTxn \in [References -> Txn]
  /\ journal \in [References -> Seq(Entry)]
  /\ investments \in [InvestmentIds -> Inv!InvestmentRow]

LEMMA TablesFit == PlatformInv => RepayTables
  BY SameStore DEF PlatformInv, RepayTables, Inv!FundingInv, StoreTypeOK

LEMMA RepayMoves ==
  ASSUME RepayTables, NEW w \in Workers, NEW c, call' = [call EXCEPT ![w] = c],
         c.next \in RepaymentSteps \cup {"idle"},
         UNCHANGED <<storeTables, investmentTables>>
  PROVE  Repays(w)
  BY DEF RepayTables, Repays, storeTables, investmentTables

(* The first steps of a request, and those between its first and its last.   *)
LEMMA RepayReads ==
  ASSUME RepayTables, NEW w \in Workers, Rep!RepaymentNext(w),
         ~Rep!AccrueRoi(w), ~\E r \in RepaymentIds : Rep!CreateRepayment(w, r), ~Rep!Disburse(w)
  PROVE  Repays(w)
<1>1. UNCHANGED <<storeTables, investmentTables>>
  BY DEF Rep!RepaymentNext, Rep!RepaymentStep, Rep!StartAccrueRoi, Rep!StartRecordRepayment,
       Rep!StartDisburse, Rep!CheckSchedule, Rep!SumSchedulePaid, Rep!LockSchedule, Rep!SumRepaid,
       Rep!AccrueRoiFails, Rep!DisburseFails, storeTables, investmentTables, Rep!investmentTables
<1>2. call[w] \in Calls /\ Idle.next = "idle"
  BY IdleAdmitted DEF RepayTables
<1>4. CASE call' = [call EXCEPT ![w] = Idle]
  BY <1>1, <1>2, <1>4, RepayMoves
<1>5. CASE \/ \E v \in InvestmentIds, k \in 1 .. MaxPeriods : Rep!StartAccrueRoi(w, v, k)
           \/ \E v \in InvestmentIds, k \in 0 .. MaxPeriods, payment \in Payments :
                Rep!StartRecordRepayment(w, v, k, payment)
           \/ \E r \in RepaymentIds : Rep!StartDisburse(w, r)
  <2>1. ASSUME NEW v, NEW k, Rep!StartAccrueRoi(w, v, k)
        PROVE  Repays(w)
    <3>1. PICK c : c = [Idle EXCEPT !.next = "accrueRoi", !.id = v, !.period = k]
      OBVIOUS
    <3>2. call' = [call EXCEPT ![w] = c]
      BY <2>1, <3>1 DEF Rep!StartAccrueRoi, Rep!Begin, Rep!Idle, Idle
    <3>3. c.next = "accrueRoi"
      BY <3>1 DEF Idle
    <3> QED
      BY <1>1, <3>2, <3>3, RepayMoves DEF RepaymentSteps
  <2>2. ASSUME NEW v, NEW k, NEW payment, Rep!StartRecordRepayment(w, v, k, payment)
        PROVE  Repays(w)
    <3>1. PICK s \in {"sumRepaid", "checkSchedule"} :
            s = IF k = 0 THEN "sumRepaid" ELSE "checkSchedule"
      OBVIOUS
    <3> DEFINE c == [Idle EXCEPT !.next = s, !.id = v, !.period = k,
                              !.amount = payment.principal, !.roi = payment.roi,
                              !.other = payment.other]
    <3>2. call' = [call EXCEPT ![w] = c]
      BY <2>2, <3>1 DEF Rep!StartRecordRepayment, Rep!Begin, Rep!Idle, Idle
    <3>3. c.next = s
      BY DEF Idle
    <3> HIDE DEF c
    <3> QED
      BY <1>1, <3>1, <3>2, <3>3, RepayMoves DEF RepaymentSteps
  <2>3. ASSUME NEW r, Rep!StartDisburse(w, r)
        PROVE  Repays(w)
    <3>1. PICK c : c = [Idle EXCEPT !.next = "disburse", !.id = r]
      OBVIOUS
    <3>2. call' = [call EXCEPT ![w] = c]
      BY <2>3, <3>1 DEF Rep!StartDisburse, Rep!Begin, Rep!Idle, Idle
    <3>3. c.next = "disburse"
      BY <3>1 DEF Idle
    <3> QED
      BY <1>1, <3>2, <3>3, RepayMoves DEF RepaymentSteps
  <2> QED
    BY <1>5, <2>1, <2>2, <2>3
<1>6. CASE Rep!CheckSchedule(w) \/ Rep!SumSchedulePaid(w) \/ Rep!LockSchedule(w) \/ Rep!SumRepaid(w)
  <2>1. PICK s, n : /\ s \in {"sumSchedulePaid", "lockSchedule", "sumRepaid", "createRepayment"}
                    /\ \/ call' = [call EXCEPT ![w].next = s, ![w].seen = n]
                       \/ call' = [call EXCEPT ![w].next = s, ![w].total = n]
                       \/ call' = [call EXCEPT ![w] = Idle]
    BY <1>6 DEF Rep!CheckSchedule, Rep!SumSchedulePaid, Rep!LockSchedule, Rep!SumRepaid, Rep!Go,
         Rep!End, Rep!Idle, Idle
  <2>2. \/ call' = [call EXCEPT ![w] = Idle]
        \/ \A x \in Workers : IF x = w THEN call'[x].next = s ELSE call'[x] = call[x]
    BY <1>2, <2>1 DEF RepayTables, Calls
  <2> QED
    BY <1>1, <1>4, <2>1, <2>2 DEF Repays, RepaymentSteps, storeTables, investmentTables
<1>7. CASE Rep!AccrueRoiFails(w) \/ Rep!DisburseFails(w)
  BY <1>4, <1>7 DEF Rep!AccrueRoiFails, Rep!DisburseFails, Rep!End, Rep!Idle, Idle
<1> QED
  BY <1>5, <1>6, <1>7 DEF Rep!RepaymentNext, Rep!RepaymentStep

LEMMA AccrueRepays ==
  ASSUME RepayTables, NEW w \in Workers, Rep!AccrueRoi(w)
  PROVE  Repays(w)
<1>1. PICK ref, e : /\ ref[1] \in RepaidKinds
                    /\ journal' = [journal EXCEPT ![ref] = Append(@, e)]
  <2>1. PICK ref : ref = Rep!AccrualRef(call[w].id, call[w].period)
    OBVIOUS
  <2>2. PICK e : e = [investor |-> investments[call[w].id].investor,
                      amount |-> schedules[call[w].id][call[w].period].roiDue]
    OBVIOUS
  <2>3. journal' = [journal EXCEPT ![ref] = Append(@, e)]
    BY <2>1, <2>2 DEF Rep!AccrueRoi, Rep!PostJournal, Rep!Posted
  <2>4. ref[1] \in RepaidKinds
    BY <2>1, RepReferences DEF RepaidKinds
  <2> QED
    BY <2>3, <2>4
<1>2. /\ call' = [call EXCEPT ![w] = Idle]
      /\ UNCHANGED <<investorStatus, walletTxn, opportunities, investments>>
  BY DEF Rep!AccrueRoi, Rep!End, Rep!Idle, Idle
<1> QED
  BY <1>1, <1>2, IdleAdmitted DEF RepayTables, Repays

LEMMA CreateRepays ==
  ASSUME RepayTables, NEW w \in Workers, NEW r \in RepaymentIds, Rep!CreateRepayment(w, r)
  PROVE  Repays(w)
<1>1. PICK ref, e : /\ ref[1] \in RepaidKinds
                    /\ \/ journal' = [journal EXCEPT ![ref] = Append(@, e)]
                       \/ UNCHANGED journal
  <2>1. PICK ref : ref = Rep!RoiCashRef(r)
    OBVIOUS
  <2>2. PICK e : \/ journal' = [journal EXCEPT ![ref] = Append(@, e)]
                 \/ UNCHANGED journal
    BY <2>1 DEF Rep!CreateRepayment, Rep!PostJournal, Rep!Posted
  <2>3. ref[1] \in RepaidKinds
    BY <2>1, RepReferences DEF RepaidKinds
  <2> QED
    BY <2>2, <2>3
<1>2. PICK v : \/ investments' = investments
               \/ investments' = [investments EXCEPT ![v].status = "CLOSED"]
  BY DEF Rep!CreateRepayment
<1>3. /\ call' = [call EXCEPT ![w] = Idle]
      /\ UNCHANGED <<investorStatus, walletTxn, opportunities>>
  BY DEF Rep!CreateRepayment, Rep!End, Rep!Idle, Idle
<1>4. \A u \in InvestmentIds : /\ investments'[u].investor = investments[u].investor
                              /\ investments'[u].opportunity = investments[u].opportunity
                              /\ investments'[u].principal = investments[u].principal
  BY <1>2 DEF RepayTables, Inv!InvestmentRow
<1> QED
  BY <1>1, <1>3, <1>4, IdleAdmitted DEF RepayTables, Repays

LEMMA DisburseRepays ==
  ASSUME RepayTables, NEW w \in Workers, Rep!Disburse(w)
  PROVE  Repays(w)
<1>1. PICK r, refs : r = call[w].id /\ refs = {leg[1] : leg \in Rep!Legs(r)}
  OBVIOUS
<1>2. \A ref \in refs : ref[1] \in RepaidKinds
  <2>1. refs \subseteq {Rep!RoiWalletRef(r), Rep!PrincipalRef(r)}
    BY <1>1 DEF Rep!Legs
  <2> QED
    BY <2>1, RepReferences DEF RepaidKinds
<1>3. \A ref \in References \ refs : journal'[ref] = journal[ref] /\ walletTxn'[ref] = walletTxn[ref]
  BY <1>1, RepReferences DEF Rep!Disburse
<1>4. /\ call' = [call EXCEPT ![w] = Idle]
      /\ UNCHANGED <<investorStatus, investmentTables>>
  BY DEF Rep!Disburse, Rep!End, Rep!Idle, Idle, Rep!investmentTables, investmentTables
<1> QED
  BY <1>2, <1>3, <1>4, IdleAdmitted DEF RepayTables, Repays, investmentTables

LEMMA RepayingServes ==
  ASSUME PlatformInv, NEW w \in Workers, Repaying(w)
  PROVE  Repays(w) /\ Serves(RepaidKinds, RepaymentSteps)
<1>1. RepayTables /\ Rep!RepaymentNext(w)
  BY TablesFit DEF Repaying
<1>2. Repays(w)
  BY <1>1, RepayReads, AccrueRepays, CreateRepays, DisburseRepays
<1> QED
  BY <1>2 DEF Repays, Serves

LEMMA RepayingKeepsRows ==
  ASSUME PlatformInv, NEW w \in Workers, Repaying(w)
  PROVE  Rep!RepaymentRowsInv' /\ (Mirrored => Mirrored')
<1>1. IP!RepaymentRowsInv /\ IP!RepayNext
  BY SameRows, SameRepaying DEF PlatformInv, IP!RepayNext, Repaying
<1>2. IP!RowsKept
  BY <1>1, SameAssumptions, IP!RepayStepKeepsRows
<1> QED
  BY <1>2, SameRows, SameRowsPrimed DEF IP!RowsKept

LEMMA RepayingKeepsInv ==
  ASSUME PlatformInv, NEW w \in Workers, Repaying(w)
  PROVE  PlatformInv'
<1>2. UNCHANGED <<activationAudits, deposits, withdrawals>>
  BY DEF Repaying
<1>3. Repays(w)
  BY RepayingServes
<1>4. Serves(RepaidKinds, RepaymentSteps)
  BY RepayingServes
<1>5. /\ Rep!RepaymentRowsInv'
      /\ StoreTypeOK'
      /\ investments' \in [InvestmentIds -> Inv!InvestmentRow]
  <2>1. Rep!RepaymentRowsInv'
    BY RepayingKeepsRows
  <2> QED
    BY <2>1, SameRowsPrimed DEF Rep!RepaymentRowsInv, Rep!RepaymentTypeOK, Rep!TypeOK,
         Rep!InvestmentRow, Inv!InvestmentRow
<1>6. Dep!DepositsInv'
  BY <1>2, <1>4, <1>5, DepositsKept DEF PlatformInv, DepositSteps, RepaymentSteps, RepaidKinds
<1>7. Wdr!WithdrawalsInv'
  BY <1>2, <1>4, <1>5, WithdrawalsKept DEF PlatformInv, WithdrawalSteps, RepaymentSteps, RepaidKinds
<1>8. Inv!FundingInv'
  BY <1>3, <1>4, <1>5, FundingKept DEF PlatformInv, Repays, FundingSteps, RepaymentSteps
<1>9. \A x \in Workers : call'[x] = call[x] \/ Admitted(call[x])'
  BY <1>3 DEF Repays, Admitted, CheckedSteps, RepaymentSteps
<1>10. InvestorsFit'
  BY <1>2, <1>3, <1>9, InvestorsKept DEF Repays
<1> QED
  BY <1>2, <1>5, <1>6, <1>7, <1>8, <1>10 DEF PlatformInv
-----------------------------------------------------------------------------
(* One request at a time.  What a request has checked cannot change before   *)
(* it commits, so each commit finds the rows as its guard has left them.     *)
SerialKept ==
  /\ \A w \in Workers : CallIsCurrent(call[w])'
  /\ DepositsDecided'
  /\ ReservationsHeld'
  /\ Mirrored'
  /\ Rep!AccruedAtMostOnce'

moneyTables == <<deposits, withdrawals, investmentTables, repayments>>

LEMMA SerialTables ==
  ASSUME SerialInv
  PROVE  /\ StoreTypeOK /\ PlatformInv
         /\ call \in [Workers -> Calls]
         /\ walletTxn \in [References -> Txn]
         /\ journal \in [References -> Seq(Entry)]
         /\ deposits \in [DepositIds -> Dep!DepositRow]
         /\ withdrawals \in [WithdrawalIds -> Wdr!WithdrawalRow]
         /\ investments \in [InvestmentIds -> Inv!InvestmentRow]
         /\ schedules \in [InvestmentIds -> Seq(Rep!ScheduleRow)]
         /\ repayments \in [RepaymentIds -> Rep!RepaymentRow]
         /\ Rep!RepaymentRowsInv
  BY SameStore DEF SerialInv, PlatformInv, Inv!FundingInv, Dep!DepositsInv, Dep!TypeOK,
       Wdr!WithdrawalsInv, Wdr!TypeOK, Rep!RepaymentRowsInv, Rep!RepaymentTypeOK, Rep!TypeOK,
       StoreTypeOK

(* What the other services' steps keep.                                      *)
LEMMA DecidedKept ==
  ASSUME DepositsDecided, UNCHANGED deposits,
         \A r \in References :
           r[1] = "DEPOSIT" => journal'[r] = journal[r] /\ walletTxn'[r] = walletTxn[r]
  PROVE  DepositsDecided'
<1>1. \A d \in DepositIds : Dep!DepositRef(d) \in References /\ Dep!DepositRef(d)[1] = "DEPOSIT"
  BY DEF References, Dep!DepositRef, DepositRef
<1> QED
  BY <1>1 DEF DepositsDecided, Dep!Uncredited

LEMMA HeldKept ==
  ASSUME ReservationsHeld, UNCHANGED withdrawals,
         \A r \in References :
           r[1] = "WITHDRAWAL" => journal'[r] = journal[r] /\ walletTxn'[r] = walletTxn[r]
  PROVE  ReservationsHeld'
<1>1. \A d \in WithdrawalIds : /\ WithdrawalRef(d) \in References
                               /\ WithdrawalRef(d)[1] = "WITHDRAWAL"
                               /\ Wdr!WithdrawalRef(d) = WithdrawalRef(d)
  BY DEF References, WithdrawalRef, Wdr!WithdrawalRef
<1> QED
  BY <1>1 DEF ReservationsHeld, Wdr!ReservationFollowsStatus

LEMMA AccruedKept ==
  ASSUME Rep!AccruedAtMostOnce,
         \A r \in References : r[1] = "ROI_ACCRUAL" => journal'[r] = journal[r]
  PROVE  Rep!AccruedAtMostOnce'
<1>1. \A v \in InvestmentIds, k \in 1 .. MaxPeriods :
        /\ Rep!AccrualRef(v, k) \in References
        /\ Rep!AccrualRef(v, k)[1] = "ROI_ACCRUAL"
  BY RepReferences DEF References, Rep!AccrualRef, AccrualRef
<1> QED
  BY <1>1 DEF Rep!AccruedAtMostOnce

LEMMA MirroredKept ==
  ASSUME Mirrored,
         \A r \in References : \/ journal'[r] = journal[r] /\ walletTxn'[r] = walletTxn[r]
                               \/ MirroredAt(r)'
  PROVE  Mirrored'
  BY DEF Mirrored, MirroredAt

LEMMA CurrentKept ==
  ASSUME UNCHANGED moneyTables, NEW c, CallIsCurrent(c)
  PROVE  CallIsCurrent(c)'
<1>1. \A v : Rep!Repaid(v)' = Rep!Repaid(v)
  BY DEF moneyTables, Rep!Repaid, Rep!SumPrincipal
<1>2. UNCHANGED <<deposits, withdrawals, investments, schedules, repayments>>
  BY DEF moneyTables, investmentTables
<1> QED
  BY <1>1, <1>2 DEF CallIsCurrent, Rep!MayAccrue

(* A step that only moves requests on, and one that ends the request.        *)
LEMMA QuietSerial ==
  ASSUME SerialInv, UNCHANGED <<walletTxn, journal, moneyTables>>,
         \A w \in Workers : call'[w] = call[w] \/ CallIsCurrent(call'[w])
  PROVE  SerialKept
<1>1. UNCHANGED <<deposits, withdrawals, investments, schedules, repayments>>
  BY DEF moneyTables, investmentTables
<1>2. ASSUME NEW w \in Workers PROVE CallIsCurrent(call[w])'
  <2>1. CallIsCurrent(call'[w])
    BY DEF SerialInv
  <2>2. PICK c : c = call'[w]
    OBVIOUS
  <2>3. CallIsCurrent(c)'
    BY <2>1, <2>2, CurrentKept
  <2> QED
    BY <2>2, <2>3
<1> QED
  BY <1>1, <1>2, DecidedKept, HeldKept, AccruedKept, MirroredKept DEF SerialInv, SerialKept

LEMMA IdleIsCurrent ==
  ASSUME OneAtATime, NEW w \in Workers, call \in [Workers -> Calls],
         call' = [call EXCEPT ![w] = Idle]
  PROVE  \A x \in Workers : call'[x] = Idle /\ CallIsCurrent(call'[x]) /\ CallIsCurrent(call[x])'
<1>1. \A x \in Workers : call'[x] = Idle
  BY DEF OneAtATime
<1> QED
  BY <1>1, IdleAdmitted DEF CallIsCurrent

LEMMA EndSerial ==
  ASSUME SerialInv, OneAtATime, NEW w \in Workers, call' = [call EXCEPT ![w] = Idle],
         UNCHANGED <<walletTxn, journal, moneyTables>>
  PROVE  SerialKept
  BY SerialTables, IdleIsCurrent, QuietSerial

LEMMA MoveSerial ==
  ASSUME SerialInv, OneAtATime, NEW w \in Workers, NEW c, call' = [call EXCEPT ![w] = c],
         CallIsCurrent(c), UNCHANGED <<walletTxn, journal, moneyTables>>
  PROVE  SerialKept
<1>1. \A x \in Workers : call'[x] = c
  BY SerialTables DEF OneAtATime
<1> QED
  BY <1>1, QuietSerial

LEMMA OnboardingSerial ==
  ASSUME SerialInv, NEW w \in Workers, Onboarding(w)
  PROVE  SerialKept
<1>1. \A x \in Workers : call'[x] = call[x] \/ CallIsCurrent(call'[x])
  BY SerialTables, OnboardingServes DEF CallIsCurrent
<1> QED
  BY <1>1, SerialTables, OnboardingServes, QuietSerial DEF Onboarding, moneyTables

(* A deposit is credited, or refused, as the request found it.               *)
LEMMA DepositingSerial ==
  ASSUME SerialInv, OneAtATime, NEW w \in Workers, Depositing(w)
  PROVE  SerialKept
<1>1. /\ UNCHANGED <<withdrawals, investmentTables, repayments>>
      /\ Dep!DepositNext(w)
  BY DEF Depositing
<1>2. /\ PlatformInv /\ call \in [Workers -> Calls]
      /\ walletTxn \in [References -> Txn] /\ journal \in [References -> Seq(Entry)]
      /\ deposits \in [DepositIds -> Dep!DepositRow]
  BY SerialTables
<1>3. \A d \in DepositIds : /\ Dep!DepositRef(d) \in References
                            /\ Dep!DepositRef(d)[1] = "DEPOSIT"
                            /\ \A e : Dep!DepositRef(d) = Dep!DepositRef(e) => d = e
  BY DEF References, Dep!DepositRef, DepositRef
<1>4. CallIsCurrent(call[w]) /\ Dep!CallWellFormed(call[w])
  BY <1>2 DEF SerialInv, PlatformInv, Dep!DepositsInv, Dep!CallsWellFormed
<1>5. ASSUME call' = [call EXCEPT ![w] = Idle], DepositsDecided', Mirrored'
      PROVE  SerialKept
  <2>1. ReservationsHeld' /\ Rep!AccruedAtMostOnce'
    <3>1. \A r \in References :
            r[1] \in {"WITHDRAWAL", "ROI_ACCRUAL"} => journal'[r] = journal[r] /\ walletTxn'[r] = walletTxn[r]
      BY <1>2, DepositingServes DEF Serves
    <3> QED
      BY <1>1, <3>1, HeldKept, AccruedKept DEF SerialInv
  <2> QED
    BY <1>2, <1>5, <2>1, IdleIsCurrent DEF SerialKept
<1>6. ASSUME NEW u \in Users, NEW i \in Investors, NEW p \in PaymentReferences, NEW a \in Amounts,
             Dep!RequestDeposit(w, u, i, p, a)
      PROVE  SerialKept
  <2>1. UNCHANGED <<walletTxn, journal, moneyTables>>
    BY <1>1, <1>6 DEF Dep!RequestDeposit, moneyTables
  <2>2. CASE UNCHANGED call
    BY <2>1, <2>2, QuietSerial
  <2>3. CASE ~UNCHANGED call
    <3>1. PICK c : c = [Idle EXCEPT !.next = "createDeposit", !.by = u, !.investor = i,
                                    !.key = p, !.amount = a]
      OBVIOUS
    <3>2. call' = [call EXCEPT ![w] = c]
      BY <1>6, <2>3, <3>1 DEF Dep!RequestDeposit, Dep!Begin, Dep!Idle, Idle
    <3>3. CallIsCurrent(c)
      BY <3>1 DEF Idle, CallIsCurrent
    <3> QED
      BY <2>1, <3>2, <3>3, MoveSerial
  <2> QED
    BY <2>2, <2>3
<1>7. ASSUME NEW u \in Users, NEW d \in DepositIds,
             Dep!StartApproveDeposit(w, u, d) \/ Dep!StartRejectDeposit(w, u, d)
      PROVE  SerialKept
  <2>1. PICK step \in {"approveDeposit", "rejectDeposit"} :
          call' = [call EXCEPT ![w] = [Idle EXCEPT !.next = step, !.by = u, !.id = d]]
    BY <1>7 DEF Dep!StartApproveDeposit, Dep!StartRejectDeposit, Dep!Begin, Dep!Idle, Idle
  <2>2. PICK c : c = [Idle EXCEPT !.next = step, !.by = u, !.id = d]
    OBVIOUS
  <2>3. deposits[d].status = "PENDING" /\ UNCHANGED <<walletTxn, journal, moneyTables>>
    BY <1>1, <1>7 DEF Dep!StartApproveDeposit, Dep!StartRejectDeposit, Dep!MayApproveDeposit,
         Dep!MayRejectDeposit, moneyTables
  <2>4. CallIsCurrent(c)
    BY <2>2, <2>3 DEF Idle, CallIsCurrent
  <2> QED
    BY <2>1, <2>2, <2>3, <2>4, MoveSerial
<1>8. CASE Dep!ReturnRacedDeposit(w) \/ Dep!ApproveDepositFails(w)
  BY <1>1, <1>8, EndSerial DEF Dep!ReturnRacedDeposit, Dep!ApproveDepositFails, Dep!End, Dep!Idle,
       Idle, moneyTables
<1>9. ASSUME NEW d \in DepositIds, Dep!CreateDeposit(w, d)
      PROVE  SerialKept
  <2>1. /\ call' = [call EXCEPT ![w] = Idle]
        /\ UNCHANGED <<walletTxn, journal>>
        /\ \A e \in DepositIds : e # d => deposits'[e] = deposits[e]
        /\ deposits[d].status = "NONE"
    BY <1>2, <1>9 DEF Dep!CreateDeposit, Dep!End, Dep!Idle, Idle, Dep!MayInsert, Dep!NoDeposit
  <2>2. DepositsDecided'
    BY <2>1 DEF SerialInv, DepositsDecided, Dep!Uncredited
  <2>3. Mirrored'
    BY <2>1, MirroredKept DEF SerialInv
  <2> QED
    BY <1>5, <2>1, <2>2, <2>3
<1>10. ASSUME Dep!ApproveDeposit(w)
       PROVE  SerialKept
  <2>1. PICK d \in DepositIds : d = call[w].id
    BY <1>4, <1>10 DEF Dep!ApproveDeposit, Dep!CallWellFormed
  <2>2. PICK i, a, e, row :
          /\ i = deposits[d].investor
          /\ a = deposits[d].amount
          /\ e = [investor |-> i, amount |-> a]
          /\ row = [deposits[d] EXCEPT !.status = "APPROVED", !.approvedBy = call[w].by]
    OBVIOUS
  <2>3. PICK ref \in References : ref = Dep!DepositRef(d) /\ ref[1] = "DEPOSIT"
    BY <1>3
  <2>4. /\ call' = [call EXCEPT ![w] = Idle]
        /\ journal' = [journal EXCEPT ![ref] = Append(@, e)]
        /\ walletTxn' = [walletTxn EXCEPT ![ref] = [status |-> "POSTED", investor |-> i,
                                                   amount |-> a]]
        /\ deposits' = [deposits EXCEPT ![d] = row]
        /\ walletTxn[ref] = Dep!NoTxn
    BY <1>10, <2>1, <2>2, <2>3 DEF Dep!ApproveDeposit, Dep!CanCredit, Dep!PostJournal, Dep!Posted,
         Dep!CreateTxn, Dep!WithTxn, Dep!End, Dep!Idle, Idle
  <2>5. journal[ref] = <<>>
    BY <1>2, <2>3, <2>4 DEF PlatformInv, Dep!DepositsInv, Dep!RowsWellFormed, Dep!Uncredited,
         Dep!CreditedByChecker, Dep!NoTxn
  <2>6. /\ journal'[ref] = <<e>>
        /\ walletTxn'[ref] = [status |-> "POSTED", investor |-> i, amount |-> a]
        /\ \A r \in References \ {ref} : journal'[r] = journal[r] /\ walletTxn'[r] = walletTxn[r]
    BY <1>2, <2>4, <2>5
  <2>7. Mirrored'
    <3>1. MirroredAt(ref)'
      BY <2>2, <2>3, <2>6 DEF MirroredAt, WalletKinds
    <3> QED
      BY <2>6, <3>1, MirroredKept DEF SerialInv
  <2>8. DepositsDecided'
    <3>1. deposits'[d] = row /\ row.status = "APPROVED"
      BY <1>2, <2>2, <2>4 DEF Dep!DepositRow
    <3>2. \A x \in DepositIds \ {d} : deposits'[x] = deposits[x] /\ Dep!DepositRef(x) # ref
      BY <1>2, <1>3, <2>3, <2>4
    <3> QED
      BY <1>3, <2>6, <3>1, <3>2 DEF SerialInv, DepositsDecided, Dep!Uncredited
  <2> QED
    BY <1>5, <2>4, <2>7, <2>8
<1>11. ASSUME Dep!RejectDeposit(w)
       PROVE  SerialKept
  <2>1. PICK d \in DepositIds : d = call[w].id /\ deposits[d].status = "PENDING"
    BY <1>4, <1>11 DEF Dep!RejectDeposit, Dep!CallWellFormed, CallIsCurrent
  <2>2. /\ call' = [call EXCEPT ![w] = Idle]
        /\ UNCHANGED <<walletTxn, journal>>
        /\ \A e \in DepositIds : e # d => deposits'[e] = deposits[e]
    BY <1>2, <1>11, <2>1 DEF Dep!RejectDeposit, Dep!End, Dep!Idle, Idle
  <2>3. DepositsDecided'
    BY <2>1, <2>2 DEF SerialInv, DepositsDecided, Dep!Uncredited
  <2>4. Mirrored'
    BY <2>2, MirroredKept DEF SerialInv
  <2> QED
    BY <1>5, <2>2, <2>3, <2>4
<1> QED
  BY <1>1, <1>6, <1>7, <1>8, <1>9, <1>10, <1>11 DEF Dep!DepositNext, Dep!DepositStep

LEMMA CommitSerial ==
  ASSUME SerialInv, OneAtATime, NEW w \in Workers, call' = [call EXCEPT ![w] = Idle],
         DepositsDecided', ReservationsHeld', Mirrored', Rep!AccruedAtMostOnce'
  PROVE  SerialKept
  BY SerialTables, IdleIsCurrent DEF SerialKept

(* A withdrawal and its reservation are written together.                    *)
LEMMA WithdrawingSerial ==
  ASSUME SerialInv, OneAtATime, NEW w \in Workers, Withdrawing(w)
  PROVE  SerialKept
<1>1. /\ UNCHANGED <<deposits, investmentTables, repayments>>
      /\ Wdr!WithdrawalNext(w)
  BY DEF Withdrawing
<1>2. /\ PlatformInv /\ call \in [Workers -> Calls]
      /\ walletTxn \in [References -> Txn] /\ journal \in [References -> Seq(Entry)]
      /\ withdrawals \in [WithdrawalIds -> Wdr!WithdrawalRow]
      /\ Mirrored
  BY SerialTables DEF SerialInv
<1>3. \A d \in WithdrawalIds : /\ Wdr!WithdrawalRef(d) = WithdrawalRef(d)
                               /\ WithdrawalRef(d) \in References
                               /\ WithdrawalRef(d)[1] = "WITHDRAWAL"
                               /\ \A e : WithdrawalRef(d) = WithdrawalRef(e) => d = e
  BY DEF References, Wdr!WithdrawalRef, WithdrawalRef
<1>4. CallIsCurrent(call[w]) /\ Wdr!CallWellFormed(call[w])
  BY <1>2 DEF SerialInv, PlatformInv, Wdr!WithdrawalsInv
<1>5. \A d \in WithdrawalIds : MirroredAt(WithdrawalRef(d)) /\ Wdr!RowWellFormed(d)
  BY <1>2, <1>3 DEF Mirrored, PlatformInv, Wdr!WithdrawalsInv
<1> DEFINE Held(d) ==
             /\ walletTxn[WithdrawalRef(d)].status =
                  CASE withdrawals[d].status = "NONE" -> "NONE"
                    [] withdrawals[d].status \in {"PENDING", "APPROVED"} -> "PENDING"
                    [] withdrawals[d].status = "COMPLETED" -> "POSTED"
                    [] withdrawals[d].status = "REJECTED" -> "CANCELLED"
             /\ withdrawals[d].status # "NONE" =>
                  /\ walletTxn[WithdrawalRef(d)].investor = withdrawals[d].investor
                  /\ walletTxn[WithdrawalRef(d)].amount = withdrawals[d].amount
<1>6. ReservationsHeld <=> \A d \in WithdrawalIds : Held(d)
  BY <1>3 DEF ReservationsHeld, Wdr!ReservationFollowsStatus
<1>7. ReservationsHeld' <=> \A d \in WithdrawalIds : Held(d)'
  BY <1>6, <1>3 DEF ReservationsHeld, Wdr!ReservationFollowsStatus
<1>8. \A d \in WithdrawalIds : Held(d)
  BY <1>6 DEF SerialInv
<1>9. ASSUME NEW d \in WithdrawalIds, call' = [call EXCEPT ![w] = Idle],
             \A e \in WithdrawalIds \ {d} : withdrawals'[e] = withdrawals[e],
             \A r \in References \ {WithdrawalRef(d)} :
               journal'[r] = journal[r] /\ walletTxn'[r] = walletTxn[r],
             Held(d)', MirroredAt(WithdrawalRef(d))'
      PROVE  SerialKept
  <2>1. ReservationsHeld'
    <3>1. ASSUME NEW e \in WithdrawalIds \ {d} PROVE Held(e)'
      <4>1. walletTxn'[WithdrawalRef(e)] = walletTxn[WithdrawalRef(e)]
        BY <1>3, <1>9
      <4> QED
        BY <1>8, <1>9, <4>1
    <3> HIDE DEF Held
    <3> QED
      BY <1>7, <1>9, <3>1
  <2> HIDE DEF Held
  <2>2. Mirrored'
    BY <1>2, <1>9, MirroredKept
  <2>3. DepositsDecided' /\ Rep!AccruedAtMostOnce'
    <3>1. \A r \in References : r[1] \in {"DEPOSIT", "ROI_ACCRUAL"} =>
            journal'[r] = journal[r] /\ walletTxn'[r] = walletTxn[r]
      BY <1>2, WithdrawingServes DEF Serves
    <3> QED
      BY <1>1, <3>1, DecidedKept, AccruedKept DEF SerialInv
  <2> QED
    BY <1>9, <2>1, <2>2, <2>3, CommitSerial
<1> HIDE DEF Held
<1>10. ASSUME NEW u \in Users, NEW i \in Investors, NEW a \in Amounts,
              Wdr!RequestWithdrawal(w, u, i, a)
       PROVE  SerialKept
  <2>1. PICK c : c = [Idle EXCEPT !.next = "sumCredits", !.by = u, !.investor = i, !.amount = a]
    OBVIOUS
  <2>2. call' = [call EXCEPT ![w] = c] /\ UNCHANGED <<walletTxn, journal, moneyTables>>
    BY <1>1, <1>10, <2>1 DEF Wdr!RequestWithdrawal, Wdr!Begin, Wdr!Idle, Idle, moneyTables
  <2>3. CallIsCurrent(c)
    BY <2>1 DEF Idle, CallIsCurrent
  <2> QED
    BY <2>2, <2>3, MoveSerial
<1>11. ASSUME Wdr!SumCredits(w) \/ Wdr!SumDebits(w) \/ Wdr!SumReserved(w)
       PROVE  SerialKept
  <2>1. UNCHANGED <<walletTxn, journal, moneyTables>>
    BY <1>1, <1>11 DEF Wdr!SumCredits, Wdr!SumDebits, Wdr!SumReserved, moneyTables
  <2>2. PICK s, n : /\ s \in {"sumDebits", "sumReserved", "createWithdrawal"}
                    /\ \/ call' = [call EXCEPT ![w].next = s, ![w].seen = n]
                       \/ call' = [call EXCEPT ![w] = Idle]
    BY <1>11 DEF Wdr!SumCredits, Wdr!SumDebits, Wdr!SumReserved, Wdr!Go, Wdr!End, Wdr!Idle, Idle
  <2>3. CASE call' = [call EXCEPT ![w] = Idle]
    BY <2>1, <2>3, EndSerial
  <2>4. CASE call' = [call EXCEPT ![w].next = s, ![w].seen = n]
    <3>1. PICK c : c = [call[w] EXCEPT !.next = s, !.seen = n]
      OBVIOUS
    <3>2. call' = [call EXCEPT ![w] = c] /\ c.next = s
      BY <1>2, <2>4, <3>1 DEF Calls
    <3>3. CallIsCurrent(c)
      BY <2>2, <3>2 DEF CallIsCurrent
    <3> QED
      BY <2>1, <3>2, <3>3, MoveSerial
  <2> QED
    BY <2>2, <2>3, <2>4
<1>12. ASSUME NEW d \in WithdrawalIds, Wdr!CreateWithdrawal(w, d)
       PROVE  SerialKept
  <2>1. PICK a : a = Wdr!Column(call[w].amount)
    OBVIOUS
  <2>2. PICK row : row = [status |-> "PENDING", investor |-> call[w].investor, amount |-> a,
                          requestedBy |-> call[w].by, approvedBy |-> None]
    OBVIOUS
  <2>3. /\ withdrawals[d] = Wdr!NoWithdrawal
        /\ withdrawals' = [withdrawals EXCEPT ![d] = row]
        /\ walletTxn' = [walletTxn EXCEPT ![WithdrawalRef(d)] =
             [status |-> "PENDING", investor |-> call[w].investor, amount |-> a]]
        /\ call' = [call EXCEPT ![w] = Idle]
        /\ UNCHANGED journal
    BY <1>3, <1>12, <2>1, <2>2 DEF Wdr!CreateWithdrawal, Wdr!CreateTxn, Wdr!WithTxn, Wdr!End, Wdr!Idle, Idle
  <2>4. journal[WithdrawalRef(d)] = <<>>
    BY <1>3, <1>5, <2>3, StoreAssumption DEF Wdr!RowWellFormed, Wdr!PaidOut, Wdr!Checked,
         Wdr!NoWithdrawal, StoreAssumption
  <2>5. /\ withdrawals'[d] = row
        /\ walletTxn'[WithdrawalRef(d)] = [status |-> "PENDING", investor |-> call[w].investor,
                                           amount |-> a]
        /\ journal'[WithdrawalRef(d)] = <<>>
    BY <1>2, <1>3, <2>3, <2>4
  <2>6. Held(d)'
    BY <2>2, <2>5 DEF Held
  <2>7. MirroredAt(WithdrawalRef(d))'
    BY <1>3, <2>5 DEF MirroredAt
  <2> QED
    BY <1>2, <1>9, <2>3, <2>6, <2>7
<1>13. ASSUME NEW u, NEW d \in WithdrawalIds, NEW s, NEW c,
              \/ s = "approveWithdrawal" /\ Wdr!StartApproveWithdrawal(w, u, d)
              \/ s = "completeWithdrawal" /\ Wdr!StartCompleteWithdrawal(w, d)
              \/ s = "rejectWithdrawal" /\ Wdr!StartRejectWithdrawal(w, d),
              call' = [call EXCEPT ![w] = c], c.next = s, c.id = d
       PROVE  SerialKept
  <2>1. UNCHANGED <<walletTxn, journal, moneyTables>>
    BY <1>1, <1>13 DEF Wdr!StartApproveWithdrawal, Wdr!StartCompleteWithdrawal,
         Wdr!StartRejectWithdrawal, moneyTables
  <2>2. CallIsCurrent(c)
    BY <1>13 DEF CallIsCurrent, Wdr!StartApproveWithdrawal, Wdr!StartCompleteWithdrawal,
         Wdr!StartRejectWithdrawal, Wdr!MayApproveWithdrawal, Wdr!MayComplete,
         Wdr!MayRejectWithdrawal
  <2> QED
    BY <1>13, <2>1, <2>2, MoveSerial
<1>14. ASSUME NEW d \in WithdrawalIds,
              \/ \E u \in Users : Wdr!StartApproveWithdrawal(w, u, d)
              \/ Wdr!StartCompleteWithdrawal(w, d)
              \/ Wdr!StartRejectWithdrawal(w, d)
       PROVE  SerialKept
  <2>1. ASSUME NEW u \in Users, Wdr!StartApproveWithdrawal(w, u, d)
        PROVE  SerialKept
    <3>1. PICK c : c = [Idle EXCEPT !.next = "approveWithdrawal", !.by = u, !.id = d]
      OBVIOUS
    <3>2. call' = [call EXCEPT ![w] = c] /\ c.next = "approveWithdrawal" /\ c.id = d
      BY <2>1, <3>1 DEF Wdr!StartApproveWithdrawal, Wdr!Begin, Wdr!Idle, Idle
    <3> QED
      BY <1>13, <2>1, <3>2
  <2>2. CASE Wdr!StartCompleteWithdrawal(w, d)
    <3>1. PICK c : c = [Idle EXCEPT !.next = "completeWithdrawal", !.id = d]
      OBVIOUS
    <3>2. call' = [call EXCEPT ![w] = c] /\ c.next = "completeWithdrawal" /\ c.id = d
      BY <2>2, <3>1 DEF Wdr!StartCompleteWithdrawal, Wdr!Begin, Wdr!Idle, Idle
    <3> QED
      BY <1>13, <2>2, <3>2
  <2>3. CASE Wdr!StartRejectWithdrawal(w, d)
    <3>1. PICK c : c = [Idle EXCEPT !.next = "rejectWithdrawal", !.id = d]
      OBVIOUS
    <3>2. call' = [call EXCEPT ![w] = c] /\ c.next = "rejectWithdrawal" /\ c.id = d
      BY <2>3, <3>1 DEF Wdr!StartRejectWithdrawal, Wdr!Begin, Wdr!Idle, Idle
    <3> QED
      BY <1>13, <2>3, <3>2
  <2> QED
    BY <1>14, <2>1, <2>2, <2>3
<1>15. ASSUME Wdr!ApproveWithdrawal(w)
       PROVE  SerialKept
  <2>1. PICK d \in WithdrawalIds : d = call[w].id /\ withdrawals[d].status = "PENDING"
    BY <1>4, <1>15 DEF Wdr!ApproveWithdrawal, Wdr!CallWellFormed, CallIsCurrent
  <2>2. PICK row : row = [withdrawals[d] EXCEPT !.status = "APPROVED", !.approvedBy = call[w].by]
    OBVIOUS
  <2>3. /\ call' = [call EXCEPT ![w] = Idle]
        /\ withdrawals' = [withdrawals EXCEPT ![d] = row]
        /\ UNCHANGED <<walletTxn, journal>>
    BY <1>15, <2>1, <2>2 DEF Wdr!ApproveWithdrawal, Wdr!End, Wdr!Idle, Idle
  <2>4. /\ withdrawals'[d].status = "APPROVED"
        /\ withdrawals'[d].investor = withdrawals[d].investor
        /\ withdrawals'[d].amount = withdrawals[d].amount
    BY <1>2, <2>2, <2>3 DEF Wdr!WithdrawalRow
  <2>5. Held(d)'
    BY <1>8, <2>1, <2>3, <2>4 DEF Held
  <2>6. MirroredAt(WithdrawalRef(d))'
    BY <1>5, <2>3 DEF MirroredAt
  <2> QED
    BY <1>2, <1>9, <2>3, <2>5, <2>6
<1>16. ASSUME Wdr!CompleteWithdrawal(w)
       PROVE  SerialKept
  <2>1. PICK d \in WithdrawalIds : d = call[w].id /\ withdrawals[d].status = "APPROVED"
    BY <1>4, <1>16 DEF Wdr!CompleteWithdrawal, Wdr!CallWellFormed, CallIsCurrent
  <2>2. PICK i, a, e :
          /\ i = withdrawals[d].investor
          /\ a = withdrawals[d].amount
          /\ e = [investor |-> i, amount |-> a]
    OBVIOUS
  <2>3. PICK ref \in References : ref = WithdrawalRef(d) /\ ref[1] = "WITHDRAWAL"
    BY <1>3
  <2>4. walletTxn[ref].status = "PENDING" /\ walletTxn[ref].investor = i /\ walletTxn[ref].amount = a
    BY <1>8, <2>1, <2>2, <2>3 DEF Held
  <2>5. journal[ref] = <<>>
    BY <1>5, <2>3, <2>4 DEF MirroredAt, WalletKinds
  <2>6. PICK row : row = [withdrawals[d] EXCEPT !.status = "COMPLETED"]
    OBVIOUS
  <2>7. PICK txn : txn = [walletTxn[ref] EXCEPT !.status = "POSTED"]
    OBVIOUS
  <2>8. /\ call' = [call EXCEPT ![w] = Idle]
        /\ journal' = [journal EXCEPT ![ref] = Append(@, e)]
        /\ walletTxn' = [walletTxn EXCEPT ![ref] = txn]
        /\ withdrawals' = [withdrawals EXCEPT ![d] = row]
    BY <1>3, <1>16, <2>1, <2>2, <2>3, <2>6, <2>7 DEF Wdr!CompleteWithdrawal, Wdr!PostJournal,
         Wdr!Posted, Wdr!End, Wdr!Idle, Idle
  <2>9. /\ row.status = "COMPLETED" /\ row.investor = i /\ row.amount = a
        /\ txn.status = "POSTED" /\ txn.investor = i /\ txn.amount = a
    BY <1>2, <2>2, <2>4, <2>6, <2>7 DEF Wdr!WithdrawalRow, Txn
  <2>10. journal'[ref] = <<e>> /\ walletTxn'[ref] = txn /\ withdrawals'[d] = row
    BY <1>2, <2>5, <2>8
  <2>11. Held(d)'
    BY <2>3, <2>9, <2>10 DEF Held
  <2>12. MirroredAt(ref)'
    BY <2>2, <2>3, <2>9, <2>10 DEF MirroredAt, WalletKinds
  <2> QED
    BY <1>2, <1>9, <2>3, <2>8, <2>11, <2>12
<1>17. CASE Wdr!CompleteWithdrawalFails(w)
  BY <1>1, <1>17, EndSerial DEF Wdr!CompleteWithdrawalFails, Wdr!End, Wdr!Idle, Idle, moneyTables
<1>18. ASSUME Wdr!RejectWithdrawal(w)
       PROVE  SerialKept
  <2>1. PICK d \in WithdrawalIds :
          d = call[w].id /\ withdrawals[d].status \in {"PENDING", "APPROVED"}
    BY <1>4, <1>18 DEF Wdr!RejectWithdrawal, Wdr!CallWellFormed, CallIsCurrent
  <2>2. PICK ref \in References : ref = WithdrawalRef(d) /\ ref[1] = "WITHDRAWAL"
    BY <1>3
  <2>3. /\ walletTxn[ref].status = "PENDING"
        /\ walletTxn[ref].investor = withdrawals[d].investor
        /\ walletTxn[ref].amount = withdrawals[d].amount
    BY <1>8, <2>1, <2>2 DEF Held
  <2>4. journal[ref] = <<>>
    BY <1>5, <2>2, <2>3 DEF MirroredAt, WalletKinds
  <2>5. PICK row : row = [withdrawals[d] EXCEPT !.status = "REJECTED"]
    OBVIOUS
  <2>6. PICK txn : txn = [walletTxn[ref] EXCEPT !.status = "CANCELLED"]
    OBVIOUS
  <2>7. /\ call' = [call EXCEPT ![w] = Idle]
        /\ walletTxn' = [walletTxn EXCEPT ![ref] = txn]
        /\ withdrawals' = [withdrawals EXCEPT ![d] = row]
        /\ UNCHANGED journal
    BY <1>3, <1>18, <2>1, <2>2, <2>5, <2>6 DEF Wdr!RejectWithdrawal, Wdr!End, Wdr!Idle, Idle
  <2>8. /\ row.status = "REJECTED"
        /\ row.investor = withdrawals[d].investor /\ row.amount = withdrawals[d].amount
        /\ txn.status = "CANCELLED"
        /\ txn.investor = walletTxn[ref].investor /\ txn.amount = walletTxn[ref].amount
    BY <1>2, <2>5, <2>6 DEF Wdr!WithdrawalRow, Txn
  <2>9. walletTxn'[ref] = txn /\ withdrawals'[d] = row /\ journal'[ref] = <<>>
    BY <1>2, <2>4, <2>7
  <2>10. Held(d)'
    BY <2>2, <2>3, <2>8, <2>9 DEF Held
  <2>11. MirroredAt(ref)'
    BY <2>8, <2>9 DEF MirroredAt
  <2> QED
    BY <1>2, <1>9, <2>2, <2>7, <2>10, <2>11
<1>19. CASE Wdr!WithdrawalStep(w)
  BY <1>11, <1>12, <1>15, <1>16, <1>17, <1>18, <1>19 DEF Wdr!WithdrawalStep
<1> QED
  BY <1>1, <1>10, <1>14, <1>19 DEF Wdr!WithdrawalNext

(* An amount asked for is still no less than the opportunity's minimum when  *)
(* it is invested, and an investment is there to default.                    *)
LEMMA InvestingSerial ==
  ASSUME SerialInv, OneAtATime, NEW w \in Workers, Investing(w)
  PROVE  SerialKept
<1>1. /\ UNCHANGED <<deposits, withdrawals, repayments>>
      /\ Inv!InvestmentNext(w)
  BY DEF Investing
<1>2. /\ PlatformInv /\ call \in [Workers -> Calls]
      /\ walletTxn \in [References -> Txn] /\ journal \in [References -> Seq(Entry)]
      /\ Mirrored
      /\ \A v \in InvestmentIds : Rep!InvestmentWellFormed(v)
  BY SerialTables DEF SerialInv, Rep!RepaymentRowsInv
<1>3. CallIsCurrent(call[w])
  BY DEF SerialInv
<1>4. ASSUME call' = [call EXCEPT ![w] = Idle], Mirrored'
      PROVE  SerialKept
  <2>1. DepositsDecided' /\ ReservationsHeld' /\ Rep!AccruedAtMostOnce'
    <3>1. \A r \in References : r[1] \in {"DEPOSIT", "WITHDRAWAL", "ROI_ACCRUAL"} =>
            journal'[r] = journal[r] /\ walletTxn'[r] = walletTxn[r]
      BY <1>2, InvestingServes DEF Serves
    <3> QED
      BY <1>1, <3>1, DecidedKept, HeldKept, AccruedKept DEF SerialInv
  <2> QED
    BY <1>4, <2>1, CommitSerial
<1>5. ASSUME NEW i \in Investors, NEW o \in Opportunities, NEW a \in Amounts,
             Inv!StartInvest(w, i, o, a)
      PROVE  SerialKept
  <2>1. PICK c : c = [Idle EXCEPT !.next = "lockOpportunity", !.investor = i, !.key = o, !.amount = a]
    OBVIOUS
  <2>2. /\ call' = [call EXCEPT ![w] = c]
        /\ a >= 10 * Minimum[o]
        /\ UNCHANGED <<walletTxn, journal, moneyTables>>
    BY <1>1, <1>5, <2>1 DEF Inv!StartInvest, Inv!Begin, Inv!Idle, Idle, moneyTables,
         Inv!investmentTables, investmentTables
  <2>3. CallIsCurrent(c)
    BY <2>1, <2>2 DEF Idle, CallIsCurrent
  <2> QED
    BY <2>2, <2>3, MoveSerial
<1>6. ASSUME Inv!LockOpportunity(w) \/ Inv!SumInvestorCredits(w) \/ Inv!SumInvestorDebits(w)
      PROVE  SerialKept
  <2>1. UNCHANGED <<walletTxn, journal, moneyTables>>
    BY <1>1, <1>6 DEF Inv!LockOpportunity, Inv!SumInvestorCredits, Inv!SumInvestorDebits,
         moneyTables, Inv!investmentTables, investmentTables
  <2>2. call[w].next \in {"lockOpportunity", "sumInvestorCredits", "sumInvestorDebits"}
    BY <1>6 DEF Inv!LockOpportunity, Inv!SumInvestorCredits, Inv!SumInvestorDebits
  <2>3. PICK s, n : /\ s \in {"sumInvestorCredits", "sumInvestorDebits", "createInvestment"}
                    /\ \/ call' = [call EXCEPT ![w].next = s, ![w].seen = n]
                       \/ call' = [call EXCEPT ![w].next = s, ![w].total = n]
                       \/ call' = [call EXCEPT ![w] = Idle]
    BY <1>6 DEF Inv!LockOpportunity, Inv!SumInvestorCredits, Inv!SumInvestorDebits, Inv!Go,
         Inv!End, Inv!Idle, Idle
  <2>4. CASE call' = [call EXCEPT ![w] = Idle]
    BY <2>1, <2>4, EndSerial
  <2>5. ASSUME NEW c, call' = [call EXCEPT ![w] = c], c.next = s, c.amount = call[w].amount,
               c.key = call[w].key
        PROVE  SerialKept
    <3>1. CallIsCurrent(c)
      BY <1>3, <2>2, <2>3, <2>5 DEF CallIsCurrent
    <3> QED
      BY <2>1, <2>5, <3>1, MoveSerial
  <2>6. CASE call' = [call EXCEPT ![w].next = s, ![w].seen = n]
    <3>1. PICK c : c = [call[w] EXCEPT !.next = s, !.seen = n]
      OBVIOUS
    <3>2. call' = [call EXCEPT ![w] = c] /\ c.next = s /\ c.amount = call[w].amount
          /\ c.key = call[w].key
      BY <1>2, <2>6, <3>1 DEF Calls
    <3> QED
      BY <2>5, <3>2
  <2>7. CASE call' = [call EXCEPT ![w].next = s, ![w].total = n]
    <3>1. PICK c : c = [call[w] EXCEPT !.next = s, !.total = n]
      OBVIOUS
    <3>2. call' = [call EXCEPT ![w] = c] /\ c.next = s /\ c.amount = call[w].amount
          /\ c.key = call[w].key
      BY <1>2, <2>7, <3>1 DEF Calls
    <3> QED
      BY <2>5, <3>2
  <2> QED
    BY <2>3, <2>4, <2>6, <2>7
<1>7. ASSUME NEW v \in InvestmentIds, Inv!CreateInvestment(w, v)
      PROVE  SerialKept
  <2>1. PICK ref \in References : /\ ref = Inv!InvestmentRef(v)
                                  /\ ref = Rep!InvestmentRef(v)
                                  /\ ref[1] = "INVESTMENT"
    <3>1. /\ InvestmentRef(v) \in References
          /\ InvestmentRef(v)[1] = "INVESTMENT"
          /\ Inv!InvestmentRef(v) = InvestmentRef(v)
          /\ Rep!InvestmentRef(v) = InvestmentRef(v)
      BY DEF References, Inv!InvestmentRef, Rep!InvestmentRef, InvestmentRef
    <3> QED
      BY <3>1
  <2>2. PICK i, a, e : /\ i = call[w].investor
                       /\ a = Inv!Column(call[w].amount)
                       /\ e = [investor |-> i, amount |-> a]
    OBVIOUS
  <2>3. /\ call' = [call EXCEPT ![w] = Idle]
        /\ journal' = [journal EXCEPT ![ref] = Append(@, e)]
        /\ walletTxn' = [walletTxn EXCEPT ![ref] = [status |-> "POSTED", investor |-> i,
                                                    amount |-> a]]
        /\ investments[v] = Inv!NoInvestment
    BY <1>7, <2>1, <2>2 DEF Inv!CreateInvestment, Inv!PostJournal, Inv!Posted, Inv!CreateTxn,
         Inv!WithTxn, Inv!End, Inv!Idle, Idle
  <2>4. journal[ref] = <<>>
    <3>1. v \notin Rep!Invested
      BY <2>3 DEF Rep!Invested, Inv!NoInvestment
    <3> QED
      BY <1>2, <2>1, <3>1 DEF Rep!InvestmentWellFormed
  <2>5. /\ journal'[ref] = <<e>>
        /\ walletTxn'[ref] = [status |-> "POSTED", investor |-> i, amount |-> a]
        /\ \A r \in References \ {ref} : journal'[r] = journal[r] /\ walletTxn'[r] = walletTxn[r]
    BY <1>2, <2>3, <2>4
  <2>6. MirroredAt(ref)'
    BY <2>1, <2>2, <2>5 DEF MirroredAt, WalletKinds
  <2>7. Mirrored'
    BY <1>2, <2>5, <2>6, MirroredKept
  <2> QED
    BY <1>4, <2>3, <2>7
<1>8. ASSUME NEW v \in InvestmentIds, Inv!StartMarkDefaulted(w, v)
      PROVE  SerialKept
  <2>1. PICK c : c = [Idle EXCEPT !.next = "markDefaulted", !.id = v]
    OBVIOUS
  <2>2. /\ call' = [call EXCEPT ![w] = c]
        /\ investments[v].status = "ACTIVE"
        /\ UNCHANGED <<walletTxn, journal, moneyTables>>
    BY <1>1, <1>8, <2>1 DEF Inv!StartMarkDefaulted, Inv!Begin, Inv!Idle, Idle, moneyTables,
         Inv!investmentTables, investmentTables
  <2>3. CallIsCurrent(c)
    BY <2>1, <2>2 DEF Idle, CallIsCurrent
  <2> QED
    BY <2>2, <2>3, MoveSerial
<1>9. ASSUME Inv!MarkDefaulted(w)
      PROVE  SerialKept
  <2>1. Mirrored'
    BY <1>1, <1>2, <1>9, DefaultKeepsRows
  <2>2. call' = [call EXCEPT ![w] = Idle]
    BY <1>9 DEF Inv!MarkDefaulted, Inv!End, Inv!Idle, Idle
  <2> QED
    BY <1>4, <2>1, <2>2
<1> QED
  BY <1>1, <1>5, <1>6, <1>7, <1>8, <1>9 DEF Inv!InvestmentNext, Inv!InvestmentStep

(* The row of an accrual is still unaccrued, and the total of a repayment is *)
(* still what is repaid with it.                                             *)
LEMMA RepayingSerial ==
  ASSUME SerialInv, OneAtATime, NEW w \in Workers, Repaying(w)
  PROVE  SerialKept
<1>1. /\ UNCHANGED <<deposits, withdrawals>>
      /\ Rep!RepaymentNext(w)
  BY DEF Repaying
<1>2. /\ PlatformInv /\ call \in [Workers -> Calls]
      /\ journal \in [References -> Seq(Entry)]
      /\ \A v \in InvestmentIds : Rep!InvestmentWellFormed(v)
      /\ Rep!RepayCallWellFormed(call[w])
      /\ Rep!AccruedAtMostOnce
  BY SerialTables DEF SerialInv, Rep!RepaymentRowsInv
<1>3. CallIsCurrent(call[w])
  BY DEF SerialInv
<1>4. ASSUME call' = [call EXCEPT ![w] = Idle], Rep!AccruedAtMostOnce'
      PROVE  SerialKept
  <2>1. Mirrored'
    BY <1>2, RepayingKeepsRows DEF SerialInv
  <2>2. DepositsDecided' /\ ReservationsHeld'
    <3>1. \A r \in References : r[1] \in {"DEPOSIT", "WITHDRAWAL"} =>
            journal'[r] = journal[r] /\ walletTxn'[r] = walletTxn[r]
      BY <1>2, RepayingServes DEF Serves, RepaidKinds
    <3> QED
      BY <1>1, <3>1, DecidedKept, HeldKept DEF SerialInv
  <2> QED
    BY <1>4, <2>1, <2>2, CommitSerial
<1>5. ASSUME NEW c, call' = [call EXCEPT ![w] = c], CallIsCurrent(c),
             UNCHANGED <<walletTxn, journal, investmentTables, repayments>>
      PROVE  SerialKept
  BY <1>1, <1>5, MoveSerial DEF moneyTables
<1>6. ASSUME NEW v \in InvestmentIds, NEW k \in 1 .. MaxPeriods, Rep!StartAccrueRoi(w, v, k)
      PROVE  SerialKept
  <2>1. PICK c : c = [Idle EXCEPT !.next = "accrueRoi", !.id = v, !.period = k]
    OBVIOUS
  <2>2. /\ call' = [call EXCEPT ![w] = c]
        /\ Rep!MayAccrue(v, k)
        /\ UNCHANGED <<walletTxn, journal, investmentTables, repayments>>
    BY <1>6, <2>1 DEF Rep!StartAccrueRoi, Rep!Begin, Rep!Idle, Idle, Rep!investmentTables,
         investmentTables
  <2>3. CallIsCurrent(c)
    BY <2>1, <2>2 DEF Idle, CallIsCurrent
  <2> QED
    BY <1>5, <2>2, <2>3
<1>7. ASSUME NEW v \in InvestmentIds, NEW k \in 0 .. MaxPeriods, NEW payment \in Payments,
             Rep!StartRecordRepayment(w, v, k, payment)
      PROVE  SerialKept
  <2>1. PICK s \in {"sumRepaid", "checkSchedule"} :
          s = IF k = 0 THEN "sumRepaid" ELSE "checkSchedule"
    OBVIOUS
  <2> DEFINE c == [Idle EXCEPT !.next = s, !.id = v, !.period = k, !.amount = payment.principal,
                               !.roi = payment.roi, !.other = payment.other]
  <2>2. /\ call' = [call EXCEPT ![w] = c]
        /\ investments[v].status = "ACTIVE"
        /\ UNCHANGED <<walletTxn, journal, investmentTables, repayments>>
    BY <1>7, <2>1 DEF Rep!StartRecordRepayment, Rep!MayRecord, Rep!Begin, Rep!Idle, Idle,
         Rep!investmentTables, investmentTables
  <2>3. c.next = s /\ c.id = v
    BY DEF Idle
  <2> HIDE DEF c
  <2>4. CallIsCurrent(c)
    BY <2>1, <2>2, <2>3 DEF CallIsCurrent
  <2> QED
    BY <1>5, <2>2, <2>4
<1>8. ASSUME NEW r \in RepaymentIds, Rep!StartDisburse(w, r)
      PROVE  SerialKept
  <2>1. PICK c : c = [Idle EXCEPT !.next = "disburse", !.id = r]
    OBVIOUS
  <2>2. /\ call' = [call EXCEPT ![w] = c]
        /\ repayments[r].status = "RECEIVED"
        /\ UNCHANGED <<walletTxn, journal, investmentTables, repayments>>
    BY <1>8, <2>1 DEF Rep!StartDisburse, Rep!Begin, Rep!Idle, Idle, Rep!investmentTables,
         investmentTables
  <2>3. CallIsCurrent(c)
    BY <2>1, <2>2 DEF Idle, CallIsCurrent
  <2> QED
    BY <1>5, <2>2, <2>3
<1>9. ASSUME \/ Rep!AccrueRoiFails(w) \/ Rep!DisburseFails(w)
             \/ Rep!CheckSchedule(w) \/ Rep!SumSchedulePaid(w) \/ Rep!LockSchedule(w)
      PROVE  SerialKept
  <2>1. UNCHANGED <<walletTxn, journal, moneyTables>>
    BY <1>1, <1>9 DEF Rep!AccrueRoiFails, Rep!DisburseFails, Rep!CheckSchedule,
         Rep!SumSchedulePaid, Rep!LockSchedule, Rep!investmentTables, investmentTables, moneyTables
  <2>2. \/ call' = [call EXCEPT ![w] = Idle]
        \/ /\ call[w].next \in {"checkSchedule", "sumSchedulePaid", "lockSchedule"}
           /\ \E s \in {"sumSchedulePaid", "lockSchedule", "sumRepaid"} : \E n :
                call' = [call EXCEPT ![w].next = s, ![w].seen = n]
    BY <1>9 DEF Rep!AccrueRoiFails, Rep!DisburseFails, Rep!CheckSchedule, Rep!SumSchedulePaid,
         Rep!LockSchedule, Rep!Go, Rep!End, Rep!Idle, Idle
  <2>3. CASE call' = [call EXCEPT ![w] = Idle]
    BY <2>1, <2>3, EndSerial
  <2>4. ASSUME call[w].next \in {"checkSchedule", "sumSchedulePaid", "lockSchedule"},
               NEW s \in {"sumSchedulePaid", "lockSchedule", "sumRepaid"}, NEW n,
               call' = [call EXCEPT ![w].next = s, ![w].seen = n]
        PROVE  SerialKept
    <3>1. PICK c : c = [call[w] EXCEPT !.next = s, !.seen = n]
      OBVIOUS
    <3>2. call' = [call EXCEPT ![w] = c] /\ c.next = s /\ c.id = call[w].id
      BY <1>2, <2>4, <3>1 DEF Calls
    <3>3. CallIsCurrent(c)
      BY <1>3, <2>4, <3>2 DEF CallIsCurrent
    <3> QED
      BY <2>1, <3>2, <3>3, MoveSerial
  <2> QED
    BY <2>2, <2>3, <2>4
<1>10. ASSUME Rep!SumRepaid(w)
       PROVE  SerialKept
  <2>1. PICK n : n = Rep!Repaid(call[w].id) + Rep!Column(call[w].amount)
    OBVIOUS
  <2>2. PICK c : c = [call[w] EXCEPT !.next = "createRepayment", !.total = n]
    OBVIOUS
  <2>3. /\ call' = [call EXCEPT ![w] = c]
        /\ call[w].next = "sumRepaid"
        /\ UNCHANGED <<walletTxn, journal, investmentTables, repayments>>
    BY <1>2, <1>10, <2>1, <2>2 DEF Rep!SumRepaid, Rep!investmentTables, investmentTables, Calls
  <2>4. /\ c.next = "createRepayment" /\ c.id = call[w].id /\ c.amount = call[w].amount
        /\ c.total = n
    BY <1>2, <2>2 DEF Calls
  <2>5. CallIsCurrent(c)
    BY <1>3, <2>1, <2>3, <2>4 DEF CallIsCurrent, Rep!Column, Column
  <2> QED
    BY <1>5, <2>3, <2>5
<1>11. \A v \in InvestmentIds, k \in 1 .. MaxPeriods : Rep!AccrualRef(v, k) \in References
  BY DEF References, Rep!AccrualRef, AccrualRef
<1>12. ASSUME Rep!AccrueRoi(w)
       PROVE  SerialKept
  <2>1. /\ call[w].id \in InvestmentIds
        /\ call[w].period \in 1 .. MaxPeriods
        /\ ~schedules[call[w].id][call[w].period].accrued
    BY <1>2, <1>3, <1>12 DEF Rep!AccrueRoi, Rep!RepayCallWellFormed, Rep!Invested,
         Rep!InvestmentWellFormed, CallIsCurrent, Rep!MayAccrue
  <2>2. PICK ref \in References : ref = Rep!AccrualRef(call[w].id, call[w].period)
    BY <1>11, <2>1
  <2>3. PICK e : e = [investor |-> investments[call[w].id].investor,
                      amount |-> schedules[call[w].id][call[w].period].roiDue]
    OBVIOUS
  <2>4. /\ journal' = [journal EXCEPT ![ref] = Append(@, e)]
        /\ call' = [call EXCEPT ![w] = Idle]
    BY <1>12, <2>2, <2>3 DEF Rep!AccrueRoi, Rep!PostJournal, Rep!Posted, Rep!End, Rep!Idle, Idle
  <2>5. journal[ref] = <<>>
    BY <1>2, <2>1, <2>2 DEF Rep!InvestmentWellFormed, Rep!RowAccrued
  <2>6. journal'[ref] = <<e>> /\ \A r \in References \ {ref} : journal'[r] = journal[r]
    BY <1>2, <2>4, <2>5
  <2>7. Rep!AccruedAtMostOnce'
    <3> SUFFICES ASSUME NEW v \in InvestmentIds, NEW k \in 1 .. MaxPeriods
                 PROVE  Len(journal'[Rep!AccrualRef(v, k)]) <= 1
      BY DEF Rep!AccruedAtMostOnce
    <3>1. CASE Rep!AccrualRef(v, k) = ref
      <4>1. PICK s : s = <<e>> /\ Len(s) = 1
        <5>1. Len(<<e>>) = 1
          OBVIOUS
        <5> QED
          BY <5>1, Zenon
      <4>2. journal'[ref] = s
        BY <2>6, <4>1
      <4>3. Len(journal'[ref]) = 1
        BY <4>1, <4>2
      <4> QED
        BY <3>1, <4>3
    <3>2. CASE Rep!AccrualRef(v, k) # ref
      BY <1>2, <1>11, <2>6, <3>2 DEF Rep!AccruedAtMostOnce
    <3> QED
      BY <3>1, <3>2
  <2> QED
    BY <1>4, <2>4, <2>7
<1>13. ASSUME Rep!Disburse(w) \/ \E r \in RepaymentIds : Rep!CreateRepayment(w, r)
       PROVE  SerialKept
  <2>1. \A r \in References : r[1] = "ROI_ACCRUAL" => journal'[r] = journal[r]
    <3>1. ASSUME NEW r \in RepaymentIds, Rep!CreateRepayment(w, r), NEW x \in References,
                 x[1] = "ROI_ACCRUAL"
          PROVE  journal'[x] = journal[x]
      <4>1. PICK ref : ref = Rep!RoiCashRef(r)
        OBVIOUS
      <4>2. PICK e : \/ journal' = [journal EXCEPT ![ref] = Append(@, e)]
                     \/ UNCHANGED journal
        BY <3>1, <4>1 DEF Rep!CreateRepayment, Rep!PostJournal, Rep!Posted
      <4>3. ref[1] = "REPAYMENT_ROI_CASH"
        BY <4>1, RepReferences
      <4> QED
        BY <1>2, <3>1, <4>2, <4>3
    <3>2. ASSUME Rep!Disburse(w), NEW x \in References, x[1] = "ROI_ACCRUAL"
          PROVE  journal'[x] = journal[x]
      <4>1. x \notin {leg[1] : leg \in Rep!Legs(call[w].id)}
        BY <3>2, RepReferences DEF Rep!Legs
      <4> QED
        BY <3>2, <4>1, RepReferences DEF Rep!Disburse
    <3> QED
      BY <1>13, <3>1, <3>2
  <2>2. Rep!AccruedAtMostOnce'
    BY <1>2, <2>1, AccruedKept
  <2>3. call' = [call EXCEPT ![w] = Idle]
    BY <1>13 DEF Rep!Disburse, Rep!CreateRepayment, Rep!End, Rep!Idle, Idle
  <2> QED
    BY <1>4, <2>2, <2>3
<1> QED
  BY <1>1, <1>6, <1>7, <1>8, <1>9, <1>10, <1>12, <1>13 DEF Rep!RepaymentNext, Rep!RepaymentStep

LEMMA AbortingSerial ==
  ASSUME SerialInv, OneAtATime, NEW w \in Workers, Aborting(w)
  PROVE  SerialKept
  BY EndSerial DEF Aborting, Abort, End, tables, moneyTables

-----------------------------------------------------------------------------
(* What becomes of an investment.  Only an ACTIVE one is defaulted or closed, *)
(* and the repayment that makes up its principal closes it.                  *)
StatusesKept ==
  /\ \A v \in InvestmentIds : investments[v].status \in {"CLOSED", "DEFAULTED"} =>
       investments'[v].status = investments[v].status
  /\ MinimumsPositive /\ Rep!RepaidIsClosed => Rep!RepaidIsClosed'

LEMMA RepaidSame ==
  ASSUME \A r \in RepaymentIds : /\ repayments'[r].investment = repayments[r].investment
                                 /\ repayments'[r].period = repayments[r].period
                                 /\ repayments'[r].principal = repayments[r].principal
                                 /\ repayments'[r].roi = repayments[r].roi
                                 /\ repayments'[r].other = repayments[r].other
  PROVE  \A v : Rep!Repaid(v)' = Rep!Repaid(v)
<1> SUFFICES ASSUME NEW v PROVE Rep!Repaid(v)' = Rep!Repaid(v)
  OBVIOUS
<1>1. IP!Paid(v, 0)' = IP!Paid(v, 0) /\ IP!Repaid(v)' = IP!Repaid(v)
  BY SameAssumptions, IP!PaidSame
<1>2. IP!Repaid(v) = Rep!Repaid(v) /\ IP!Repaid(v)' = Rep!Repaid(v)'
  BY SameTotals DEF IP!Repaid, Rep!Repaid, IP!SumPrincipal, Rep!SumPrincipal
<1> QED
  BY <1>1, <1>2

LEMMA SameStatuses ==
  ASSUME UNCHANGED investments, \A v : Rep!Repaid(v)' = Rep!Repaid(v)
  PROVE  StatusesKept
  BY DEF StatusesKept, Rep!RepaidIsClosed

LEMMA InvestingStatuses ==
  ASSUME SerialInv, NEW w \in Workers, Investing(w)
  PROVE  StatusesKept
<1>1. /\ Inv!InvestmentNext(w) /\ UNCHANGED repayments
      /\ \A v : Rep!Repaid(v)' = Rep!Repaid(v)
  BY RepaidSame DEF Investing
<1>2. /\ PlatformInv /\ call \in [Workers -> Calls] /\ CallIsCurrent(call[w])
      /\ Inv!InvestCallWellFormed(call[w])
      /\ investments \in [InvestmentIds -> Inv!InvestmentRow]
      /\ repayments \in [RepaymentIds -> Rep!RepaymentRow]
      /\ \A r \in RepaymentIds : Rep!RepaymentWellFormed(r)
  BY SerialTables DEF SerialInv, PlatformInv, Inv!FundingInv, Rep!RepaymentRowsInv
<1>3. ASSUME NEW v \in InvestmentIds, NEW row, investments' = [investments EXCEPT ![v] = row],
             investments[v].status \notin {"CLOSED", "DEFAULTED"},
             MinimumsPositive /\ Rep!RepaidIsClosed => ~(Rep!Repaid(v) >= row.principal)
      PROVE  StatusesKept
  <2>1. \A u \in InvestmentIds \ {v} : investments'[u] = investments[u]
    BY <1>2, <1>3
  <2>2. investments'[v] = row
    BY <1>2, <1>3
  <2> QED
    BY <1>1, <1>3, <2>1, <2>2 DEF StatusesKept, Rep!RepaidIsClosed
<1>4. CASE UNCHANGED investments
  BY <1>1, <1>4, SameStatuses
<1>5. ASSUME NEW v \in InvestmentIds, Inv!CreateInvestment(w, v)
      PROVE  StatusesKept
  <2>1. PICK row : row = [status |-> "ACTIVE", investor |-> call[w].investor,
                          opportunity |-> call[w].key, principal |-> Inv!Column(call[w].amount)]
    OBVIOUS
  <2>2. /\ investments' = [investments EXCEPT ![v] = row]
        /\ investments[v] = Inv!NoInvestment
    BY <1>5, <2>1 DEF Inv!CreateInvestment
  <2>3. investments[v].status = "NONE"
    BY <2>2 DEF Inv!NoInvestment
  <2>4. Rep!Repaid(v) = 0
    <3>1. \A r \in RepaymentIds : repayments[r].investment # v
      <4>1. v \notin Rep!Invested
        BY <2>3 DEF Rep!Invested
      <4>2. None \notin InvestmentIds
        BY StoreAssumption DEF StoreAssumption, DocumentIds
      <4> QED
        BY <1>2, <4>1, <4>2 DEF Rep!RepaymentWellFormed, Rep!NoRepayment
    <3>2. {r \in RepaymentIds : repayments[r].investment = v} = {}
      BY <3>1
    <3>3. Rep!Repaid(v) = Rep!SumPrincipal({})
      BY <3>2 DEF Rep!Repaid
    <3> DEFINE f == [r \in {} |-> repayments[r].principal]
    <3>4. DOMAIN f = {}
      OBVIOUS
    <3>5. IP!Total(f) = 0
      <4> HIDE DEF f
      <4> QED
        BY <3>4, SameAssumptions, IP!TotalOfNothing
    <3> QED
      BY <3>3, <3>5, SameTotals DEF Rep!SumPrincipal
  <2>5. ASSUME MinimumsPositive PROVE row.principal >= 1
    <3>1. /\ call[w].key \in Opportunities
          /\ call[w].amount \in Nat
          /\ call[w].amount >= 10 * Minimum[call[w].key]
      BY <1>2, <1>5, StoreAssumption DEF Inv!CreateInvestment, CallIsCurrent, Calls,
           Inv!InvestCallWellFormed
    <3>2. Minimum[call[w].key] \in Nat /\ Minimum[call[w].key] > 0
      BY <2>5, <3>1, PlatformAssumption DEF PlatformAssumption, MinimumsPositive
    <3>3. call[w].amount >= 10
      BY <3>1, <3>2
    <3> QED
      BY <2>1, <3>1, <3>3 DEF Inv!Column
  <2>6. MinimumsPositive => ~(Rep!Repaid(v) >= row.principal)
    <3>1. row.principal \in Int
      BY <1>2, <2>1 DEF Calls, Inv!Column
    <3> QED
      BY <2>4, <2>5, <3>1
  <2> QED
    BY <1>3, <2>2, <2>3, <2>6
<1>6. ASSUME Inv!MarkDefaulted(w)
      PROVE  StatusesKept
  <2>1. PICK v \in InvestmentIds : v = call[w].id /\ investments[v].status = "ACTIVE"
    BY <1>2, <1>6 DEF Inv!MarkDefaulted, Inv!InvestCallWellFormed, CallIsCurrent
  <2>2. PICK row : row = [investments[v] EXCEPT !.status = "DEFAULTED"]
    OBVIOUS
  <2>3. investments' = [investments EXCEPT ![v] = row] /\ row.principal = investments[v].principal
    BY <1>2, <1>6, <2>1, <2>2 DEF Inv!MarkDefaulted, Inv!InvestmentRow
  <2>4. Rep!RepaidIsClosed => ~(Rep!Repaid(v) >= row.principal)
    BY <2>1, <2>3 DEF Rep!RepaidIsClosed, Rep!NoInvestment
  <2> QED
    BY <1>3, <2>1, <2>3, <2>4
<1>7. CASE /\ ~Inv!MarkDefaulted(w)
           /\ ~\E v \in InvestmentIds : Inv!CreateInvestment(w, v)
  <2>1. UNCHANGED investments
    BY <1>1, <1>7 DEF Inv!InvestmentNext, Inv!InvestmentStep, Inv!StartInvest,
         Inv!StartMarkDefaulted, Inv!LockOpportunity, Inv!SumInvestorCredits,
         Inv!SumInvestorDebits, Inv!investmentTables
  <2> QED
    BY <1>4, <2>1
<1> QED
  BY <1>5, <1>6, <1>7

LEMMA RepayingStatuses ==
  ASSUME SerialInv, NEW w \in Workers, Repaying(w)
  PROVE  StatusesKept
<1>1. Rep!RepaymentNext(w)
  BY DEF Repaying
<1>2. /\ PlatformInv /\ call \in [Workers -> Calls] /\ CallIsCurrent(call[w])
      /\ Rep!RepayCallWellFormed(call[w])
      /\ investments \in [InvestmentIds -> Inv!InvestmentRow]
      /\ repayments \in [RepaymentIds -> Rep!RepaymentRow]
  BY SerialTables DEF SerialInv, Rep!RepaymentRowsInv
<1>3. ASSUME NEW r \in RepaymentIds, Rep!CreateRepayment(w, r)
      PROVE  StatusesKept
  <2>1. PICK v \in InvestmentIds : v = call[w].id /\ investments[v].status = "ACTIVE"
    BY <1>2, <1>3 DEF Rep!CreateRepayment, Rep!RepayCallWellFormed, Rep!Invested, CallIsCurrent
  <2>2. PICK row : row = [status |-> "RECEIVED", investment |-> v, period |-> call[w].period,
                          principal |-> Rep!Column(call[w].amount),
                          roi |-> Rep!Column(call[w].roi), other |-> Rep!Column(call[w].other)]
    OBVIOUS
  <2>3. /\ repayments[r] = Rep!NoRepayment
        /\ repayments' = [repayments EXCEPT ![r] = row]
        /\ call[w].total = Rep!Repaid(v) + Column(call[w].amount)
    BY <1>2, <1>3, <2>1, <2>2 DEF Rep!CreateRepayment, CallIsCurrent
  <2>4. \/ investments' = [investments EXCEPT ![v].status = "CLOSED"]
        \/ UNCHANGED investments /\ ~(call[w].total >= investments[v].principal)
    BY <1>3, <2>1 DEF Rep!CreateRepayment, Rep!Closes
  <2>5. /\ \A u \in InvestmentIds \ {v} : investments'[u] = investments[u]
        /\ \/ investments'[v].status = "CLOSED"
           \/ /\ investments'[v] = investments[v]
              /\ ~(call[w].total >= investments[v].principal)
    BY <1>2, <2>1, <2>4 DEF Inv!InvestmentRow
  <2>6. \A u \in InvestmentIds :
          Rep!Repaid(u)' = Rep!Repaid(u) + IF u = v THEN Column(call[w].amount) ELSE 0
    <3> SUFFICES ASSUME NEW u \in InvestmentIds
                 PROVE  Rep!Repaid(u)' = Rep!Repaid(u) + IF u = v THEN Column(call[w].amount) ELSE 0
      OBVIOUS
    <3>1. row \in IP!RepaymentRow /\ repayments'[r] = row
      <4>1. Rep!RepaymentRowsInv'
        BY <1>2, RepayingKeepsRows
      <4>2. repayments' \in [RepaymentIds -> Rep!RepaymentRow]
        BY <4>1 DEF Rep!RepaymentRowsInv, Rep!RepaymentTypeOK
      <4> QED
        BY <1>2, <2>3, <4>2 DEF IP!RepaymentRow, Rep!RepaymentRow
    <3>2. /\ repayments \in [RepaymentIds -> IP!RepaymentRow]
          /\ repayments[r] = IP!NoRepayment
      BY <1>2, <2>3 DEF IP!RepaymentRow, Rep!RepaymentRow, IP!NoRepayment, Rep!NoRepayment
    <3>3. IP!Repaid(u)' = IP!Repaid(u) + IF row.investment = u THEN row.principal ELSE 0
      BY <2>3, <3>1, <3>2, SameAssumptions, IP!PaidGrows
    <3>4. row.investment = v /\ row.principal = Column(call[w].amount)
      BY <2>2 DEF Rep!Column, Column
    <3>5. IP!Repaid(u) = Rep!Repaid(u) /\ IP!Repaid(u)' = Rep!Repaid(u)'
      BY SameTotals DEF IP!Repaid, Rep!Repaid, IP!SumPrincipal, Rep!SumPrincipal
    <3> QED
      BY <3>3, <3>4, <3>5
  <2>7. /\ Rep!Repaid(v)' = call[w].total
        /\ \A u \in InvestmentIds \ {v} : Rep!Repaid(u)' = Rep!Repaid(u)
    <3>1. \A u \in InvestmentIds : Rep!Repaid(u) \in Nat
      <4>1. repayments \in [RepaymentIds -> IP!RepaymentRow]
        BY <1>2 DEF IP!RepaymentRow, Rep!RepaymentRow
      <4> QED
        BY <4>1, SameAssumptions, SameSums, IP!PaidNat
    <3> QED
      BY <2>3, <2>6, <3>1
  <2> QED
    BY <2>1, <2>5, <2>7 DEF StatusesKept, Rep!RepaidIsClosed
<1>4. ASSUME ~\E r \in RepaymentIds : Rep!CreateRepayment(w, r)
      PROVE  StatusesKept
  <2>1. UNCHANGED investments
    BY <1>1, <1>4 DEF Rep!RepaymentNext, Rep!RepaymentStep, Rep!StartAccrueRoi,
         Rep!StartRecordRepayment, Rep!StartDisburse, Rep!CheckSchedule, Rep!SumSchedulePaid,
         Rep!LockSchedule, Rep!SumRepaid, Rep!AccrueRoi, Rep!AccrueRoiFails, Rep!Disburse,
         Rep!DisburseFails, Rep!investmentTables
  <2>2. CASE Rep!Disburse(w)
    <3>1. PICK r : repayments' = [repayments EXCEPT ![r].status = "DISBURSED"]
      BY <2>2 DEF Rep!Disburse
    <3>2. \A x \in RepaymentIds : /\ repayments'[x].investment = repayments[x].investment
                                  /\ repayments'[x].period = repayments[x].period
                                  /\ repayments'[x].principal = repayments[x].principal
                                  /\ repayments'[x].roi = repayments[x].roi
                                  /\ repayments'[x].other = repayments[x].other
      BY <1>2, <3>1 DEF Rep!RepaymentRow
    <3> QED
      BY <2>1, <3>2, RepaidSame, SameStatuses
  <2>3. CASE ~Rep!Disburse(w)
    <3>1. UNCHANGED repayments
      BY <1>1, <1>4, <2>3 DEF Rep!RepaymentNext, Rep!RepaymentStep, Rep!StartAccrueRoi,
           Rep!StartRecordRepayment, Rep!StartDisburse, Rep!CheckSchedule, Rep!SumSchedulePaid,
           Rep!LockSchedule, Rep!SumRepaid, Rep!AccrueRoi, Rep!AccrueRoiFails, Rep!DisburseFails
    <3> QED
      BY <2>1, <3>1, RepaidSame, SameStatuses
  <2> QED
    BY <2>2, <2>3
<1> QED
  BY <1>3, <1>4

-----------------------------------------------------------------------------
(* Nothing is asked, posted, deposited or invested at the start.             *)
LEMMA InitInv == Init => PlatformInv
<1> SUFFICES ASSUME Init PROVE PlatformInv
  OBVIOUS
<1>1. /\ walletTxn = [r \in References |-> NoTxn]
      /\ journal = [r \in References |-> <<>>]
      /\ call = [w \in Workers |-> Idle]
      /\ investorStatus = [i \in Investors |-> "NONE"]
      /\ activationAudits = [i \in Investors |-> 0]
  BY DEF Init, StoreInit, Onb!OnboardingTablesInit
<1>2. /\ deposits = [d \in DepositIds |-> Dep!NoDeposit]
      /\ withdrawals = [d \in WithdrawalIds |-> Wdr!NoWithdrawal]
      /\ opportunities = [o \in Opportunities |-> "OPEN"]
      /\ investments = [v \in InvestmentIds |-> Inv!NoInvestment]
      /\ schedules = [v \in InvestmentIds |-> <<>>]
      /\ repayments = [r \in RepaymentIds |-> Rep!NoRepayment]
  BY DEF Init, Dep!DepositTablesInit, Wdr!WithdrawalTablesInit, Inv!InvestmentTablesInit,
       Rep!RepaymentTablesInit
<1>3. StoreTypeOK
  <2>1. NoTxn \in Txn /\ <<>> \in Seq(Entry)
    BY DEF NoTxn, Txn, TxnStatus
  <2> QED
    BY <1>1, <2>1, IdleIsACall DEF StoreTypeOK
<1>4. \A w \in Workers : call[w].next = "idle"
  BY <1>1, IdleAdmitted
<1>5. Dep!DepositsInv
  <2>1. Dep!TypeOK
    BY <1>2, <1>3, SameStore DEF Dep!TypeOK, Dep!NoDeposit, Dep!DepositRow
  <2>2. ASSUME NEW d \in DepositIds
        PROVE  deposits[d] = Dep!NoDeposit /\ Dep!Uncredited(d)
    <3>1. Dep!DepositRef(d) \in References
      BY DEF References, DepositRef, Dep!DepositRef
    <3> QED
      BY <1>1, <1>2, <3>1 DEF Dep!Uncredited, Dep!NoTxn, NoTxn
  <2>3. Dep!RowsWellFormed
    BY <2>2 DEF Dep!RowsWellFormed, Dep!NoDeposit
  <2>4. Dep!CallsWellFormed
    BY <1>4 DEF Dep!CallsWellFormed, Dep!CallWellFormed
  <2> QED
    BY <2>1, <2>3, <2>4 DEF Dep!DepositsInv
<1>6. Wdr!WithdrawalsInv
  <2>1. Wdr!TypeOK
    BY <1>2, <1>3, SameStore DEF Wdr!TypeOK, Wdr!NoWithdrawal, Wdr!WithdrawalRow
  <2>2. ASSUME NEW d \in WithdrawalIds
        PROVE  Wdr!RowWellFormed(d)
    <3>1. Wdr!WithdrawalRef(d) \in References
      BY DEF References, WithdrawalRef, Wdr!WithdrawalRef
    <3>2. /\ walletTxn[Wdr!WithdrawalRef(d)].status = "NONE"
          /\ journal[Wdr!WithdrawalRef(d)] = <<>>
      BY <1>1, <3>1 DEF NoTxn
    <3>3. withdrawals[d] = Wdr!NoWithdrawal /\ withdrawals[d].status = "NONE"
      BY <1>2 DEF Wdr!NoWithdrawal
    <3> QED
      BY <3>2, <3>3 DEF Wdr!RowWellFormed, Wdr!PaidOut
  <2>3. \A w \in Workers : Wdr!CallWellFormed(call[w])
    BY <1>4 DEF Wdr!CallWellFormed
  <2> QED
    BY <2>1, <2>2, <2>3 DEF Wdr!WithdrawalsInv
<1>7. Inv!FundingInv
  <2>1. \A v \in InvestmentIds : investments[v].opportunity = None
    BY <1>2 DEF Inv!NoInvestment
  <2>2. ASSUME NEW o \in Opportunities PROVE Inv!Committed(o) = 0
    <3>1. {v \in InvestmentIds : investments[v].opportunity = o} = {}
      BY <2>1, StoreAssumption DEF StoreAssumption
    <3>2. Total([v \in {} |-> investments[v].principal]) = 0
      BY TotalOfNothing
    <3> QED
      BY <3>1, <3>2, SameTotals DEF Inv!Committed, Inv!Principal
  <2>3. investments \in [InvestmentIds -> Inv!InvestmentRow]
    BY <1>2 DEF Inv!NoInvestment, Inv!InvestmentRow
  <2>4. \A w \in Workers : /\ Inv!InvestCallWellFormed(call[w])
                           /\ \A o \in Opportunities : ~Inv!HoldsLock(w, o)
    BY <1>4 DEF Inv!InvestCallWellFormed, Inv!HoldsLock
  <2>5. Inv!TargetNeverExceeded
    BY <2>2, PlatformAssumption DEF PlatformAssumption, Inv!TargetNeverExceeded
  <2>6. Inv!ClosedOnlyWhenFull /\ opportunities \in [Opportunities -> {"OPEN", "FULLY_FUNDED"}]
    BY <1>2 DEF Inv!ClosedOnlyWhenFull
  <2> QED
    BY <1>3, <2>3, <2>4, <2>5, <2>6, SameStore
       DEF Inv!FundingInv, Inv!OneHolder, Inv!TotalIsCurrentUnderLock
<1>8. Rep!RepaymentRowsInv
  <2>1. Rep!Invested = {}
    BY <1>2 DEF Rep!Invested, Inv!NoInvestment
  <2>2. Rep!RepaymentTypeOK
    <3>1. Rep!NoRepayment \in Rep!RepaymentRow
      BY StoreAssumption DEF StoreAssumption, Rep!NoRepayment, Rep!RepaymentRow
    <3>2. Inv!NoInvestment \in Rep!InvestmentRow /\ <<>> \in Seq(Rep!ScheduleRow)
      BY DEF Inv!NoInvestment, Rep!InvestmentRow
    <3> QED
      BY <1>2, <1>3, <3>1, <3>2, SameRows DEF Rep!RepaymentTypeOK, Rep!TypeOK
  <2>3. ASSUME NEW v \in InvestmentIds PROVE Rep!InvestmentWellFormed(v)
    <3>1. journal[Rep!InvestmentRef(v)] = <<>>
      BY <1>1 DEF References, Rep!InvestmentRef, InvestmentRef
    <3>2. \A k \in 1 .. MaxPeriods : journal[Rep!AccrualRef(v, k)] = <<>>
      BY <1>1 DEF References, Rep!AccrualRef, AccrualRef
    <3>3. schedules[v] = <<>> /\ DOMAIN schedules[v] = {}
      BY <1>2
    <3>4. investments[v] = Rep!NoInvestment
      BY <1>2 DEF Inv!NoInvestment, Rep!NoInvestment
    <3> QED
      BY <2>1, <3>1, <3>2, <3>3, <3>4 DEF Rep!InvestmentWellFormed, Rep!RowAccrued
  <2>4. ASSUME NEW r \in RepaymentIds PROVE Rep!RepaymentWellFormed(r)
    <3>1. \A ref \in {Rep!RoiCashRef(r), Rep!RoiWalletRef(r), Rep!PrincipalRef(r)} :
            ref \in References
      BY DEF References, Rep!RoiCashRef, RoiCashRef, Rep!RoiWalletRef, RoiWalletRef,
           Rep!PrincipalRef, PrincipalRef
    <3>2. \A ref \in {Rep!RoiCashRef(r), Rep!RoiWalletRef(r), Rep!PrincipalRef(r)} :
            journal[ref] = <<>> /\ walletTxn[ref] = Rep!NoTxn
      BY <1>1, <3>1 DEF NoTxn, Rep!NoTxn
    <3>3. repayments[r] = Rep!NoRepayment
      BY <1>2
    <3> QED
      BY <3>2, <3>3 DEF Rep!RepaymentWellFormed, Rep!RoiReceived, Rep!LegDisbursed, Rep!NoRepayment
  <2>5. Rep!PaidIsPaid /\ Rep!ClosedIsRepaid
    BY <1>2 DEF Rep!PaidIsPaid, Rep!ClosedIsRepaid, Inv!NoInvestment
  <2>6. \A w \in Workers : Rep!RepayCallWellFormed(call[w])
    BY <1>4 DEF Rep!RepayCallWellFormed
  <2> QED
    BY <2>2, <2>3, <2>4, <2>5, <2>6 DEF Rep!RepaymentRowsInv
<1>9. InvestorsFit
  <2>1. OnlyActiveInvestorsTransact
    BY <1>2 DEF OnlyActiveInvestorsTransact, Dep!NoDeposit, Wdr!NoWithdrawal, Inv!NoInvestment
  <2> QED
    BY <1>4, <2>1 DEF InvestorsFit
<1> QED
  BY <1>1, <1>5, <1>6, <1>7, <1>8, <1>9 DEF PlatformInv

LEMMA StepInv == PlatformInv /\ [Next]_vars => PlatformInv'
  BY StutterKeepsInv, OnboardingKeepsInv, DepositingKeepsInv, WithdrawingKeepsInv,
     InvestingKeepsInv, RepayingKeepsInv, AbortingKeepsInv DEF Next

(* What each service relies on holds throughout, whatever the others do: the *)
(* inductive invariants of deposits, withdrawals and investments, and that   *)
(* of the rows of repayments.                                                *)
THEOREM InvHolds == Spec => []PlatformInv
<1> QED
  BY InitInv, StepInv, PTL DEF Spec

(* No document of an investor exists before the investor's activation, and   *)
(* activation is never taken back: a request that passed the check may       *)
(* commit however much later.                                                *)
THEOREM DocumentsNeedActivation == Spec => []OnlyActiveInvestorsTransact
<1>1. PlatformInv => OnlyActiveInvestorsTransact
  BY DEF PlatformInv, InvestorsFit
<1> QED
  BY <1>1, InvHolds, PTL

(* A deposit is posted on the word of a user other than the one who recorded *)
(* it, and an APPROVED one has its entry and its POSTED wallet row, however   *)
(* its approvals overlap, fail or are cut short, whatever else is served.     *)
LEMMA DepositsAreChecked == PlatformInv => CreditNeedsChecker /\ ApprovedIsCredited
<1> SUFFICES ASSUME PlatformInv PROVE CreditNeedsChecker /\ ApprovedIsCredited
  OBVIOUS
<1>1. Dep!CreditNeedsChecker
  BY DEF PlatformInv, Dep!DepositsInv, Dep!RowsWellFormed, Dep!CreditNeedsChecker,
       Dep!Credited, Dep!Uncredited, Dep!CreditedByChecker
<1>2. Dep!ApprovedIsCredited
  <2> SUFFICES ASSUME NEW d \in DepositIds, deposits[d].status = "APPROVED"
               PROVE  Dep!Credited(d) /\ walletTxn[Dep!DepositRef(d)].status = "POSTED"
    BY DEF Dep!ApprovedIsCredited
  <2>1. Dep!CreditedByChecker(d)
    BY DEF PlatformInv, Dep!DepositsInv, Dep!RowsWellFormed
  <2>2. Len(<<>>) = 0
    OBVIOUS
  <2> QED
    BY <2>1, <2>2 DEF Dep!CreditedByChecker, Dep!Credited
<1> QED
  BY <1>1, <1>2 DEF CreditNeedsChecker, ApprovedIsCredited

LEMMA PayoutsAreChecked == PlatformInv => PayoutNeedsChecker /\ DebitHasEntry
<1> SUFFICES ASSUME PlatformInv PROVE PayoutNeedsChecker /\ DebitHasEntry
  OBVIOUS
<1>1. None \notin Users
  BY StoreAssumption DEF StoreAssumption
<1>2. Wdr!PayoutNeedsChecker
  BY <1>1 DEF PlatformInv, Wdr!WithdrawalsInv, Wdr!RowWellFormed, Wdr!PaidOut, Wdr!Checked,
       Wdr!PayoutNeedsChecker
<1>3. Wdr!DebitHasEntry
  BY DEF PlatformInv, Wdr!WithdrawalsInv, Wdr!RowWellFormed, Wdr!DebitHasEntry
<1> QED
  BY <1>2, <1>3 DEF PayoutNeedsChecker, DebitHasEntry

(* A deposit is posted only on the word of a user other than the one who      *)
(* recorded it, whatever the other services write meanwhile.                  *)
THEOREM MakerIsNotChecker == Spec => []CreditNeedsChecker
<1> QED
  BY DepositsAreChecked, InvHolds, PTL

(* No failed, aborted or overlapping approval leaves a deposit APPROVED       *)
(* without its entry and its wallet row, whatever the other services write.   *)
THEOREM ApprovalIsWhole == Spec => []ApprovedIsCredited
<1> QED
  BY DepositsAreChecked, InvHolds, PTL

(* Money leaves the bank only on the decision of someone other than the user  *)
(* who requested it, for any number of overlapping approvals, rejections and  *)
(* completions, retried or cut short: the approver is read in another         *)
(* transaction than the one that posts.                                       *)
THEOREM PayoutIsChecked == Spec => []PayoutNeedsChecker
<1> QED
  BY PayoutsAreChecked, InvHolds, PTL

(* No wallet is debited for a withdrawal, and none is COMPLETED, without an   *)
(* entry in the ledger: the three writes commit together or not at all, and   *)
(* what later overwrites the row does not take the entry back.                *)
THEOREM DebitIsPosted == Spec => []DebitHasEntry
<1> QED
  BY PayoutsAreChecked, InvHolds, PTL

(* A payment reference names one deposit of the whole platform at most,       *)
(* however many requests carry it at once: no other service writes deposits.  *)
THEOREM ReferenceIsKey == Spec => []OneDepositPerReference
<1>1. Init => OneDepositPerReference
  BY DEF Init, Dep!DepositTablesInit, OneDepositPerReference, Dep!OneDepositPerReference, Dep!NoDeposit
<1>2. DP!OneDepositPerReference <=> OneDepositPerReference
  BY DEF DP!OneDepositPerReference, OneDepositPerReference, Dep!OneDepositPerReference
<1>3. DP!OneDepositPerReference' <=> OneDepositPerReference'
  BY <1>2, PTL
<1>4. PlatformInv /\ OneDepositPerReference /\ [Next]_vars => OneDepositPerReference'
  <2> SUFFICES ASSUME PlatformInv, OneDepositPerReference, [Next]_vars
               PROVE  OneDepositPerReference'
    OBVIOUS
  <2>1. CASE UNCHANGED deposits
    BY <2>1 DEF OneDepositPerReference, Dep!OneDepositPerReference
  <2>2. ASSUME NEW w \in Workers, Depositing(w)
        PROVE  OneDepositPerReference'
    <3>1. DP!DepositsInv /\ [DP!Next]_(DP!depositVars)
      BY <2>2, SameDeposits, SameDepositing DEF PlatformInv, DP!Next, Depositing
    <3> QED
      BY <1>2, <1>3, <3>1, SameAssumptions, DP!ReferenceStep
  <2> QED
    BY <2>1, <2>2 DEF Next, vars, tables, Onboarding, Withdrawing, Investing, Repaying, Aborting
<1> QED
  BY <1>1, <1>4, InvHolds, PTL DEF Spec

(* The guarantees the services give alone, they give together: no step of one*)
(* undoes what another has checked.                                          *)
THEOREM GuaranteesCompose == Spec => []ServicesKeepTheirWord
<1>1. PlatformInv => ServicesKeepTheirWord
  <2> SUFFICES ASSUME PlatformInv PROVE ServicesKeepTheirWord
    OBVIOUS
  <2>1. Rep!DisbursedOnceAndWhole
    BY SameAssumptions, SameRows, SameDisbursed, IP!InvDisbursedWhole DEF PlatformInv
  <2>2. Rep!InvestmentPayableAgrees
    BY SameAssumptions, SameRows, SamePayable, IP!InvPayable DEF PlatformInv
  <2> QED
    BY <2>1, <2>2, DepositsAreChecked, PayoutsAreChecked
       DEF PlatformInv, Inv!FundingInv, Rep!RepaymentRowsInv, ServicesKeepTheirWord,
           CreditNeedsChecker, PayoutNeedsChecker, DebitHasEntry
<1> QED
  BY <1>1, InvHolds, PTL
-----------------------------------------------------------------------------
(* One request at a time: what holds of the platform then, and not when      *)
(* requests overlap.                                                         *)
LEMMA SerialInit == OneAtATime /\ Init => SerialInv /\ Rep!RepaidIsClosed
<1> SUFFICES ASSUME Init PROVE SerialInv /\ Rep!RepaidIsClosed
  OBVIOUS
<1>1. /\ walletTxn = [r \in References |-> NoTxn]
      /\ journal = [r \in References |-> <<>>]
      /\ call = [w \in Workers |-> Idle]
      /\ withdrawals = [d \in WithdrawalIds |-> Wdr!NoWithdrawal]
      /\ investments = [v \in InvestmentIds |-> Inv!NoInvestment]
  BY DEF Init, StoreInit, Wdr!WithdrawalTablesInit, Inv!InvestmentTablesInit
<1>2. \A r \in References : /\ walletTxn[r] = NoTxn /\ walletTxn[r].status = "NONE"
                            /\ journal[r] = <<>>
  BY <1>1 DEF NoTxn
<1>3. \A w \in Workers : CallIsCurrent(call[w])
  <2>1. Idle.next = "idle"
    BY IdleAdmitted
  <2> QED
    BY <1>1, <2>1 DEF CallIsCurrent
<1>4. DepositsDecided
  <2>1. \A d \in DepositIds : Dep!DepositRef(d) \in References
    BY DEF References, DepositRef, Dep!DepositRef
  <2> QED
    BY <1>2, <2>1 DEF DepositsDecided, Dep!Uncredited, Dep!NoTxn, NoTxn
<1>5. ReservationsHeld
  <2>1. \A d \in WithdrawalIds : /\ WithdrawalRef(d) \in References
                                 /\ Wdr!WithdrawalRef(d) = WithdrawalRef(d)
                                 /\ withdrawals[d].status = "NONE"
    BY <1>1 DEF References, WithdrawalRef, Wdr!WithdrawalRef, Wdr!NoWithdrawal
  <2> QED
    BY <1>2, <2>1 DEF ReservationsHeld, Wdr!ReservationFollowsStatus
<1>6. Mirrored
  BY <1>2 DEF Mirrored, MirroredAt
<1>7. Rep!AccruedAtMostOnce
  <2>1. \A v \in InvestmentIds, k \in 1 .. MaxPeriods : Rep!AccrualRef(v, k) \in References
    BY DEF References, Rep!AccrualRef, AccrualRef
  <2>2. Len(<<>>) = 0
    OBVIOUS
  <2> QED
    BY <1>2, <2>1, <2>2 DEF Rep!AccruedAtMostOnce
<1>8. Rep!RepaidIsClosed
  BY <1>1 DEF Rep!RepaidIsClosed, Rep!NoInvestment, Inv!NoInvestment
<1> QED
  BY <1>3, <1>4, <1>5, <1>6, <1>7, <1>8, InitInv DEF SerialInv

LEMMA SerialStep ==
  ASSUME OneAtATime, SerialInv, [Next]_vars
  PROVE  SerialInv' /\ StatusesKept
<1>1. PlatformInv'
  BY StepInv DEF SerialInv
<1>2. ASSUME UNCHANGED vars
      PROVE  SerialKept /\ StatusesKept
  <2>1. UNCHANGED <<walletTxn, journal, call, moneyTables>>
    BY <1>2 DEF vars, storeVars, tables, moneyTables
  <2>2. UNCHANGED <<investments, repayments>>
    BY <2>1 DEF moneyTables, investmentTables
  <2> QED
    BY <2>1, <2>2, QuietSerial, RepaidSame, SameStatuses
<1>3. ASSUME NEW w \in Workers, Onboarding(w)
      PROVE  SerialKept /\ StatusesKept
  <2>1. UNCHANGED <<investments, repayments>>
    BY <1>3 DEF Onboarding, investmentTables
  <2> QED
    BY <1>3, <2>1, OnboardingSerial, RepaidSame, SameStatuses
<1>4. ASSUME NEW w \in Workers, Depositing(w)
      PROVE  SerialKept /\ StatusesKept
  <2>1. UNCHANGED <<investments, repayments>>
    BY <1>4 DEF Depositing, investmentTables
  <2> QED
    BY <1>4, <2>1, DepositingSerial, RepaidSame, SameStatuses
<1>5. ASSUME NEW w \in Workers, Withdrawing(w)
      PROVE  SerialKept /\ StatusesKept
  <2>1. UNCHANGED <<investments, repayments>>
    BY <1>5 DEF Withdrawing, investmentTables
  <2> QED
    BY <1>5, <2>1, WithdrawingSerial, RepaidSame, SameStatuses
<1>6. ASSUME NEW w \in Workers, Investing(w)
      PROVE  SerialKept /\ StatusesKept
  BY <1>6, InvestingSerial, InvestingStatuses
<1>7. ASSUME NEW w \in Workers, Repaying(w)
      PROVE  SerialKept /\ StatusesKept
  BY <1>7, RepayingSerial, RepayingStatuses
<1>8. ASSUME NEW w \in Workers, Aborting(w)
      PROVE  SerialKept /\ StatusesKept
  <2>1. UNCHANGED <<investments, repayments>>
    BY <1>8 DEF Aborting, tables, investmentTables
  <2> QED
    BY <1>8, <2>1, AbortingSerial, RepaidSame, SameStatuses
<1>9. SerialKept /\ StatusesKept
  BY <1>2, <1>3, <1>4, <1>5, <1>6, <1>7, <1>8 DEF Next
<1> QED
  BY <1>1, <1>9 DEF SerialInv, SerialKept

(* With one request served at a time, what a handler has checked is still so *)
(* when it commits, and the wallet's rows mirror the journal's.              *)
THEOREM SerialHolds == Spec /\ OneAtATime => []SerialInv
<1>1. OneAtATime /\ Init => SerialInv
  BY SerialInit
<1>2. OneAtATime /\ SerialInv /\ [Next]_vars => SerialInv' /\ OneAtATime'
  BY SerialStep DEF OneAtATime
<1> QED
  BY <1>1, <1>2, PTL DEF Spec

(* Both control accounts agree with the tables they summarise after every    *)
(* request: the wallet's rows (2010), and what is invested less what is      *)
(* disbursed (2020).                                                         *)
THEOREM LedgerHolds == Spec /\ OneAtATime => []LedgerAgrees
<1>1. SerialInv => LedgerAgrees
  <2> SUFFICES ASSUME SerialInv PROVE LedgerAgrees
    OBVIOUS
  <2>1. LedgerAgreesWithWallet
    BY SerialTables, MirroredAgrees DEF SerialInv
  <2>2. Rep!InvestmentPayableAgrees
    BY SerialTables, SameAssumptions, SameRows, SamePayable, IP!InvPayable
  <2> QED
    BY <2>1, <2>2 DEF LedgerAgrees
<1> QED
  BY <1>1, SerialHolds, PTL

(* A decision on a deposit or a withdrawal takes all of its effects and none *)
(* of the other's: a rejected deposit is nowhere in the ledger, a withdrawal *)
(* and its reservation say the same.                                         *)
THEOREM DecisionsHold == Spec /\ OneAtATime => []DecisionsAreWhole
<1>1. SerialInv => DecisionsAreWhole
  <2> SUFFICES ASSUME SerialInv PROVE DecisionsAreWhole
    OBVIOUS
  <2>1. Dep!RejectedNeverEffective
    BY DEF SerialInv, DepositsDecided, Dep!RejectedNeverEffective, Dep!Credited, Dep!Uncredited
  <2> QED
    BY <2>1 DEF SerialInv, ReservationsHeld, DecisionsAreWhole
<1> QED
  BY <1>1, SerialHolds, PTL

(* A CLOSED or DEFAULTED investment stays so.                                *)
THEOREM DecidedStays == Spec /\ OneAtATime => DecisionStays
<1> DEFINE Kept == \A v \in InvestmentIds :
                     investments[v].status \in {"CLOSED", "DEFAULTED"}
                       => investments'[v].status = investments[v].status
<1>1. OneAtATime /\ SerialInv /\ [Next]_vars => Kept
  BY SerialStep DEF StatusesKept
<1>2. OneAtATime => OneAtATime'
  BY DEF OneAtATime
<1>3. Spec /\ OneAtATime => [][Kept]_(Rep!repaymentVars)
  BY <1>1, <1>2, SerialHolds, PTL DEF Spec
<1> QED
  BY <1>3 DEF DecisionStays, Rep!DecisionStays

(* An investment whose principal is repaid is CLOSED by the repayment that   *)
(* makes it up, so long as nothing that rounds to no principal is invested.  *)
THEOREM RepaidCloses == Spec /\ OneAtATime /\ MinimumsPositive => []RepaidIsClosed
<1> DEFINE Serially == OneAtATime /\ MinimumsPositive
           Closing == SerialInv /\ Rep!RepaidIsClosed
<1>1. Serially /\ Init => Closing
  BY SerialInit
<1>2. Serially /\ Closing /\ [Next]_vars => Closing'
  BY SerialStep DEF StatusesKept
<1>3. Serially => Serially'
  BY DEF OneAtATime, MinimumsPositive
<1>4. Closing => RepaidIsClosed
  BY DEF RepaidIsClosed
<1> QED
  BY <1>1, <1>2, <1>3, <1>4, PTL DEF Spec
-----------------------------------------------------------------------------
(* The promise of the deposit workflow among the other services: their steps *)
(* are stutters of it.                                                       *)
LEMMA SamePromise ==
  /\ DP!Promise!Next <=> Promise!Next
  /\ UNCHANGED DP!Promise!vars <=> UNCHANGED Promise!vars
<1>1. \A d : DP!DepositRef(d) = DepositRef(d)
  BY DEF DP!DepositRef, DepositRef
<1>2. \A d, u : /\ DP!Promise!Request(d, u) <=> Promise!Request(d, u)
                /\ DP!Promise!Credit(d, u) <=> Promise!Credit(d, u)
  BY <1>1 DEF DP!Promise!Request, Promise!Request, DP!Promise!Credit, Promise!Credit
<1> QED
  BY <1>1, <1>2 DEF DP!Promise!Next, Promise!Next, DP!Promise!vars, Promise!vars

LEMMA ForeignStutters ==
  ASSUME PlatformInv, NEW kinds, NEW steps, Serves(kinds, steps), "DEPOSIT" \notin kinds,
         UNCHANGED deposits
  PROVE  UNCHANGED Promise!vars
<1>1. ASSUME NEW d \in DepositIds PROVE journal'[DepositRef(d)] = journal[DepositRef(d)]
  <2>1. DepositRef(d) \in References /\ DepositRef(d)[1] = "DEPOSIT"
    BY DEF References, DepositRef
  <2> QED
    BY <2>1 DEF Serves
<1> QED
  BY <1>1 DEF Promise!vars

LEMMA PromiseInit == Init => Promise!Init
<1> SUFFICES ASSUME Init PROVE Promise!Init
  OBVIOUS
<1>1. ASSUME NEW d \in DepositIds
      PROVE  /\ deposits[d].requestedBy = None
             /\ deposits[d].approvedBy = None
             /\ Len(journal[DepositRef(d)]) = 0
  <2>1. DepositRef(d) \in References
    BY DEF References
  <2>2. journal[DepositRef(d)] = <<>>
    BY <2>1 DEF Init, StoreInit
  <2> QED
    BY <2>2 DEF Init, Dep!DepositTablesInit, Dep!NoDeposit
<1> QED
  BY <1>1 DEF Promise!Init

LEMMA StepMaps == PlatformInv /\ [Next]_vars => [Promise!Next]_(Promise!vars)
<1> SUFFICES ASSUME PlatformInv, [Next]_vars PROVE Promise!Next \/ UNCHANGED Promise!vars
  OBVIOUS
<1>1. CASE UNCHANGED vars
  BY <1>1 DEF vars, storeVars, tables, Promise!vars
<1>2. ASSUME NEW w \in Workers, Depositing(w)
      PROVE  Promise!Next \/ UNCHANGED Promise!vars
  <2>1. DP!DepositsInv /\ [DP!Next]_(DP!depositVars)
    BY <1>2, SameDeposits, SameDepositing DEF PlatformInv, DP!Next, Depositing
  <2>2. DP!Promise!Next \/ UNCHANGED DP!Promise!vars
    BY <2>1, SameAssumptions, DP!StepMaps
  <2> QED
    BY <2>2, SamePromise
<1>3. ASSUME NEW w \in Workers, Onboarding(w)
      PROVE  UNCHANGED Promise!vars
  BY <1>3, OnboardingServes DEF Onboarding, Promise!vars
<1>4. ASSUME NEW w \in Workers, Withdrawing(w)
      PROVE  UNCHANGED Promise!vars
  BY <1>4, WithdrawingServes, ForeignStutters DEF Withdrawing
<1>5. ASSUME NEW w \in Workers, Investing(w)
      PROVE  UNCHANGED Promise!vars
  BY <1>5, InvestingServes, ForeignStutters DEF Investing
<1>6. ASSUME NEW w \in Workers, Repaying(w)
      PROVE  UNCHANGED Promise!vars
  BY <1>6, RepayingServes, ForeignStutters DEF Repaying, RepaidKinds
<1>7. ASSUME NEW w \in Workers, Aborting(w)
      PROVE  UNCHANGED Promise!vars
  BY <1>7 DEF Aborting, Abort, tables, Promise!vars
<1> QED
  BY <1>1, <1>2, <1>3, <1>4, <1>5, <1>6, <1>7 DEF Next

(* The deposit workflow keeps its promise while the other services write the *)
(* same wallet and journal, for every value of the constants.                *)
THEOREM PromiseKept == Spec => DepositsKeepPromise
<1> QED
  BY InvHolds, PromiseInit, StepMaps, PTL DEF Spec, DepositsKeepPromise, Promise!Spec
-----------------------------------------------------------------------------
(* The figures of the reports.  Sums of amounts are amounts, and add up.     *)
LEMMA AmountsSplit ==
  ASSUME walletTxn \in [References -> Txn], NEW A \in SUBSET References,
         NEW B \in SUBSET References, A \cap B = {}
  PROVE  /\ SumAmounts(A) \in Nat /\ SumAmounts(B) \in Nat
         /\ SumAmounts(A \cup B) = SumAmounts(A) + SumAmounts(B)
<1> DEFINE amount(R) == [r \in R |-> walletTxn[r].amount]
<1>1. ASSUME NEW R \in SUBSET References
      PROVE  /\ IsFiniteSet(DOMAIN amount(R)) /\ \A r \in DOMAIN amount(R) : amount(R)[r] \in Nat
             /\ Total(amount(R)) \in Nat
  <2>1. IsFiniteSet(R)
    BY FiniteReferences, FS_Subset
  <2>2. DOMAIN amount(R) = R /\ \A r \in R : amount(R)[r] \in Nat
    BY DEF Txn
  <2> HIDE DEF amount
  <2> QED
    BY <2>1, <2>2, TotalNat
<1>2. /\ DOMAIN amount(A \cup B) = DOMAIN amount(A) \cup DOMAIN amount(B)
      /\ DOMAIN amount(A) \cap DOMAIN amount(B) = {}
      /\ \A r \in DOMAIN amount(A) : amount(A)[r] = amount(A \cup B)[r]
      /\ \A r \in DOMAIN amount(B) : amount(B)[r] = amount(A \cup B)[r]
  OBVIOUS
<1>3. \A R : SumAmounts(R) = Total(amount(R))
  BY DEF SumAmounts
<1> HIDE DEF amount
<1>4. Total(amount(A \cup B)) = Total(amount(A)) + Total(amount(B))
  <2>1. PICK f, g, h : f = amount(A \cup B) /\ g = amount(A) /\ h = amount(B)
    OBVIOUS
  <2>2. IsFiniteSet(DOMAIN f) /\ \A x \in DOMAIN f : f[x] \in Nat
    BY <1>1, <2>1
  <2>3. /\ DOMAIN f = DOMAIN g \cup DOMAIN h /\ DOMAIN g \cap DOMAIN h = {}
        /\ \A x \in DOMAIN g : g[x] = f[x]
        /\ \A x \in DOMAIN h : h[x] = f[x]
    BY <1>2, <2>1
  <2>4. Total(f) = Total(g) + Total(h)
    BY <2>2, <2>3, TotalSplits
  <2> QED
    BY <2>1, <2>4
<1> QED
  BY <1>1, <1>3, <1>4

(* The transactions of the rows of a table add up to what the rows say.      *)
LEMMA SumOfRows ==
  ASSUME NEW X, IsFiniteSet(X), NEW ref, \A x, y \in X : ref[x] = ref[y] => x = y,
         NEW a, DOMAIN a = X, \A x \in X : a[x] \in Nat /\ walletTxn[ref[x]].amount = a[x]
  PROVE  SumAmounts({ref[x] : x \in X}) = Total(a)
<1> DEFINE P == {ref[x] : x \in X}
           g == [r \in P |-> walletTxn[r].amount]
           b == [x \in X |-> ref[x]]
<1>1. b \in Bijection(X, P)
  <2>1. b \in [X -> P] /\ (\A r \in P : \E x \in X : b[x] = r) /\ \A x, y \in X : b[x] = b[y] => x = y
    OBVIOUS
  <2> HIDE DEF b, P
  <2> QED
    BY ONLY <2>1 DEF Bijection, Injection, Surjection, IsInjective
<1>2. DOMAIN g = P /\ \A x \in X : g[b[x]] = a[x]
  OBVIOUS
<1> HIDE DEF P, b, g
<1>3. Total(a) = Total(g)
  BY <1>1, <1>2, SameTotal
<1> QED
  BY <1>3 DEF SumAmounts, P, g

PostedAs(kind) == {r \in References : walletTxn[r].status = "POSTED" /\ r[1] = kind}

LEMMA WalletByKind ==
  ASSUME SerialInv
  PROVE  /\ \A k : SumAmounts(PostedAs(k)) \in Nat
         /\ SumAmounts(PostedTxns("CREDIT"))
              = SumAmounts(PostedAs("DEPOSIT")) + SumAmounts(PostedAs("REPAYMENT_ROI_WALLET"))
                  + SumAmounts(PostedAs("REPAYMENT_PRINCIPAL"))
         /\ SumAmounts(PostedTxns("DEBIT"))
              = SumAmounts(PostedAs("WITHDRAWAL")) + SumAmounts(PostedAs("INVESTMENT"))
<1> DEFINE D == PostedAs("DEPOSIT")
           R == PostedAs("REPAYMENT_ROI_WALLET")
           P == PostedAs("REPAYMENT_PRINCIPAL")
           W == PostedAs("WITHDRAWAL")
           I == PostedAs("INVESTMENT")
<1>1. walletTxn \in [References -> Txn] /\ Mirrored
  BY SerialTables DEF SerialInv
<1>2. \A r \in References : walletTxn[r].status = "POSTED" => r[1] \in WalletKinds
  BY <1>1 DEF Mirrored, MirroredAt
<1>3. /\ PostedTxns("CREDIT") = (D \cup R) \cup P
      /\ PostedTxns("DEBIT") = W \cup I
  BY <1>2 DEF PostedTxns, PostedAs, Direction, WalletKinds
<1>4. D \cap R = {} /\ (D \cup R) \cap P = {} /\ W \cap I = {}
  BY DEF PostedAs
<1>5. \A k : PostedAs(k) \in SUBSET References
  BY DEF PostedAs
<1>6. \A k : SumAmounts(PostedAs(k)) \in Nat
  <2> SUFFICES ASSUME NEW k PROVE SumAmounts(PostedAs(k)) \in Nat
    OBVIOUS
  <2>1. {} \in SUBSET References /\ PostedAs(k) \cap {} = {}
    OBVIOUS
  <2> QED
    BY <1>1, <1>5, <2>1, AmountsSplit
<1>7. D \in SUBSET References /\ R \in SUBSET References /\ P \in SUBSET References
      /\ W \in SUBSET References /\ I \in SUBSET References /\ D \cup R \in SUBSET References
  BY <1>5
<1> HIDE DEF D, R, P, W, I
<1>8. /\ SumAmounts(D \cup R) = SumAmounts(D) + SumAmounts(R)
      /\ SumAmounts((D \cup R) \cup P) = SumAmounts(D \cup R) + SumAmounts(P)
      /\ SumAmounts(W \cup I) = SumAmounts(W) + SumAmounts(I)
  BY <1>1, <1>4, <1>7, AmountsSplit
<1> QED
  BY <1>3, <1>6, <1>8 DEF D, R, P, W, I

(* What was invested, and what was paid back of it, as the tables have it.   *)
LEMMA PrincipalsSplit ==
  ASSUME investments \in [InvestmentIds -> Inv!InvestmentRow], NEW A \in SUBSET InvestmentIds,
         NEW B \in SUBSET InvestmentIds, A \cap B = {}
  PROVE  /\ Inv!Principal(A) \in Nat /\ Inv!Principal(B) \in Nat
         /\ Inv!Principal(A \cup B) = Inv!Principal(A) + Inv!Principal(B)
<1> DEFINE principal(V) == [v \in V |-> investments[v].principal]
<1>1. ASSUME NEW V \in SUBSET InvestmentIds
      PROVE  /\ IsFiniteSet(DOMAIN principal(V))
             /\ \A v \in DOMAIN principal(V) : principal(V)[v] \in Nat
             /\ Total(principal(V)) \in Nat
  <2>1. IsFiniteSet(V)
    <3>1. V \in SUBSET DocumentIds
      BY DEF DocumentIds
    <3> QED
      BY <3>1, FiniteAssumption, FS_Subset
  <2>2. DOMAIN principal(V) = V /\ \A v \in V : principal(V)[v] \in Nat
    BY DEF Inv!InvestmentRow
  <2> HIDE DEF principal
  <2> QED
    BY <2>1, <2>2, TotalNat
<1>2. /\ DOMAIN principal(A \cup B) = DOMAIN principal(A) \cup DOMAIN principal(B)
      /\ DOMAIN principal(A) \cap DOMAIN principal(B) = {}
      /\ \A v \in DOMAIN principal(A) : principal(A)[v] = principal(A \cup B)[v]
      /\ \A v \in DOMAIN principal(B) : principal(B)[v] = principal(A \cup B)[v]
  OBVIOUS
<1>3. \A V : Inv!Principal(V) = Total(principal(V))
  BY SameTotals DEF Inv!Principal
<1> HIDE DEF principal
<1>4. Total(principal(A \cup B)) = Total(principal(A)) + Total(principal(B))
  <2>1. PICK f, g, h : f = principal(A \cup B) /\ g = principal(A) /\ h = principal(B)
    OBVIOUS
  <2>2. IsFiniteSet(DOMAIN f) /\ \A x \in DOMAIN f : f[x] \in Nat
    BY <1>1, <2>1
  <2>3. /\ DOMAIN f = DOMAIN g \cup DOMAIN h /\ DOMAIN g \cap DOMAIN h = {}
        /\ \A x \in DOMAIN g : g[x] = f[x]
        /\ \A x \in DOMAIN h : h[x] = f[x]
    BY <1>2, <2>1
  <2>4. Total(f) = Total(g) + Total(h)
    BY <2>2, <2>3, TotalSplits
  <2> QED
    BY <2>1, <2>4
<1> QED
  BY <1>1, <1>3, <1>4

LEMMA InvestedAmounts ==
  ASSUME SerialInv
  PROVE  /\ \A statuses : Inv!Principal(InStatus(statuses)) \in Nat
         /\ SumAmounts(PostedAs("INVESTMENT"))
              = Inv!Principal(InStatus({"ACTIVE"})) + Inv!Principal(InStatus({"CLOSED"}))
                  + Inv!Principal(InStatus({"DEFAULTED"}))
<1> DEFINE A == InStatus({"ACTIVE"})
           C == InStatus({"CLOSED"})
           D == InStatus({"DEFAULTED"})
           V == (A \cup C) \cup D
           ref == [v \in V |-> InvestmentRef(v)]
           a == [v \in V |-> investments[v].principal]
<1>1. /\ investments \in [InvestmentIds -> Inv!InvestmentRow] /\ Mirrored
      /\ walletTxn \in [References -> Txn] /\ Rep!RepaymentRowsInv
  BY SerialTables DEF SerialInv
<1>2. \A statuses : InStatus(statuses) \in SUBSET InvestmentIds
  BY DEF InStatus
<1>3. V = Rep!Invested
  BY <1>1 DEF InStatus, Rep!Invested, Inv!InvestmentRow
<1>4. ASSUME NEW v \in InvestmentIds
      PROVE  /\ InvestmentRef(v) \in References /\ InvestmentRef(v)[1] = "INVESTMENT"
             /\ v \in V => /\ walletTxn[InvestmentRef(v)].status = "POSTED"
                           /\ walletTxn[InvestmentRef(v)].amount = investments[v].principal
                           /\ investments[v].principal \in Nat
             /\ walletTxn[InvestmentRef(v)].status = "POSTED" => v \in V
  <2> DEFINE r == InvestmentRef(v)
  <2>1. r \in References /\ r = InvestmentRef(v) /\ r = Rep!InvestmentRef(v) /\ r[1] = "INVESTMENT"
    BY DEF References, InvestmentRef, Rep!InvestmentRef
  <2> HIDE DEF r
  <2>2. MirroredAt(r) /\ Rep!InvestmentWellFormed(v)
    BY <1>1, <2>1 DEF Mirrored, Rep!RepaymentRowsInv
  <2>3. v \notin V => journal[r] = <<>>
    BY <1>3, <2>1, <2>2 DEF Rep!InvestmentWellFormed
  <2>4. ASSUME v \in V
        PROVE  journal[r] # <<>> /\ journal[r][1].amount = investments[v].principal
    <3>1. PICK e : /\ journal[r] = <<e>>
                   /\ e = [investor |-> investments[v].investor, amount |-> investments[v].principal]
      BY <1>3, <2>1, <2>2, <2>4 DEF Rep!InvestmentWellFormed
    <3>2. <<e>> # <<>> /\ <<e>>[1] = e
      OBVIOUS
    <3> QED
      BY <3>1, <3>2
  <2>5. walletTxn[r].status = "POSTED" =>
          journal[r] # <<>> /\ journal[r][1].amount = walletTxn[r].amount
    BY <1>1, <2>1, SingleEntry
  <2>6. v \in V => walletTxn[r].status = "POSTED"
    BY <2>1, <2>2, <2>4 DEF MirroredAt, WalletKinds
  <2>7. v \in V => investments[v].principal \in Nat
    BY <1>1 DEF Inv!InvestmentRow
  <2> HIDE DEF V
  <2> QED
    BY <2>1, <2>3, <2>4, <2>5, <2>6, <2>7
<1>5. PostedAs("INVESTMENT") = {ref[v] : v \in V}
  <2>1. ASSUME NEW r \in PostedAs("INVESTMENT") PROVE \E v \in V : r = ref[v]
    <3>1. r \in References /\ r[1] = "INVESTMENT" /\ walletTxn[r].status = "POSTED"
      BY DEF PostedAs
    <3>2. PICK v \in InvestmentIds : r = InvestmentRef(v)
      BY <3>1 DEF References, DepositRef, WithdrawalRef, InvestmentRef, AccrualRef, RoiCashRef,
           RoiWalletRef, PrincipalRef
    <3> QED
      BY <1>4, <3>1, <3>2
  <2>2. ASSUME NEW v \in V PROVE ref[v] \in PostedAs("INVESTMENT")
    <3>1. v \in InvestmentIds
      BY <1>2
    <3> QED
      BY <1>4, <3>1 DEF PostedAs
  <2> HIDE DEF V, ref
  <2> QED
    BY <2>1, <2>2
<1>6. V \in SUBSET InvestmentIds /\ IsFiniteSet(V)
  <2>1. V \in SUBSET InvestmentIds /\ V \in SUBSET DocumentIds
    BY <1>2 DEF DocumentIds
  <2> QED
    BY <2>1, FiniteAssumption, FS_Subset
<1>7. /\ DOMAIN a = V /\ \A v \in V : a[v] \in Nat /\ walletTxn[ref[v]].amount = a[v]
      /\ \A u, v \in V : ref[u] = ref[v] => u = v
  BY <1>4, <1>6 DEF InvestmentRef
<1>8. SumAmounts({ref[v] : v \in V}) = Total(a)
  <2> HIDE DEF V, ref, a
  <2> QED
    BY <1>6, <1>7, SumOfRows
<1>9. Inv!Principal(V) = Inv!Principal(A) + Inv!Principal(C) + Inv!Principal(D)
  <2>1. A \cap C = {} /\ (A \cup C) \cap D = {}
    BY DEF InStatus
  <2>2. A \in SUBSET InvestmentIds /\ C \in SUBSET InvestmentIds /\ D \in SUBSET InvestmentIds
        /\ A \cup C \in SUBSET InvestmentIds
    BY <1>2
  <2> HIDE DEF A, C, D
  <2> QED
    BY <1>1, <2>1, <2>2, PrincipalsSplit
<1>10. \A statuses : Inv!Principal(InStatus(statuses)) \in Nat
  <2> SUFFICES ASSUME NEW statuses PROVE Inv!Principal(InStatus(statuses)) \in Nat
    OBVIOUS
  <2>1. {} \in SUBSET InvestmentIds /\ InStatus(statuses) \cap {} = {}
    OBVIOUS
  <2> QED
    BY <1>1, <1>2, <2>1, PrincipalsSplit
<1>11. Inv!Principal(V) = Total(a)
  BY SameTotals DEF Inv!Principal
<1> QED
  BY <1>5, <1>8, <1>9, <1>10, <1>11

Disbursed == {r \in RepaymentIds : repayments[r].status = "DISBURSED"}

LEMMA DisbursedAmounts ==
  ASSUME SerialInv
  PROVE  SumAmounts(PostedAs("REPAYMENT_PRINCIPAL")) = Rep!SumPrincipal(Disbursed)
<1> DEFINE X == {r \in Disbursed : repayments[r].principal > 0}
           ref == [r \in X |-> PrincipalRef(r)]
           a == [r \in X |-> repayments[r].principal]
           all == [r \in Disbursed |-> repayments[r].principal]
<1>1. /\ repayments \in [RepaymentIds -> Rep!RepaymentRow] /\ Mirrored
      /\ walletTxn \in [References -> Txn] /\ Rep!RepaymentRowsInv
  BY SerialTables DEF SerialInv
<1>2. ASSUME NEW x \in RepaymentIds
      PROVE  /\ PrincipalRef(x) \in References /\ PrincipalRef(x)[1] = "REPAYMENT_PRINCIPAL"
             /\ repayments[x].principal \in Nat
             /\ x \in X => /\ walletTxn[PrincipalRef(x)].status = "POSTED"
                           /\ walletTxn[PrincipalRef(x)].amount = repayments[x].principal
             /\ walletTxn[PrincipalRef(x)].status = "POSTED" => x \in X
  <2> DEFINE r == PrincipalRef(x)
  <2>1. r \in References /\ r = PrincipalRef(x) /\ r = Rep!PrincipalRef(x)
        /\ r[1] = "REPAYMENT_PRINCIPAL"
    BY DEF References, PrincipalRef, Rep!PrincipalRef
  <2> HIDE DEF r
  <2>2. MirroredAt(r) /\ Rep!LegDisbursed(x, r, repayments[x].principal)
    BY <1>1, <2>1 DEF Mirrored, Rep!RepaymentRowsInv, Rep!RepaymentWellFormed
  <2>3. x \notin X => journal[r] = <<>>
    BY <2>2 DEF Rep!LegDisbursed, Disbursed
  <2>4. ASSUME x \in X
        PROVE  journal[r] # <<>> /\ journal[r][1].amount = repayments[x].principal
    <3>1. PICK e : /\ journal[r] = <<e>>
                   /\ e = [investor |-> Rep!InvestorOf(x), amount |-> repayments[x].principal]
      BY <2>2, <2>4 DEF Rep!LegDisbursed, Disbursed
    <3>2. <<e>> # <<>> /\ <<e>>[1] = e
      OBVIOUS
    <3> QED
      BY <3>1, <3>2
  <2>5. walletTxn[r].status = "POSTED" =>
          journal[r] # <<>> /\ journal[r][1].amount = walletTxn[r].amount
    BY <1>1, <2>1, SingleEntry
  <2>6. x \in X => walletTxn[r].status = "POSTED"
    BY <2>1, <2>2, <2>4 DEF MirroredAt, WalletKinds
  <2>7. repayments[x].principal \in Nat
    BY <1>1 DEF Rep!RepaymentRow
  <2> HIDE DEF X
  <2> QED
    BY <2>1, <2>3, <2>4, <2>5, <2>6, <2>7
<1>3. X \in SUBSET RepaymentIds /\ IsFiniteSet(X)
  <2>1. X \in SUBSET RepaymentIds /\ X \in SUBSET DocumentIds
    BY DEF Disbursed, DocumentIds
  <2> QED
    BY <2>1, FiniteAssumption, FS_Subset
<1>4. PostedAs("REPAYMENT_PRINCIPAL") = {ref[r] : r \in X}
  <2>1. ASSUME NEW r \in PostedAs("REPAYMENT_PRINCIPAL") PROVE \E x \in X : r = ref[x]
    <3>1. r \in References /\ r[1] = "REPAYMENT_PRINCIPAL" /\ walletTxn[r].status = "POSTED"
      BY DEF PostedAs
    <3>2. PICK x \in RepaymentIds : r = PrincipalRef(x)
      BY <3>1 DEF References, DepositRef, WithdrawalRef, InvestmentRef, AccrualRef, RoiCashRef,
           RoiWalletRef, PrincipalRef
    <3> QED
      BY <1>2, <3>1, <3>2
  <2>2. ASSUME NEW x \in X PROVE ref[x] \in PostedAs("REPAYMENT_PRINCIPAL")
    <3>1. x \in RepaymentIds
      BY <1>3
    <3> QED
      BY <1>2, <3>1 DEF PostedAs
  <2> HIDE DEF X, ref
  <2> QED
    BY <2>1, <2>2
<1>5. /\ DOMAIN a = X /\ \A x \in X : a[x] \in Nat /\ walletTxn[ref[x]].amount = a[x]
      /\ \A x, y \in X : ref[x] = ref[y] => x = y
  BY <1>2, <1>3 DEF PrincipalRef
<1>6. SumAmounts({ref[x] : x \in X}) = Total(a)
  <2> HIDE DEF X, ref, a
  <2> QED
    BY <1>3, <1>5, SumOfRows
<1>7. Total(all) = Total(a)
  <2>1. /\ DOMAIN a \subseteq DOMAIN all /\ \A x \in DOMAIN a : a[x] = all[x]
        /\ \A x \in DOMAIN all \ DOMAIN a : all[x] = 0
    BY <1>2 DEF Disbursed
  <2> HIDE DEF a, all
  <2> QED
    BY <2>1, TotalDropsZeros
<1>8. Rep!SumPrincipal(Disbursed) = Total(all)
  BY SameTotals DEF Rep!SumPrincipal
<1> QED
  BY <1>4, <1>6, <1>7, <1>8

(* The entries of the ROI received add up to the ROI recorded.               *)
LinesOfKind(kind) == {l \in AllLines : l[1][1] = kind}

LEMMA RoiReceivedLines ==
  ASSUME SerialInv
  PROVE  SumLines(LinesOfKind("REPAYMENT_ROI_CASH")) = Total([r \in RepaymentIds |-> repayments[r].roi])
<1> DEFINE X == {r \in RepaymentIds : journal[RoiCashRef(r)] # <<>>}
           ref == [r \in X |-> RoiCashRef(r)]
           a == [r \in X |-> repayments[r].roi]
           all == [r \in RepaymentIds |-> repayments[r].roi]
           L == LinesOfKind("REPAYMENT_ROI_CASH")
<1>1. repayments \in [RepaymentIds -> Rep!RepaymentRow] /\ Rep!RepaymentRowsInv
  BY SerialTables DEF SerialInv
<1>2. ASSUME NEW x \in RepaymentIds
      PROVE  /\ RoiCashRef(x) \in References /\ RoiCashRef(x)[1] = "REPAYMENT_ROI_CASH"
             /\ repayments[x].roi \in Nat
             /\ IF x \in X THEN /\ DOMAIN journal[RoiCashRef(x)] = {1}
                                /\ journal[RoiCashRef(x)][1].amount = repayments[x].roi
                           ELSE repayments[x].roi = 0
  <2> DEFINE r == RoiCashRef(x)
  <2>1. r \in References /\ r = RoiCashRef(x) /\ r = Rep!RoiCashRef(x)
        /\ r[1] = "REPAYMENT_ROI_CASH"
    BY DEF References, RoiCashRef, Rep!RoiCashRef
  <2> HIDE DEF r
  <2>2. \/ repayments[x].roi = 0 /\ journal[r] = <<>>
        \/ journal[r] = <<[investor |-> Rep!InvestorOf(x), amount |-> repayments[x].roi]>>
    BY <1>1, <2>1 DEF Rep!RepaymentRowsInv, Rep!RepaymentWellFormed, Rep!RoiReceived
  <2>3. repayments[x].roi \in Nat
    BY <1>1 DEF Rep!RepaymentRow
  <2>4. CASE repayments[x].roi = 0 /\ journal[r] = <<>>
    BY <2>1, <2>3, <2>4
  <2>5. ASSUME journal[r] = <<[investor |-> Rep!InvestorOf(x), amount |-> repayments[x].roi]>>
        PROVE  /\ journal[r] # <<>> /\ DOMAIN journal[r] = {1}
               /\ journal[r][1].amount = repayments[x].roi
    <3>1. PICK e : /\ journal[r] = <<e>>
                   /\ e = [investor |-> Rep!InvestorOf(x), amount |-> repayments[x].roi]
      BY <2>5
    <3>2. <<e>> # <<>> /\ <<e>>[1] = e /\ DOMAIN <<e>> = {1}
      OBVIOUS
    <3> QED
      BY <3>1, <3>2
  <2> QED
    BY <2>1, <2>2, <2>3, <2>4, <2>5
<1>3. X \in SUBSET RepaymentIds /\ IsFiniteSet(X)
  <2>1. X \in SUBSET RepaymentIds /\ X \in SUBSET DocumentIds
    BY DEF DocumentIds
  <2> QED
    BY <2>1, FiniteAssumption, FS_Subset
<1>4. L = {<<ref[r], 1>> : r \in X}
  <2>1. ASSUME NEW l \in L PROVE \E x \in X : l = <<ref[x], 1>>
    <3>1. PICK r \in References : l \in {r} \X DOMAIN journal[r]
      BY DEF LinesOfKind, AllLines
    <3>2. l = <<r, l[2]>> /\ r[1] = "REPAYMENT_ROI_CASH" /\ l[2] \in DOMAIN journal[r]
      BY <3>1 DEF LinesOfKind
    <3>3. PICK x \in RepaymentIds : r = RoiCashRef(x)
      BY <3>2 DEF References, DepositRef, WithdrawalRef, InvestmentRef, AccrualRef, RoiCashRef,
           RoiWalletRef, PrincipalRef
    <3>4. x \in X
      BY <3>2, <3>3
    <3>5. l[2] = 1
      BY <1>2, <3>2, <3>3, <3>4
    <3> QED
      BY <3>2, <3>3, <3>4, <3>5
  <2>2. ASSUME NEW x \in X PROVE <<ref[x], 1>> \in L
    <3>1. x \in RepaymentIds
      BY <1>3
    <3>2. <<ref[x], 1>> \in {ref[x]} \X DOMAIN journal[ref[x]] /\ ref[x] \in References
          /\ ref[x][1] = "REPAYMENT_ROI_CASH"
      BY <1>2, <3>1
    <3> QED
      BY <3>2 DEF LinesOfKind, AllLines
  <2> HIDE DEF L, X, ref
  <2> QED
    BY <2>1, <2>2
<1>5. /\ DOMAIN a = X /\ \A x \in X : a[x] \in Nat /\ journal[ref[x]][1].amount = a[x]
      /\ \A x, y \in X : ref[x] = ref[y] => x = y
  BY <1>2, <1>3 DEF RoiCashRef
<1>6. Total(all) = Total(a)
  <2>1. /\ DOMAIN a \subseteq DOMAIN all /\ \A x \in DOMAIN a : a[x] = all[x]
        /\ \A x \in DOMAIN all \ DOMAIN a : all[x] = 0
    BY <1>2
  <2> HIDE DEF a, all
  <2> QED
    BY <2>1, TotalDropsZeros
<1>7. SumLines(L) = Total(a)
  <2>1. \A x \in X : a[x] \in Nat
    BY <1>5
  <2>2. \A x \in X : journal[ref[x]][1].amount = a[x]
    BY <1>5
  <2> HIDE DEF L, X, ref, a
  <2> QED
    BY <1>3, <1>4, <1>5, <2>1, <2>2, SingleEntries
<1> QED
  BY <1>6, <1>7

(* Account 1010 is debited by deposits and by ROI received, and credited by   *)
(* withdrawals.                                                              *)
LEMMA CashByKind ==
  ASSUME SerialInv
  PROVE  /\ Total([r \in RepaymentIds |-> repayments[r].roi]) \in Nat
         /\ CashPosition = SumAmounts(PostedAs("DEPOSIT")) - SumAmounts(PostedAs("WITHDRAWAL"))
                             + Total([r \in RepaymentIds |-> repayments[r].roi])
<1> DEFINE amount(L) == [l \in L |-> journal[l[1]][l[2]].amount]
           D == LinesOfKind("DEPOSIT")
           W == LinesOfKind("WITHDRAWAL")
           C == LinesOfKind("REPAYMENT_ROI_CASH")
<1>1. /\ StoreTypeOK /\ Mirrored /\ journal \in [References -> Seq(Entry)]
  BY SerialTables DEF SerialInv
<1>2. ASSUME NEW k \in WalletKinds
      PROVE  SumLines(LinesOfKind(k)) = SumAmounts(PostedAs(k))
  <2> DEFINE R == {r \in References : r[1] = k}
             All == UNION {{r} \X DOMAIN journal[r] : r \in R}
             P == {r \in R : walletTxn[r].status = "POSTED"}
  <2>1. LinesOfKind(k) = All
    BY DEF LinesOfKind, AllLines
  <2>2. P = PostedAs(k)
    BY DEF PostedAs
  <2>3. R \in SUBSET References /\ \A r \in R : r[1] \in WalletKinds
    OBVIOUS
  <2> HIDE DEF R, All, P
  <2>4. SumLines(All) = Total([r \in P |-> walletTxn[r].amount])
    BY <1>1, <2>3, MirroredLines DEF All, P
  <2> QED
    BY <2>1, <2>2, <2>4 DEF SumAmounts
<1>3. ASSUME NEW l \in AllLines PROVE l[1][1] \in Kinds
  <2>1. PICK r \in References : l \in {r} \X DOMAIN journal[r]
    BY DEF AllLines
  <2> QED
    BY <2>1, ReferenceKinds
<1>4. /\ {l \in AllLines : DebitAccount(l[1][1]) = "1010"} = D \cup C
      /\ {l \in AllLines : CreditAccount(l[1][1]) = "1010"} = W
  BY <1>3, KindAccounts DEF LinesOfKind
<1>5. SumLines(D \cup C) = SumLines(D) + SumLines(C)
  <2>1. IsFiniteSet(AllLines) /\ \A l \in AllLines : journal[l[1]][l[2]].amount \in Nat
    BY <1>1, FiniteLines DEF AllLines
  <2>2. D \in SUBSET AllLines /\ C \in SUBSET AllLines /\ D \cap C = {}
    BY DEF LinesOfKind
  <2>3. IsFiniteSet(D \cup C)
    <3>1. D \cup C \in SUBSET AllLines
      BY <2>2
    <3> QED
      BY <2>1, <3>1, FS_Subset
  <2> HIDE DEF D, C
  <2>4. PICK f, g, h : f = amount(D \cup C) /\ g = amount(D) /\ h = amount(C)
    OBVIOUS
  <2>5. /\ DOMAIN f = DOMAIN g \cup DOMAIN h /\ DOMAIN g \cap DOMAIN h = {}
        /\ IsFiniteSet(DOMAIN f) /\ \A l \in DOMAIN f : f[l] \in Nat
        /\ \A l \in DOMAIN g : g[l] = f[l]
        /\ \A l \in DOMAIN h : h[l] = f[l]
    BY <2>1, <2>2, <2>3, <2>4
  <2>6. Total(f) = Total(g) + Total(h)
    BY <2>5, TotalSplits
  <2> QED
    BY <2>4, <2>6 DEF SumLines
<1>6. SumLines(C) = Total([r \in RepaymentIds |-> repayments[r].roi])
  BY RoiReceivedLines
<1>7. Total([r \in RepaymentIds |-> repayments[r].roi]) \in Nat
  <2>1. repayments \in [RepaymentIds -> Rep!RepaymentRow]
    BY SerialTables
  <2>2. RepaymentIds \in SUBSET DocumentIds
    BY DEF DocumentIds
  <2>3. IsFiniteSet(RepaymentIds)
    BY <2>2, FiniteAssumption, FS_Subset
  <2>4. PICK f : f = [r \in RepaymentIds |-> repayments[r].roi]
    OBVIOUS
  <2>5. DOMAIN f = RepaymentIds /\ \A r \in RepaymentIds : f[r] \in Nat
    BY <2>1, <2>4 DEF Rep!RepaymentRow
  <2>6. Total(f) \in Nat
    BY <2>3, <2>5, TotalNat
  <2> QED
    BY <2>4, <2>6
<1>8. SumLines(D) = SumAmounts(PostedAs("DEPOSIT")) /\ SumLines(W) = SumAmounts(PostedAs("WITHDRAWAL"))
  BY <1>2 DEF WalletKinds
<1>9. CashPosition = SumLines(D \cup C) - SumLines(W)
  BY <1>4 DEF CashPosition
<1>10. SumAmounts(PostedAs("DEPOSIT")) \in Nat /\ SumAmounts(PostedAs("WITHDRAWAL")) \in Nat
  BY WalletByKind
<1> HIDE DEF D, W, C
<1> QED
  BY <1>5, <1>6, <1>7, <1>8, <1>9, <1>10

LEMMA CashHolds == SerialInv => CashExplained
<1> SUFFICES ASSUME SerialInv PROVE CashExplained
  OBVIOUS
<1> DEFINE recorded == Total([r \in RepaymentIds |-> repayments[r].roi])
<1>1. TotalRoiPaid = SumAmounts(PostedAs("REPAYMENT_ROI_WALLET"))
  <2>1. {r \in PostedTxns("CREDIT") : r[1] = "REPAYMENT_ROI_WALLET"} = PostedAs("REPAYMENT_ROI_WALLET")
    BY DEF PostedTxns, PostedAs, Direction
  <2> QED
    BY <2>1 DEF TotalRoiPaid
<1>2. SumAmounts(PostedAs("REPAYMENT_PRINCIPAL"))
        = Rep!SumPrincipal({r \in RepaymentIds : repayments[r].status = "DISBURSED"})
  BY DisbursedAmounts DEF Disbursed
<1>3. /\ recorded \in Nat
      /\ CashPosition = SumAmounts(PostedAs("DEPOSIT")) - SumAmounts(PostedAs("WITHDRAWAL")) + recorded
  BY CashByKind
<1> HIDE DEF recorded
<1> QED
  BY <1>1, <1>2, <1>3, WalletByKind, InvestedAmounts
     DEF CashExplained, TotalAUM, TotalWalletBalance, TotalInvested, DefaultedPrincipal, recorded

(* Only undecided and approved withdrawals reserve, each what it asks for;   *)
(* what a wallet has reserved is theirs who own the wallet.                  *)
LEMMA PendingHolds == SerialInv => PendingIsReserved
<1> SUFFICES ASSUME SerialInv PROVE PendingIsReserved
  OBVIOUS
<1> DEFINE X == PendingWithdrawals
           ref == [x \in X |-> WithdrawalRef(x)]
           a == [x \in X |-> withdrawals[x].amount]
           R == {ref[x] : x \in X}
           f == [r \in R |-> walletTxn[r].amount]
           g == [i \in Investors |-> Reserved(i)]
           k == [r \in R |-> walletTxn[r].investor]
<1>1. /\ walletTxn \in [References -> Txn] /\ Mirrored /\ ReservationsHeld /\ PlatformInv
      /\ withdrawals \in [WithdrawalIds -> Wdr!WithdrawalRow]
  BY SerialTables DEF SerialInv
<1>2. ASSUME NEW x \in WithdrawalIds
      PROVE  /\ WithdrawalRef(x) \in References /\ WithdrawalRef(x)[1] = "WITHDRAWAL"
             /\ withdrawals[x].amount \in Nat
             /\ x \in X <=> walletTxn[WithdrawalRef(x)].status = "PENDING"
             /\ x \in X => /\ walletTxn[WithdrawalRef(x)].amount = withdrawals[x].amount
                           /\ walletTxn[WithdrawalRef(x)].investor \in Investors
  <2>1. /\ WithdrawalRef(x) \in References /\ WithdrawalRef(x)[1] = "WITHDRAWAL"
        /\ WithdrawalRef(x) = Wdr!WithdrawalRef(x)
    BY DEF References, WithdrawalRef, Wdr!WithdrawalRef
  <2>2. withdrawals[x].amount \in Nat
        /\ withdrawals[x].status \in {"NONE", "PENDING", "APPROVED", "COMPLETED", "REJECTED"}
    BY <1>1 DEF Wdr!WithdrawalRow
  <2>3. x \in X <=> withdrawals[x].status \in {"PENDING", "APPROVED"}
    BY DEF PendingWithdrawals
  <2>4. x \in X <=> walletTxn[WithdrawalRef(x)].status = "PENDING"
    BY <1>1, <2>1, <2>2, <2>3 DEF ReservationsHeld, Wdr!ReservationFollowsStatus
  <2>5. x \in X => /\ walletTxn[WithdrawalRef(x)].amount = withdrawals[x].amount
                   /\ walletTxn[WithdrawalRef(x)].investor = withdrawals[x].investor
    BY <1>1, <2>3 DEF ReservationsHeld
  <2>6. x \in X => withdrawals[x].investor \in Investors
    BY <1>1, <2>3 DEF PlatformInv, Wdr!WithdrawalsInv, Wdr!RowWellFormed, Wdr!NoWithdrawal
  <2> HIDE DEF X
  <2> QED
    BY <2>1, <2>2, <2>4, <2>5, <2>6
<1>3. X \in SUBSET WithdrawalIds /\ IsFiniteSet(X)
  <2>1. X \in SUBSET WithdrawalIds /\ X \in SUBSET DocumentIds
    BY DEF PendingWithdrawals, DocumentIds
  <2> QED
    BY <2>1, FiniteAssumption, FS_Subset
<1>4. \A r \in References : r \in R <=> /\ walletTxn[r].status = "PENDING"
                                         /\ Direction(r[1]) = "DEBIT"
  <2>1. ASSUME NEW r \in References, walletTxn[r].status = "PENDING" PROVE r \in R
    <3>1. r[1] = "WITHDRAWAL"
      BY <1>1, <2>1 DEF Mirrored, MirroredAt
    <3>2. PICK x \in WithdrawalIds : r = WithdrawalRef(x)
      BY <3>1 DEF References, DepositRef, WithdrawalRef, InvestmentRef, AccrualRef, RoiCashRef,
           RoiWalletRef, PrincipalRef
    <3>3. x \in X
      BY <1>2, <2>1, <3>2
    <3> QED
      BY <3>2, <3>3
  <2>2. ASSUME NEW r \in R
        PROVE  walletTxn[r].status = "PENDING" /\ Direction(r[1]) = "DEBIT"
    <3>1. PICK x \in X : r = WithdrawalRef(x)
      OBVIOUS
    <3> QED
      BY <1>2, <1>3, <3>1 DEF Direction
  <2> QED
    BY <2>1, <2>2
<1>5. R \in SUBSET References /\ IsFiniteSet(R)
  <2>1. R \in SUBSET References
    BY <1>2, <1>3
  <2> QED
    BY <2>1, FiniteReferences, FS_Subset
<1>6. DOMAIN a = X /\ (\A x \in X : a[x] \in Nat /\ walletTxn[ref[x]].amount = a[x])
      /\ \A x, y \in X : ref[x] = ref[y] => x = y
  BY <1>2, <1>3 DEF WithdrawalRef
<1>7. SumAmounts(R) = Total(a)
  <2> HIDE DEF X, ref, a
  <2> QED
    BY <1>3, <1>6, SumOfRows
<1>8. Total(g) = Total(f)
  <2>1. ASSUME NEW i \in Investors
        PROVE  g[i] = Total([r \in {z \in DOMAIN f : k[z] = i} |-> f[r]])
    <3>1. Txns(i, "PENDING", "DEBIT") = {z \in DOMAIN f : k[z] = i}
      <4>1. \A r : r \in DOMAIN f /\ k[r] = i <=> r \in R /\ walletTxn[r].investor = i
        OBVIOUS
      <4> HIDE DEF R, f, k
      <4> QED
        BY <1>4, <1>5, <4>1 DEF Txns
    <3>2. g[i] = Total([r \in Txns(i, "PENDING", "DEBIT") |-> walletTxn[r].amount])
      BY DEF Reserved, SumTxns
    <3>3. [r \in Txns(i, "PENDING", "DEBIT") |-> walletTxn[r].amount]
            = [r \in {z \in DOMAIN f : k[z] = i} |-> f[r]]
      BY <3>1
    <3> QED
      BY <3>2, <3>3
  <2>2. DOMAIN f = R /\ DOMAIN g = Investors
    OBVIOUS
  <2>3. \A r \in R : f[r] \in Nat /\ k[r] \in Investors
    <3> SUFFICES ASSUME NEW r \in R PROVE walletTxn[r].amount \in Nat /\ walletTxn[r].investor \in Investors
      OBVIOUS
    <3>1. PICK x \in X : r = WithdrawalRef(x)
      OBVIOUS
    <3> QED
      BY <1>2, <1>3, <3>1
  <2> HIDE DEF R, f, g, k
  <2> QED
    BY <1>5, <2>1, <2>2, <2>3, TotalOfParts
<1> QED
  BY <1>7, <1>8 DEF PendingIsReserved, PendingAmount, SumAmounts

(* The figures of the management report tie together after every request:    *)
(* cash, assets under management, ROI and what withdrawals wait for          *)
(* (management, reports.service.ts).                                         *)
THEOREM ManagementHolds == Spec /\ OneAtATime => []ManagementExplained
<1>1. SerialInv => ManagementExplained
  BY CashHolds, PendingHolds DEF ManagementExplained
<1> QED
  BY <1>1, SerialHolds, PTL
=============================================================================
