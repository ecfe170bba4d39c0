----------------------------- MODULE Repayments -----------------------------
(***************************************************************************)
(* RepaymentsService: accruing the ROI of a schedule row, recording what   *)
(* an investment has repaid (which may settle the row and close the        *)
(* investment), and disbursing it to the investor's wallet.                *)
(***************************************************************************)
EXTENDS Investments

CONSTANT Payments   \* principal, ROI and other amounts repaid, in tenths of a paisa

ASSUME PaymentAssumption ==
  Payments \subseteq [principal : Nat, roi : Nat, other : Nat]

VARIABLE repayments

repaymentVars == <<investmentVars, repayments>>

RepaymentRow == [status : {"NONE", "RECEIVED", "DISBURSED"},
                 investment : InvestmentIds \cup {None}, period : 0 .. MaxPeriods,
                 principal : Nat, roi : Nat, other : Nat]

NoRepayment == [status |-> "NONE", investment |-> None, period |-> 0,
                principal |-> 0, roi |-> 0, other |-> 0]

InvestorOf(r) == investments[repayments[r].investment].investor

SumPrincipal(R) == Total([r \in R |-> repayments[r].principal])

(* What has been recorded for row k of v's schedule, and of v's principal.  *)
Paid(v, k) ==
  LET R == {r \in RepaymentIds : repayments[r].investment = v /\ repayments[r].period = k}
  IN  Total([r \in R |-> repayments[r].principal + repayments[r].roi + repayments[r].other])

Repaid(v) == SumPrincipal({r \in RepaymentIds : repayments[r].investment = v})
-----------------------------------------------------------------------------
(* accrueRoi: every check runs on the row as read before the transaction.   *)
(* Mutant: roi_accrued_at is not looked at.                                 *)
MayAccrueAgain(v, k) ==
  investments[v].status = "ACTIVE" /\ schedules[v][k].roiDue # 0

MayAccrue(v, k) ==
  /\ ~schedules[v][k].accrued
  /\ investments[v].status = "ACTIVE"
  /\ schedules[v][k].roiDue # 0

StartAccrueRoi(w, v, k) ==
  /\ k \in DOMAIN schedules[v]
  /\ MayAccrue(v, k)
  /\ Begin(w, [Idle EXCEPT !.next = "accrueRoi", !.id = v, !.period = k])
  /\ UNCHANGED <<investorStatus, walletTxn, journal, investmentTables, repayments>>

AccrueRoi(w) ==
  LET v == call[w].id
      k == call[w].period IN
  /\ call[w].next = "accrueRoi"
  /\ ValidLines(schedules[v][k].roiDue)
  /\ PostJournal(AccrualRef(v, k), investments[v].investor, schedules[v][k].roiDue)
  /\ schedules' = [schedules EXCEPT ![v][k].accrued = TRUE]
  /\ End(w)
  /\ UNCHANGED <<investorStatus, walletTxn, opportunities, investments, repayments>>

AccrueRoiFails(w) ==
  /\ call[w].next = "accrueRoi"
  /\ ~ValidLines(schedules[call[w].id][call[w].period].roiDue)
  /\ End(w)
  /\ UNCHANGED <<investorStatus, walletTxn, journal, investmentTables, repayments>>
-----------------------------------------------------------------------------
(* recordRepayment: the checks, then one transaction.  Nothing bounds the   *)
(* amounts by what is due, and a repayment need not name a schedule row.    *)
(* Mutant: a repayment of any investment is taken.                          *)
MayRecordAlways(v) == investments[v].status # "NONE"

MayRecord(v) == investments[v].status = "ACTIVE"

StartRecordRepayment(w, v, k, payment) ==
  /\ payment.principal + payment.roi + payment.other > 0
  /\ MayRecord(v)
  /\ k \in {0} \cup DOMAIN schedules[v]
  /\ Begin(w, [Idle EXCEPT !.next = IF k = 0 THEN "sumRepaid" ELSE "checkSchedule",
                           !.id = v, !.period = k, !.amount = payment.principal,
                           !.roi = payment.roi, !.other = payment.other])
  /\ UNCHANGED <<investorStatus, walletTxn, journal, investmentTables, repayments>>

CheckSchedule(w) ==
  LET c == call[w] IN
  /\ c.next = "checkSchedule"
  /\ IF c.roi > 0 /\ ~schedules[c.id][c.period].accrued
     THEN End(w)
     ELSE Go(w, "sumSchedulePaid", 0)
  /\ UNCHANGED <<investorStatus, walletTxn, journal, investmentTables, repayments>>

(* Each sum covers the committed rows and the one this transaction inserted.*)
OwnPayment(c) == Column(c.amount) + Column(c.roi) + Column(c.other)

SumSchedulePaid(w) ==
  /\ call[w].next = "sumSchedulePaid"
  /\ Go(w, "lockSchedule", Paid(call[w].id, call[w].period) + OwnPayment(call[w]))
  /\ UNCHANGED <<investorStatus, walletTxn, journal, investmentTables, repayments>>

(* The update of the schedule row's status holds the row until the commit.  *)
HoldsSchedule(w, v, k) ==
  /\ call[w].id = v
  /\ call[w].period = k
  /\ call[w].next \in {"sumRepaid", "createRepayment"}

LockSchedule(w) ==
  /\ call[w].next = "lockSchedule"
  /\ \A x \in Workers : ~HoldsSchedule(x, call[w].id, call[w].period)
  /\ Go(w, "sumRepaid", call[w].seen)
  /\ UNCHANGED <<investorStatus, walletTxn, journal, investmentTables, repayments>>

(* Mutant: ROI and other amounts count as principal.                        *)
SumRepaidWhole(w) ==
  LET total == Repaid(call[w].id) + OwnPayment(call[w]) IN
  /\ call[w].next = "sumRepaid"
  /\ call' = [call EXCEPT ![w].next = "createRepayment", ![w].total = total]
  /\ UNCHANGED <<investorStatus, walletTxn, journal, investmentTables, repayments>>

SumRepaid(w) ==
  LET total == Repaid(call[w].id) + Column(call[w].amount) IN
  /\ call[w].next = "sumRepaid"
  /\ call' = [call EXCEPT ![w].next = "createRepayment", ![w].total = total]
  /\ UNCHANGED <<investorStatus, walletTxn, journal, investmentTables, repayments>>

(* Mutants: the ROI settles the row; the exact principal does not close.    *)
SettlesRoi(v, k, paid) == paid >= schedules[v][k].roiDue

Settles(v, k, paid) == paid >= schedules[v][k].totalDue

ClosesBeyondPrincipal(v, repaid) == repaid > investments[v].principal

Closes(v, repaid) == repaid >= investments[v].principal

CreateRepayment(w, r) ==
  LET c == call[w]
      v == c.id IN
  /\ c.next = "createRepayment"
  /\ repayments[r] = NoRepayment
  /\ repayments' = [repayments EXCEPT ![r] =
       [status |-> "RECEIVED", investment |-> v, period |-> c.period,
        principal |-> Column(c.amount), roi |-> Column(c.roi), other |-> Column(c.other)]]
  /\ IF c.roi > 0
     THEN PostJournal(RoiCashRef(r), investments[v].investor, Column(c.roi))
     ELSE UNCHANGED journal
  /\ schedules' =
       IF c.period = 0 THEN schedules
       ELSE [schedules EXCEPT ![v][c.period].status =
               IF Settles(v, c.period, c.seen) THEN "PAID" ELSE "PARTIALLY_PAID"]
  /\ investments' =
       IF Closes(v, c.total) THEN [investments EXCEPT ![v].status = "CLOSED"] ELSE investments
  /\ End(w)
  /\ UNCHANGED <<investorStatus, walletTxn, opportunities>>
-----------------------------------------------------------------------------
(* disburseRepayments: one transaction per repayment, whatever becomes of   *)
(* the others in the batch.                                                 *)
StartDisburse(w, r) ==
  /\ repayments[r].status = "RECEIVED"
  /\ Begin(w, [Idle EXCEPT !.next = "disburse", !.id = r])
  /\ UNCHANGED <<investorStatus, walletTxn, journal, investmentTables, repayments>>

(* Mutant: the principal is forgotten once the ROI is disbursed.            *)
LegsFirst(r) ==
  {IF repayments[r].roi > 0 THEN <<RoiWalletRef(r), repayments[r].roi>>
                            ELSE <<PrincipalRef(r), repayments[r].principal>>}

(* The legs a repayment has, and the unique index on the wallet's rows.     *)
Legs(r) == {leg \in {<<RoiWalletRef(r), repayments[r].roi>>,
                     <<PrincipalRef(r), repayments[r].principal>>} : leg[2] > 0}

(* Mutant: the unique index is relied on for the ROI leg alone.             *)
CanDisbursePrincipalAgain(r) == walletTxn[RoiWalletRef(r)] = NoTxn

CanDisburse(r) == \A leg \in Legs(r) : walletTxn[leg[1]] = NoTxn

Disburse(w) ==
  LET r == call[w].id
      refs == {leg[1] : leg \in Legs(r)}
      amount(ref) == IF ref = PrincipalRef(r) THEN repayments[r].principal ELSE repayments[r].roi
  IN
  /\ call[w].next = "disburse"
  /\ CanDisburse(r)
  /\ journal' = [ref \in References |->
       IF ref \in refs
       THEN Append(journal[ref], [investor |-> InvestorOf(r), amount |-> amount(ref)])
       ELSE journal[ref]]
  /\ walletTxn' = [ref \in References |->
       IF ref \in refs
       THEN [status |-> "POSTED", investor |-> InvestorOf(r), amount |-> amount(ref)]
       ELSE walletTxn[ref]]
  /\ repayments' = [repayments EXCEPT ![r].status = "DISBURSED"]
  /\ End(w)
  /\ UNCHANGED <<investorStatus, investmentTables>>

DisburseFails(w) ==
  /\ call[w].next = "disburse"
  /\ ~CanDisburse(call[w].id)
  /\ End(w)
  /\ UNCHANGED <<investorStatus, walletTxn, journal, investmentTables, repayments>>
-----------------------------------------------------------------------------
(* The steps of a repayment request already being served.                   *)
RepaymentStep(w) ==
  \/ AccrueRoi(w)
  \/ AccrueRoiFails(w)
  \/ CheckSchedule(w)
  \/ SumSchedulePaid(w)
  \/ LockSchedule(w)
  \/ SumRepaid(w)
  \/ \E r \in RepaymentIds : CreateRepayment(w, r)
  \/ Disburse(w)
  \/ DisburseFails(w)

RepaymentNext(w) ==
  \/ \E v \in InvestmentIds, k \in 1 .. MaxPeriods : StartAccrueRoi(w, v, k)
  \/ \E v \in InvestmentIds, k \in 0 .. MaxPeriods, payment \in Payments :
        StartRecordRepayment(w, v, k, payment)
  \/ \E r \in RepaymentIds : StartDisburse(w, r)
  \/ RepaymentStep(w)

Defaulting(w) ==
  /\ MarkDefaulted(w) \/ \E v \in InvestmentIds : StartMarkDefaulted(w, v)
  /\ UNCHANGED repayments

RepaymentTablesInit == repayments = [r \in RepaymentIds |-> NoRepayment]

(* Each investor of `holder' deposited OpeningAmount and invested it in the *)
(* opportunity of `held', before the start.                                 *)
InvestedBefore(holder, held) ==
  /\ OpenWith([ref \in {InvestmentRef(v) : v \in InvestmentIds}
                       \cup {DepositRef(d) : d \in DepositIds} |->
                 [investor |-> holder[ref[2]], amount |-> OpeningAmount]])
  /\ opportunities = [o \in Opportunities |-> "OPEN"]
  /\ investments = [v \in InvestmentIds |->
       [status |-> "ACTIVE", investor |-> holder[v], opportunity |-> held[v],
        principal |-> OpeningAmount]]
  /\ schedules = [v \in InvestmentIds |-> NewSchedule(held[v], 10 * OpeningAmount)]

RepaymentInit ==
  /\ \E holder \in [InvestmentIds \cup DepositIds -> Investors],
        held \in [InvestmentIds -> Opportunities] :
       /\ \A i \in Investors : Cardinality({v \in InvestmentIds : holder[v] = i})
                                 = Cardinality({d \in DepositIds : holder[d] = i})
       /\ \A o \in Opportunities :
            OpeningAmount * Cardinality({v \in InvestmentIds : held[v] = o}) < Target[o]
       /\ InvestedBefore(holder, held)
  /\ RepaymentTablesInit
  /\ investorStatus = [i \in Investors |-> "ACTIVE"]

RepayNext == \E w \in Workers :
  \/ RepaymentNext(w)
  \/ Defaulting(w)
  \/ Abort(w) /\ UNCHANGED <<investmentTables, repayments>>

-----------------------------------------------------------------------------
RepaymentTypeOK == TypeOK /\ repayments \in [RepaymentIds -> RepaymentRow]

RowAccrued(v, k) == k \in DOMAIN schedules[v] /\ schedules[v][k].accrued

Invested == {v \in InvestmentIds : investments[v].status # "NONE"}

(* What a request being served relies on, though others commit meanwhile:    *)
(* the rows it names are there, what it found accrued is, and the sums it has*)
(* read are no more than what is recorded by now.                            *)
RepayCallWellFormed(c) ==
  /\ c.next \in {"accrueRoi", "markDefaulted", "checkSchedule", "sumSchedulePaid",
                 "lockSchedule", "sumRepaid", "createRepayment"} => c.id \in Invested
  /\ c.next \in {"accrueRoi", "checkSchedule", "sumSchedulePaid", "lockSchedule"} =>
       c.period \in DOMAIN schedules[c.id]
  /\ c.next \in {"sumRepaid", "createRepayment"} => c.period \in {0} \cup DOMAIN schedules[c.id]
  /\ c.next \in {"sumSchedulePaid", "lockSchedule", "sumRepaid", "createRepayment"} =>
       c.period = 0 \/ c.roi = 0 \/ RowAccrued(c.id, c.period)
  /\ c.next \in {"lockSchedule", "sumRepaid", "createRepayment"} =>
       c.period = 0 \/ c.seen <= Paid(c.id, c.period) + OwnPayment(c)
  /\ c.next = "createRepayment" => c.total <= Repaid(c.id) + Column(c.amount)
  /\ c.next = "disburse" => c.id \in RepaymentIds /\ repayments[c.id].status # "NONE"

(* A repayment row names an investment and, if a row of its schedule and ROI, *)
(* an accrued one; the ROI it brought in is in the ledger, and its legs are   *)
(* in the ledger and the wallet once it is DISBURSED, and not before.         *)
RoiReceived(r) ==
  \/ repayments[r].roi = 0 /\ journal[RoiCashRef(r)] = <<>>
  \/ /\ repayments[r].status # "NONE"
     /\ journal[RoiCashRef(r)]
          = <<[investor |-> InvestorOf(r), amount |-> repayments[r].roi]>>

LegDisbursed(r, ref, amount) ==
  IF repayments[r].status = "DISBURSED" /\ amount > 0
  THEN journal[ref] = <<[investor |-> InvestorOf(r), amount |-> amount]>> /\ walletTxn[ref] # NoTxn
  ELSE journal[ref] = <<>> /\ walletTxn[ref] = NoTxn

RepaymentWellFormed(r) ==
  LET row == repayments[r] IN
  /\ IF row.status = "NONE"
     THEN row = NoRepayment
     ELSE /\ row.investment \in Invested
          /\ row.period \in {0} \cup DOMAIN schedules[row.investment]
          /\ row.period = 0 \/ row.roi = 0 \/ RowAccrued(row.investment, row.period)
  /\ RoiReceived(r)
  /\ LegDisbursed(r, RoiWalletRef(r), row.roi)
  /\ LegDisbursed(r, PrincipalRef(r), row.principal)

(* An investment has its entry, and each accrued row of its schedule at least *)
(* one, of what is due; nothing of it exists before it is created.           *)
InvestmentWellFormed(v) ==
  /\ IF v \in Invested
     THEN /\ investments[v].investor \in Investors
          /\ journal[InvestmentRef(v)]
               = <<[investor |-> investments[v].investor, amount |-> investments[v].principal]>>
     ELSE /\ investments[v] = NoInvestment
          /\ schedules[v] = <<>>
          /\ journal[InvestmentRef(v)] = <<>>
  /\ DOMAIN schedules[v] \subseteq 1 .. MaxPeriods
  /\ \A k \in 1 .. MaxPeriods :
       /\ (journal[AccrualRef(v, k)] # <<>>) <=> RowAccrued(v, k)
       /\ \A n \in DOMAIN journal[AccrualRef(v, k)] :
            journal[AccrualRef(v, k)][n]
              = [investor |-> investments[v].investor, amount |-> schedules[v][k].roiDue]

(* However disbursals overlap, are batched or are retried, a repayment      *)
(* reaches the wallet once at most, and when it is DISBURSED with every leg *)
(* it has: never the ROI without the principal.                             *)
DisbursedOnceAndWhole ==
  \A r \in RepaymentIds : \A ref \in {RoiWalletRef(r), PrincipalRef(r)} :
    Len(journal[ref]) =
      IF repayments[r].status = "DISBURSED" /\ ref \in {leg[1] : leg \in Legs(r)} THEN 1 ELSE 0

(* 2020 Investor Investment Payable agrees, per investor, with the invested *)
(* principal less the disbursed one: investmentPayableSubledger.            *)
InvestmentPayable(i) ==
  Principal(InvestedBy(i))
    - SumPrincipal({r \in RepaymentIds : repayments[r].status = "DISBURSED" /\ InvestorOf(r) = i})

InvestmentPayableAgrees ==
  \A i \in Investors : GLBalance("2020", i) = InvestmentPayable(i)

(* A status claims no more than was recorded, however stale the sums it was *)
(* taken from: a PAID row has been paid, a CLOSED investment repaid.        *)
PaidIsPaid ==
  \A v \in InvestmentIds : \A k \in DOMAIN schedules[v] :
    schedules[v][k].status = "PAID" => Paid(v, k) >= schedules[v][k].totalDue

ClosedIsRepaid ==
  \A v \in InvestmentIds :
    investments[v].status = "CLOSED" => Repaid(v) >= investments[v].principal

RepaymentRowsInv ==
  /\ RepaymentTypeOK
  /\ \A w \in Workers : RepayCallWellFormed(call[w])
  /\ \A v \in InvestmentIds : InvestmentWellFormed(v)
  /\ \A r \in RepaymentIds : RepaymentWellFormed(r)
  /\ PaidIsPaid
  /\ ClosedIsRepaid

RepaymentsInv == RepaymentRowsInv /\ Mirrored

(* The other way around, what the reconciliation's comment says of          *)
(* recordRepayment: an investment closes as soon as its principal repayment *)
(* is recorded.                                                             *)
RepaidIsClosed ==
  \A v \in InvestmentIds :
    investments[v] # NoInvestment /\ Repaid(v) >= investments[v].principal
      => investments[v].status = "CLOSED"

(* What roi_accrued_at is said to guard: a row's ROI is accrued once.       *)
AccruedAtMostOnce ==
  \A v \in InvestmentIds, k \in 1 .. MaxPeriods : Len(journal[AccrualRef(v, k)]) <= 1

(* What it does guard: no request that begins after a row was accrued        *)
(* accrues it again, so its entries are no more than the requests that were  *)
(* being served when the first of them committed.                            *)
AccrualsBounded ==
  \A v \in InvestmentIds, k \in 1 .. MaxPeriods :
    Len(journal[AccrualRef(v, k)]) <= Cardinality(Workers)

(* 2030 Investor ROI Payable agrees, per investor, with the accrued ROI less*)
(* the ROI disbursed against an accrued row: roiPayableSubledger.           *)
RoiPayable(i) ==
  LET rows == {vk \in InvestmentIds \X (1 .. MaxPeriods) :
                 /\ investments[vk[1]].investor = i
                 /\ vk[2] \in DOMAIN schedules[vk[1]]
                 /\ schedules[vk[1]][vk[2]].accrued}
      disbursed == {r \in RepaymentIds :
                      /\ repayments[r].status = "DISBURSED"
                      /\ <<repayments[r].investment, repayments[r].period>> \in rows}
  IN  Total([vk \in rows |-> schedules[vk[1]][vk[2]].roiDue])
        - Total([r \in disbursed |-> repayments[r].roi])

(* A decided investment stays decided: CLOSED is not defaulted later, nor   *)
(* DEFAULTED closed.                                                        *)
DecisionStays ==
  [][\A v \in InvestmentIds :
       investments[v].status \in {"CLOSED", "DEFAULTED"}
         => investments'[v].status = investments[v].status]_repaymentVars
=============================================================================
