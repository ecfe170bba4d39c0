------------------------------ MODULE Platform ------------------------------
(***************************************************************************)
(* The services together, over the tables they share: investors register   *)
(* and are activated, deposit, invest, are repaid and withdraw, and the      *)
(* requests of one service interleave with those of the others.            *)
(***************************************************************************)
EXTENDS Store, RepaymentSchedule

CONSTANTS Target, Minimum, Maximum, Plan, OpeningAmount, Payments

(* What the services assume of theirs.                                       *)
ASSUME PlatformAssumption ==
  /\ OpeningAmount \in Nat
  /\ Target \in [Opportunities -> Nat \ {0}]
  /\ Minimum \in [Opportunities -> Nat] /\ Maximum \in [Opportunities -> Nat]
  /\ Plan \in [Opportunities -> [type : PlanTypes, tenure : Nat \ {0}, percent : Nat]]
  /\ \A o \in Opportunities : PeriodCount(Plan[o]) <= MaxPeriods
  /\ Payments \subseteq [principal : Nat, roi : Nat, other : Nat]

VARIABLES activationAudits, deposits, withdrawals,
          opportunities, investments, schedules, repayments

Onb == INSTANCE Onboarding
Dep == INSTANCE Deposits
Wdr == INSTANCE Withdrawals
Inv == INSTANCE Investments
Rep == INSTANCE Repayments

investmentTables == <<opportunities, investments, schedules>>

tables == <<activationAudits, deposits, withdrawals, investmentTables, repayments>>
vars   == <<storeVars, tables>>
-----------------------------------------------------------------------------
Onboarding(w) ==
  Onb!OnboardingNext(w) /\ UNCHANGED <<deposits, withdrawals, investmentTables, repayments>>

Depositing(w) ==
  Dep!DepositNext(w) /\ UNCHANGED <<activationAudits, withdrawals, investmentTables, repayments>>

Withdrawing(w) ==
  Wdr!WithdrawalNext(w) /\ UNCHANGED <<activationAudits, deposits, investmentTables, repayments>>

Investing(w) ==
  Inv!InvestmentNext(w) /\ UNCHANGED <<activationAudits, deposits, withdrawals, repayments>>

Repaying(w) ==
  Rep!RepaymentNext(w) /\ UNCHANGED <<activationAudits, deposits, withdrawals>>

Aborting(w) == Abort(w) /\ UNCHANGED tables

Init ==
  /\ StoreInit
  /\ Onb!OnboardingTablesInit
  /\ Dep!DepositTablesInit
  /\ Wdr!WithdrawalTablesInit
  /\ Inv!InvestmentTablesInit
  /\ Rep!RepaymentTablesInit

Next == \E w \in Workers :
          Onboarding(w) \/ Depositing(w) \/ Withdrawing(w) \/ Investing(w)
            \/ Repaying(w) \/ Aborting(w)

Spec == Init /\ [][Next]_vars
-----------------------------------------------------------------------------
TypeOK ==
  /\ Dep!TypeOK
  /\ Wdr!TypeOK
  /\ Rep!RepaymentTypeOK
  /\ activationAudits \in [Investors -> Nat]

(* No document of an investor exists before the investor's activation.      *)
OnlyActiveInvestorsTransact ==
  LET transacting == {deposits[d].investor : d \in DepositIds}
                       \cup {withdrawals[d].investor : d \in WithdrawalIds}
                       \cup {investments[v].investor : v \in InvestmentIds}
  IN  \A i \in transacting \ {None} : investorStatus[i] = "ACTIVE"

(* What makes that inductive, and keeps what a service relies on true while  *)
(* the others write.  An ACTIVE investor stays ACTIVE, so a request that has *)
(* passed the check is still one of an ACTIVE investor.                      *)
InvestorsFit ==
  /\ OnlyActiveInvestorsTransact
  /\ \A w \in Workers :
       call[w].next \in {"createDeposit", "sumCredits", "sumDebits", "sumReserved",
                         "createWithdrawal", "lockOpportunity", "sumInvestorCredits",
                         "sumInvestorDebits", "createInvestment"}
         => investorStatus[call[w].investor] = "ACTIVE"

(* What the requests of every service may rely on while those of the others   *)
(* are served in between: two decisions on one deposit or one withdrawal      *)
(* overlap, a commit fails, and a row read before the transaction is decided  *)
(* on after it has changed.                                                   *)
PlatformInv ==
  /\ Dep!DepositsInv
  /\ Wdr!WithdrawalsInv
  /\ Inv!FundingInv
  /\ Rep!RepaymentRowsInv
  /\ activationAudits \in [Investors -> Nat]
  /\ InvestorsFit

(* The guarantees the services give alone, they give together: a deposit is  *)
(* credited on a checker's word, a payout has a checker and its entry, no    *)
(* opportunity takes more than its target or closes before it has it, a      *)
(* repayment reaches the wallet once and whole, and what the ledger owes of  *)
(* investments, and the statuses PAID and CLOSED, are backed by the rows.    *)
ServicesKeepTheirWord ==
  /\ Dep!CreditNeedsChecker
  /\ Wdr!PayoutNeedsChecker
  /\ Wdr!DebitHasEntry
  /\ Inv!TargetNeverExceeded
  /\ Inv!ClosedOnlyWhenFull
  /\ Rep!DisbursedOnceAndWhole
  /\ Rep!InvestmentPayableAgrees
  /\ Rep!PaidIsPaid
  /\ Rep!ClosedIsRepaid

(* No credit without a checker's word: whoever posted a deposit's entry is     *)
(* not the user who recorded the deposit.                                     *)
CreditNeedsChecker == Dep!CreditNeedsChecker

(* An APPROVED deposit has its entry and its POSTED wallet row, also when the *)
(* approval that commits is the second of two, or its lines round to nothing. *)
ApprovedIsCredited == Dep!ApprovedIsCredited

(* Two submissions of one payment reference by an investor, however they      *)
(* overlap, leave one deposit.                                                *)
OneDepositPerReference == Dep!OneDepositPerReference

(* Money leaves the bank only on the decision of someone other than the user  *)
(* who requested it, however approvals, rejections and completions overlap.   *)
PayoutNeedsChecker == Wdr!PayoutNeedsChecker

(* A wallet is never debited, nor a withdrawal COMPLETED, without an entry.   *)
DebitHasEntry == Wdr!DebitHasEntry

(* Wallet and ledger differ by what overlapping completions of withdrawals    *)
(* posted beyond the one debit of each, and by nothing else: not by a deposit *)
(* approved twice or refused halfway, nor by an investment.                   *)
LedgerExplained == Wdr!LedgerExplained

(* The deposit workflow keeps its promise among the other services' writes  *)
(* to the same wallet and the same journal.                                 *)
Promise == INSTANCE DepositPromise WITH
             maker   <- [d \in DepositIds |-> deposits[d].requestedBy],
             checker <- [d \in DepositIds |-> deposits[d].approvedBy],
             credits <- [d \in DepositIds |-> Len(journal[DepositRef(d)])]

DepositsKeepPromise == Promise!Spec

(* With one request served at a time, what a request has checked is still so *)
(* when it commits.                                                          *)
OneAtATime == \A w, x \in Workers : w = x

(* No opportunity is open to an investment that rounds to nothing.           *)
MinimumsPositive == \A o \in Opportunities : Minimum[o] > 0

CallIsCurrent(c) ==
  /\ c.next \in {"approveDeposit", "rejectDeposit"} => deposits[c.id].status = "PENDING"
  /\ c.next = "approveWithdrawal" => withdrawals[c.id].status = "PENDING"
  /\ c.next = "completeWithdrawal" => withdrawals[c.id].status = "APPROVED"
  /\ c.next = "rejectWithdrawal" => withdrawals[c.id].status \in {"PENDING", "APPROVED"}
  /\ c.next \in {"lockOpportunity", "sumInvestorCredits", "sumInvestorDebits", "createInvestment"}
       => c.amount >= 10 * Minimum[c.key]
  /\ c.next \in {"markDefaulted", "checkSchedule", "sumSchedulePaid", "lockSchedule",
                 "sumRepaid", "createRepayment"} => investments[c.id].status = "ACTIVE"
  /\ c.next = "accrueRoi" => Rep!MayAccrue(c.id, c.period)
  /\ c.next = "createRepayment" => c.total = Rep!Repaid(c.id) + Column(c.amount)
  /\ c.next = "disburse" => repayments[c.id].status = "RECEIVED"

(* A deposit that is not APPROVED is nowhere in the ledger; the reservation of*)
(* a withdrawal follows its status and has its investor and amount.          *)
DepositsDecided == \A d \in DepositIds : deposits[d].status # "APPROVED" => Dep!Uncredited(d)

ReservationsHeld ==
  /\ Wdr!ReservationFollowsStatus
  /\ \A d \in WithdrawalIds :
       withdrawals[d].status # "NONE" =>
         /\ walletTxn[WithdrawalRef(d)].investor = withdrawals[d].investor
         /\ walletTxn[WithdrawalRef(d)].amount = withdrawals[d].amount

SerialInv ==
  /\ PlatformInv
  /\ \A w \in Workers : CallIsCurrent(call[w])
  /\ DepositsDecided
  /\ ReservationsHeld
  /\ Mirrored
  /\ Rep!AccruedAtMostOnce

(* Both control accounts agree with the business tables they summarise.     *)
LedgerAgrees == LedgerAgreesWithWallet /\ Rep!InvestmentPayableAgrees

(* What overlapping requests may break and what no order of requests served  *)
(* one at a time does.  A rejected deposit is never effective, and the       *)
(* reservation of a withdrawal is PENDING while it is undecided, POSTED      *)
(* exactly when it is completed, CANCELLED exactly when it is rejected.      *)
DecisionsAreWhole == Dep!RejectedNeverEffective /\ Wdr!ReservationFollowsStatus

(* An investment closes as soon as its principal is repaid, in parts or whole.*)
RepaidIsClosed == Rep!RepaidIsClosed

(* A CLOSED investment is not defaulted, nor a DEFAULTED one closed.         *)
DecisionStays == Rep!DecisionStays
=============================================================================
