---------------------------- MODULE Investments ----------------------------
(***************************************************************************)
(* InvestmentsService: investing a wallet's balance in an opportunity,     *)
(* under a row lock on the opportunity, and marking an investment as       *)
(* defaulted.                                                              *)
(***************************************************************************)
EXTENDS Store, RepaymentSchedule

CONSTANTS Target,          \* target_amount of each opportunity, in paise
          Minimum,         \* the larger of its two minimum amounts, in paise
          Maximum,         \* its product's maximum amount, in paise
          Plan,            \* how each repays, see RepaymentSchedule
          OpeningAmount    \* what each deposit approved before the start credited

ASSUME OpportunityAssumption ==
  /\ OpeningAmount \in Nat
  /\ Target \in [Opportunities -> Nat \ {0}]
  /\ Minimum \in [Opportunities -> Nat]
  /\ Maximum \in [Opportunities -> Nat]
  /\ Plan \in [Opportunities -> [type : PlanTypes, tenure : Nat \ {0}, percent : Nat]]
  /\ \A o \in Opportunities : PeriodCount(Plan[o]) <= MaxPeriods

VARIABLES opportunities,   \* the status column of investment_opportunities
          investments,
          schedules        \* the repayment_schedules of each investment

investmentTables == <<opportunities, investments, schedules>>
investmentVars   == <<storeVars, investmentTables>>

InvestmentRow == [status : {"NONE", "ACTIVE", "DEFAULTED", "CLOSED"},
                  investor : Investors \cup {None},
                  opportunity : Opportunities \cup {None}, principal : Nat]

NoInvestment == [status |-> "NONE", investor |-> None, opportunity |-> None, principal |-> 0]

ScheduleRow == [principalDue : Nat, roiDue : Int, totalDue : Int,
                status : {"PENDING", "PARTIALLY_PAID", "PAID"}, accrued : BOOLEAN]

NewRow(due) == [principalDue |-> due.principalDue, roiDue |-> due.roiDue,
                totalDue |-> due.totalDue, status |-> "PENDING", accrued |-> FALSE]

NewSchedule(o, a) ==
  [k \in 1 .. PeriodCount(Plan[o]) |-> NewRow(StoredRow(a, Plan[o], k))]

Principal(V) == Total([v \in V |-> investments[v].principal])

Committed(o) == Principal({v \in InvestmentIds : investments[v].opportunity = o})

InvestedBy(i) == {v \in InvestmentIds : investments[v].investor = i}

(* SELECT ... FOR UPDATE holds the opportunity's row until the transaction  *)
(* that took it commits or rolls back.                                      *)
HoldsLock(w, o) ==
  /\ call[w].key = o
  /\ call[w].next \in {"sumInvestorCredits", "sumInvestorDebits", "createInvestment"}

(* Mutant: SELECT without FOR UPDATE.                                       *)
NeverLocked(o) == FALSE

Locked(o) == \E w \in Workers : HoldsLock(w, o)
-----------------------------------------------------------------------------
(* invest: the checks on the opportunity, the amount and the investor run   *)
(* outside the transaction, on rows that may change before it begins.       *)
StartInvest(w, i, o, a) ==
  /\ opportunities[o] = "OPEN"
  /\ a >= 10 * Minimum[o] /\ a <= 10 * Maximum[o]
  /\ MayTransact(i)
  /\ Begin(w, [Idle EXCEPT !.next = "lockOpportunity", !.investor = i, !.key = o, !.amount = a])
  /\ UNCHANGED <<investorStatus, walletTxn, journal, investmentTables>>

FitsTarget(o, total, a) == 10 * total + a <= 10 * Target[o]

(* Mutant: a request that does not fit waits until it does.                 *)
LockOpportunityOnceItFits(w) ==
  LET o == call[w].key IN
  /\ call[w].next = "lockOpportunity"
  /\ ~Locked(o)
  /\ FitsTarget(o, Committed(o), call[w].amount)
  /\ call' = [call EXCEPT ![w].next = "sumInvestorCredits", ![w].total = Committed(o)]
  /\ UNCHANGED <<investorStatus, walletTxn, journal, investmentTables>>

(* The lock and the re-derived sum; nobody else can add to the sum until    *)
(* the lock is released, so reading it is part of the same step.            *)
LockOpportunity(w) ==
  LET o == call[w].key IN
  /\ call[w].next = "lockOpportunity"
  /\ ~Locked(o)
  /\ IF FitsTarget(o, Committed(o), call[w].amount)
     THEN call' = [call EXCEPT ![w].next = "sumInvestorCredits", ![w].total = Committed(o)]
     ELSE End(w)
  /\ UNCHANGED <<investorStatus, walletTxn, journal, investmentTables>>

SumInvestorCredits(w) ==
  /\ call[w].next = "sumInvestorCredits"
  /\ Go(w, "sumInvestorDebits", PostedCredits(call[w].investor))
  /\ UNCHANGED <<investorStatus, walletTxn, journal, investmentTables>>

(* Mutant: the amount is not part of the comparison.                        *)
IsNotOverdrawn(balance, a) == balance >= 0

Covers(balance, a) == 10 * balance >= a

SumInvestorDebits(w) ==
  LET balance == call[w].seen - PostedDebits(call[w].investor) IN
  /\ call[w].next = "sumInvestorDebits"
  /\ IF Covers(balance, call[w].amount)
     THEN Go(w, "createInvestment", balance)
     ELSE End(w)
  /\ UNCHANGED <<investorStatus, walletTxn, journal, investmentTables>>

(* Mutant: the amount is counted again.                                     *)
FillsCountedTwice(o, total, a) == 10 * total + 2 * a >= 10 * Target[o]

Fills(o, total, a) == 10 * total + a >= 10 * Target[o]

CreateInvestment(w, v) ==
  LET c == call[w] IN
  /\ c.next = "createInvestment"
  /\ investments[v] = NoInvestment
  /\ investments' = [investments EXCEPT ![v] =
       [status |-> "ACTIVE", investor |-> c.investor, opportunity |-> c.key,
        principal |-> Column(c.amount)]]
  /\ schedules' = [schedules EXCEPT ![v] = NewSchedule(c.key, c.amount)]
  /\ PostJournal(InvestmentRef(v), c.investor, Column(c.amount))
  /\ CreateTxn(InvestmentRef(v), c.investor, Column(c.amount), "POSTED")
  /\ opportunities' = IF Fills(c.key, c.total, c.amount)
                      THEN [opportunities EXCEPT ![c.key] = "FULLY_FUNDED"]
                      ELSE opportunities
  /\ End(w)
  /\ UNCHANGED investorStatus
-----------------------------------------------------------------------------
(* markDefaulted: the status is checked before the transaction opens.       *)
StartMarkDefaulted(w, v) ==
  /\ investments[v].status = "ACTIVE"
  /\ Begin(w, [Idle EXCEPT !.next = "markDefaulted", !.id = v])
  /\ UNCHANGED <<investorStatus, walletTxn, journal, investmentTables>>

MarkDefaulted(w) ==
  /\ call[w].next = "markDefaulted"
  /\ investments' = [investments EXCEPT ![call[w].id].status = "DEFAULTED"]
  /\ End(w)
  /\ UNCHANGED <<investorStatus, walletTxn, journal, opportunities, schedules>>
-----------------------------------------------------------------------------
(* The steps of an investment request already being served.                 *)
InvestmentStep(w) ==
  \/ LockOpportunity(w)
  \/ SumInvestorCredits(w)
  \/ SumInvestorDebits(w)
  \/ \E v \in InvestmentIds : CreateInvestment(w, v)
  \/ MarkDefaulted(w)

InvestmentNext(w) ==
  \/ \E i \in Investors, o \in Opportunities, a \in Amounts : StartInvest(w, i, o, a)
  \/ \E v \in InvestmentIds : StartMarkDefaulted(w, v)
  \/ InvestmentStep(w)

InvestmentTablesInit ==
  /\ opportunities = [o \in Opportunities |-> "OPEN"]
  /\ investments = [v \in InvestmentIds |-> NoInvestment]
  /\ schedules = [v \in InvestmentIds |-> <<>>]

Init ==
  /\ \E owner \in [DepositIds -> Investors] :
       OpenWith(DepositedBefore(owner, OpeningAmount))
  /\ InvestmentTablesInit
  /\ investorStatus = [i \in Investors |-> "ACTIVE"]

Next == \E w \in Workers :
          InvestmentNext(w) \/ (Abort(w) /\ UNCHANGED investmentTables)

(* Every await settles.  PostgreSQL hands a row lock to its waiters in the  *)
(* order they queued, so a request whose opportunity is free again and again*)
(* gets the lock in the end: strong fairness of the locking step.           *)
Fairness == \A w \in Workers : /\ WF_investmentVars(InvestmentStep(w))
                               /\ SF_investmentVars(LockOpportunity(w))

Spec     == Init /\ [][Next]_investmentVars
LiveSpec == Spec /\ Fairness
-----------------------------------------------------------------------------
TypeOK ==
  /\ StoreTypeOK
  /\ opportunities \in [Opportunities -> {"OPEN", "FULLY_FUNDED"}]
  /\ investments \in [InvestmentIds -> InvestmentRow]
  /\ schedules \in [InvestmentIds -> Seq(ScheduleRow)]

(* However many requests compete for the last of an opportunity, it never   *)
(* takes more than its target.                                              *)
TargetNeverExceeded ==
  \A o \in Opportunities : Committed(o) <= Target[o]

(* An opportunity is FULLY_FUNDED only when it has all of its target: it is *)
(* never closed to investors early by a request that failed after the lock. *)
ClosedOnlyWhenFull ==
  \A o \in Opportunities :
    opportunities[o] = "FULLY_FUNDED" => Committed(o) = Target[o]

(* While a request holds the lock, the committed total it read stays the    *)
(* total: what makes the check of the target still true at the commit.      *)
TotalIsCurrentUnderLock ==
  \A o \in Opportunities, w \in Workers :
    HoldsLock(w, o) => call[w].total = Committed(o)

(* Requests for one opportunity read the balance under its lock; those for   *)
(* different ones hold different locks and may all count the same money.  So *)
(* a wallet is overdrawn by what they may take under every lock but one, and *)
(* by no more: with one opportunity, by nothing.                             *)
OverdraftBounded ==
  \A i \in Investors :
    \/ AvailableBalance(i) >= 0
    \/ \E o \in Opportunities :
         -AvailableBalance(i) <= Total([p \in Opportunities \ {o} |-> Maximum[p]])

(* What makes those three inductive: one holder of a lock at a time, and the *)
(* check of the target, still true of the total it was made with.            *)
OneHolder ==
  \A o \in Opportunities, w, x \in Workers : HoldsLock(w, o) /\ HoldsLock(x, o) => w = x

InvestCallWellFormed(c) ==
  /\ c.next \in {"lockOpportunity", "sumInvestorCredits", "sumInvestorDebits", "createInvestment"} =>
       c.key \in Opportunities /\ c.investor \in Investors /\ c.amount \in Amounts
  /\ c.next \in {"sumInvestorCredits", "sumInvestorDebits", "createInvestment"} =>
       FitsTarget(c.key, c.total, c.amount)
  /\ c.next = "markDefaulted" => c.id \in InvestmentIds

FundingInv ==
  /\ StoreTypeOK
  /\ opportunities \in [Opportunities -> {"OPEN", "FULLY_FUNDED"}]
  /\ investments \in [InvestmentIds -> InvestmentRow]
  /\ \A w \in Workers : InvestCallWellFormed(call[w])
  /\ OneHolder
  /\ TotalIsCurrentUnderLock
  /\ TargetNeverExceeded
  /\ ClosedOnlyWhenFull

(* Every request being served ends, the ones queued for a lock included.    *)
EveryCallEnds == \A w \in Workers : call[w] # Idle ~> call[w] = Idle
=============================================================================
