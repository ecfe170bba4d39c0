-------------------------- MODULE RepaymentsProofs --------------------------
(***************************************************************************)
(* Proofs about investing, repaying and reconciling, for any number of      *)
(* requests served at a time, opportunities, investments, schedules and     *)
(* payments.  FundingInv is the inductive invariant of investing under the *)
(* row lock of an opportunity, RepaymentsInv that of the tables from then   *)
(* on, ReconInv that of a reconciliation beside them.                      *)
(***************************************************************************)
EXTENDS Reconciliation, FundingRefinement, StoreProofs, SequenceTheorems

LEMMA InvestmentRefs ==
  /\ \A v \in InvestmentIds : InvestmentRef(v) \in References
  /\ \A v \in InvestmentIds, d \in DepositIds : InvestmentRef(v) # DepositRef(d)
  BY DEF InvestmentRef, DepositRef, References

LEMMA NoneIsNoOpportunity == None \notin Opportunities
  BY StoreAssumption DEF StoreAssumption

LEMMA AmountsPositive == \A a \in Amounts : a \in Nat /\ a > 0
  BY StoreAssumption DEF StoreAssumption

(* The opportunity a request's lock is on, as a fact of its local state.     *)
Holds(c, o) ==
  /\ c.key = o
  /\ c.next \in {"sumInvestorCredits", "sumInvestorDebits", "createInvestment"}

InvestedIn(o) == {v \in InvestmentIds : investments[v].opportunity = o}

LEMMA FiniteInvestments == ASSUME NEW o PROVE IsFiniteSet(InvestedIn(o))
<1>1. InvestedIn(o) \in SUBSET DocumentIds
  BY DEF InvestedIn, DocumentIds
<1> QED
  BY <1>1, FiniteAssumption, FS_Subset

(* What an opportunity has is an amount; it changes only with the rows of    *)
(* its investments, and a new row adds its principal.                        *)
LEMMA CommittedNat ==
  ASSUME investments \in [InvestmentIds -> InvestmentRow], NEW o
  PROVE  Committed(o) \in Nat
<1> DEFINE f == [v \in InvestedIn(o) |-> investments[v].principal]
<1>1. DOMAIN f = InvestedIn(o) /\ \A v \in InvestedIn(o) : f[v] \in Nat
  BY DEF InvestedIn, InvestmentRow
<1> HIDE DEF f
<1>2. Total(f) \in Nat
  BY <1>1, FiniteInvestments, TotalNat
<1> QED
  BY <1>2 DEF Committed, Principal, InvestedIn, f

LEMMA CommittedSame ==
  ASSUME NEW o,
         \A v \in InvestmentIds : /\ investments'[v].opportunity = investments[v].opportunity
                                  /\ investments'[v].principal = investments[v].principal
  PROVE  Committed(o)' = Committed(o)
<1>1. InvestedIn(o)' = InvestedIn(o)
  BY DEF InvestedIn
<1>2. [v \in InvestedIn(o)' |-> investments'[v].principal]
        = [v \in InvestedIn(o) |-> investments[v].principal]
  BY <1>1 DEF InvestedIn
<1> QED
  BY <1>2 DEF Committed, Principal, InvestedIn

LEMMA CommittedGrows ==
  ASSUME investments \in [InvestmentIds -> InvestmentRow],
         NEW o \in Opportunities, NEW v \in InvestmentIds, NEW row \in InvestmentRow,
         investments[v] = NoInvestment,
         investments' = [investments EXCEPT ![v] = row], row.opportunity = o
  PROVE  /\ Committed(o)' = Committed(o) + row.principal
         /\ \A p \in Opportunities \ {o} : Committed(p)' = Committed(p)
<1>1. /\ investments'[v] = row
      /\ \A x \in InvestmentIds \ {v} : investments'[x] = investments[x]
      /\ investments[v].opportunity = None
  BY DEF NoInvestment
<1> DEFINE f == [x \in InvestedIn(o) |-> investments[x].principal]
           g == [x \in InvestedIn(o)' |-> investments'[x].principal]
<1>2. v \notin InvestedIn(o) /\ InvestedIn(o)' = InvestedIn(o) \cup {v}
  BY <1>1, NoneIsNoOpportunity DEF InvestedIn
<1>3. /\ DOMAIN f = InvestedIn(o)
      /\ DOMAIN g = InvestedIn(o) \cup {v}
      /\ g[v] = row.principal /\ row.principal \in Nat
      /\ \A x \in InvestedIn(o) : f[x] \in Nat /\ g[x] = f[x]
  BY <1>1, <1>2 DEF InvestedIn, InvestmentRow
<1> HIDE DEF f, g
<1>4. Total(g) = Total(f) + g[v]
  BY <1>2, <1>3, FiniteInvestments, TotalAdd
<1>5. Committed(o)' = Committed(o) + row.principal
  BY <1>3, <1>4 DEF Committed, Principal, InvestedIn, f, g
<1>6. ASSUME NEW p \in Opportunities \ {o} PROVE Committed(p)' = Committed(p)
  <2>1. InvestedIn(p)' = InvestedIn(p) /\ v \notin InvestedIn(p)
    BY <1>1, NoneIsNoOpportunity DEF InvestedIn
  <2>2. [x \in InvestedIn(p)' |-> investments'[x].principal]
          = [x \in InvestedIn(p) |-> investments[x].principal]
    BY <1>1, <2>1 DEF InvestedIn
  <2> QED
    BY <2>2 DEF Committed, Principal, InvestedIn
<1> QED
  BY <1>5, <1>6
-----------------------------------------------------------------------------
LEMMA FundingInit == Init => FundingInv
<1> SUFFICES ASSUME Init PROVE FundingInv
  OBVIOUS
<1>1. PICK owner \in [DepositIds -> Investors] : OpenWith(DepositedBefore(owner, OpeningAmount))
  BY DEF Init
<1> DEFINE opening == DepositedBefore(owner, OpeningAmount)
<1>2. \A r \in DOMAIN opening : opening[r] \in Entry
  BY OpportunityAssumption DEF DepositedBefore, DepositRef, Entry, OpportunityAssumption
<1> HIDE DEF opening
<1>3. StoreTypeOK
  <2>1. NoTxn \in Txn
    BY DEF NoTxn, Txn, TxnStatus
  <2>2. \A r \in DOMAIN opening :
          /\ [status |-> "POSTED", investor |-> opening[r].investor,
              amount |-> opening[r].amount] \in Txn
          /\ <<opening[r]>> \in Seq(Entry)
    BY <1>2 DEF Entry, Txn, TxnStatus
  <2>3. walletTxn \in [References -> Txn] /\ journal \in [References -> Seq(Entry)]
    BY <1>1, <2>1, <2>2 DEF OpenWith, opening
  <2>4. investorStatus \in [Investors -> {"NONE", "PENDING_ACTIVATION", "ACTIVE"}]
    BY DEF Init
  <2>5. call \in [Workers -> Calls]
    BY <1>1, IdleIsACall DEF OpenWith
  <2> QED
    BY <2>3, <2>4, <2>5 DEF StoreTypeOK
<1>4. /\ opportunities \in [Opportunities -> {"OPEN", "FULLY_FUNDED"}]
      /\ investments \in [InvestmentIds -> InvestmentRow]
      /\ \A o \in Opportunities : opportunities[o] = "OPEN"
      /\ \A v \in InvestmentIds : investments[v].opportunity = None
  BY DEF Init, InvestmentTablesInit, NoInvestment, InvestmentRow
<1>5. \A w \in Workers : call[w] = Idle
  BY <1>1 DEF OpenWith
<1>6. \A w \in Workers, o \in Opportunities : ~HoldsLock(w, o)
  BY <1>5 DEF HoldsLock, Idle
<1>7. \A w \in Workers : InvestCallWellFormed(call[w])
  BY <1>5 DEF InvestCallWellFormed, Idle
<1>8. TargetNeverExceeded
  <2> SUFFICES ASSUME NEW o \in Opportunities PROVE Committed(o) <= Target[o]
    BY DEF TargetNeverExceeded
  <2>1. InvestedIn(o) = {}
    BY <1>4, NoneIsNoOpportunity DEF InvestedIn
  <2>2. DOMAIN [v \in InvestedIn(o) |-> investments[v].principal] = {}
    BY <2>1
  <2>3. Committed(o) = 0
    BY <2>2, TotalOfNothing DEF Committed, Principal, InvestedIn
  <2>4. Target[o] \in Nat
    BY OpportunityAssumption DEF OpportunityAssumption
  <2> QED
    BY <2>3, <2>4
<1> QED
  BY <1>3, <1>4, <1>6, <1>7, <1>8
     DEF FundingInv, OneHolder, TotalIsCurrentUnderLock, ClosedOnlyWhenFull
-----------------------------------------------------------------------------
(* A step that only moves a request on keeps the invariant if the lock the   *)
(* request then holds, if any, is its alone and the total it read current.   *)
LEMMA FundingMoves ==
  ASSUME FundingInv, NEW w \in Workers, NEW c \in Calls, InvestCallWellFormed(c),
         call' = [call EXCEPT ![w] = c],
         UNCHANGED <<investorStatus, walletTxn, journal, opportunities, investments>>,
         \A o \in Opportunities :
           Holds(c, o) => /\ c.total = Committed(o)
                          /\ \A x \in Workers \ {w} : ~HoldsLock(x, o)
  PROVE  FundingInv'
<1>1. \A x \in Workers : call'[x] = IF x = w THEN c ELSE call[x]
  BY DEF FundingInv, StoreTypeOK
<1>2. \A x \in Workers, o \in Opportunities :
        HoldsLock(x, o)' = IF x = w THEN Holds(c, o) ELSE HoldsLock(x, o)
  BY <1>1 DEF HoldsLock, Holds
<1>3. \A o \in Opportunities : Committed(o)' = Committed(o)
  BY CommittedSame
<1>4. StoreTypeOK'
  BY DEF FundingInv, StoreTypeOK
<1>5. \A x \in Workers : InvestCallWellFormed(call[x])'
  BY <1>1 DEF FundingInv, InvestCallWellFormed
<1>6. OneHolder'
  BY <1>2 DEF FundingInv, OneHolder
<1>7. TotalIsCurrentUnderLock'
  BY <1>1, <1>2, <1>3 DEF FundingInv, TotalIsCurrentUnderLock
<1>8. TargetNeverExceeded' /\ ClosedOnlyWhenFull'
  BY <1>3 DEF FundingInv, TargetNeverExceeded, ClosedOnlyWhenFull
<1> QED
  BY <1>4, <1>5, <1>6, <1>7, <1>8 DEF FundingInv

(* Requests that end, or have not reached the lock.                          *)
LEMMA FundingEnds ==
  ASSUME FundingInv, NEW w \in Workers, call' = [call EXCEPT ![w] = Idle],
         UNCHANGED <<investorStatus, walletTxn, journal, opportunities, investments>>
  PROVE  FundingInv'
<1>1. Idle \in Calls /\ InvestCallWellFormed(Idle) /\ \A o \in Opportunities : ~Holds(Idle, o)
  BY IdleIsACall DEF Idle, InvestCallWellFormed, Holds
<1> QED
  BY <1>1, FundingMoves

LEMMA StartInvestKeepsInv ==
  ASSUME FundingInv, NEW w \in Workers, NEW i \in Investors, NEW o \in Opportunities,
         NEW a \in Amounts, StartInvest(w, i, o, a)
  PROVE  FundingInv'
<1> DEFINE c == [Idle EXCEPT !.next = "lockOpportunity", !.investor = i, !.key = o, !.amount = a]
<1>1. c \in Calls
  <2>1. "lockOpportunity" \in Steps /\ a \in Nat
    BY AmountsPositive DEF Steps
  <2> QED
    BY <2>1, IdleIsACall DEF Calls
<1>2. InvestCallWellFormed(c) /\ \A p \in Opportunities : ~Holds(c, p)
  BY DEF InvestCallWellFormed, Idle, Holds
<1> QED
  BY <1>1, <1>2, FundingMoves DEF StartInvest, Begin, investmentTables

LEMMA StartDefaultKeepsInv ==
  ASSUME FundingInv, NEW w \in Workers, NEW v \in InvestmentIds, StartMarkDefaulted(w, v)
  PROVE  FundingInv'
<1> DEFINE c == [Idle EXCEPT !.next = "markDefaulted", !.id = v]
<1>1. c \in Calls
  <2>1. "markDefaulted" \in Steps /\ v \in DocumentIds
    BY DEF Steps, DocumentIds
  <2> QED
    BY <2>1, IdleIsACall DEF Calls
<1>2. InvestCallWellFormed(c) /\ \A p \in Opportunities : ~Holds(c, p)
  BY DEF InvestCallWellFormed, Idle, Holds
<1> QED
  BY <1>1, <1>2, FundingMoves DEF StartMarkDefaulted, Begin, investmentTables

(* A request that takes the lock reads the total no other may change.        *)
LEMMA LockKeepsInv ==
  ASSUME FundingInv, NEW w \in Workers, LockOpportunity(w)
  PROVE  FundingInv'
<1> DEFINE o == call[w].key
           c == [call[w] EXCEPT !.next = "sumInvestorCredits", !.total = Committed(o)]
<1>1. call[w] \in Calls /\ InvestCallWellFormed(call[w])
  BY DEF FundingInv, StoreTypeOK
<1>2. CASE End(w)
  BY <1>2, FundingEnds DEF LockOpportunity, End, investmentTables
<1>3. CASE FitsTarget(o, Committed(o), call[w].amount)
           /\ call' = [call EXCEPT ![w].next = "sumInvestorCredits", ![w].total = Committed(o)]
  <2>1. call' = [call EXCEPT ![w] = c]
    BY <1>3 DEF FundingInv, StoreTypeOK
  <2>2. Committed(o) \in Nat /\ "sumInvestorCredits" \in Steps
    BY CommittedNat DEF FundingInv, Steps
  <2>3. c \in Calls
    BY <1>1, <2>2 DEF Calls
  <2>4. /\ c.next = "sumInvestorCredits" /\ c.total = Committed(o)
        /\ c.key = call[w].key /\ c.investor = call[w].investor /\ c.amount = call[w].amount
    BY <1>1 DEF Calls
  <2>5. InvestCallWellFormed(c)
    BY <1>1, <1>3, <2>4 DEF InvestCallWellFormed, LockOpportunity
  <2>6. \A p \in Opportunities :
          Holds(c, p) => p = o /\ \A x \in Workers : ~HoldsLock(x, p)
    BY <2>4 DEF Holds, LockOpportunity, Locked
  <2> HIDE DEF c
  <2> QED
    BY <2>1, <2>3, <2>4, <2>5, <2>6, FundingMoves DEF LockOpportunity, investmentTables
<1> QED
  BY <1>2, <1>3 DEF LockOpportunity

(* A request that holds the lock keeps it, with the total, while it sums.    *)
LEMMA SumsKeepInv ==
  ASSUME FundingInv, NEW w \in Workers, SumInvestorCredits(w) \/ SumInvestorDebits(w)
  PROVE  FundingInv'
<1>1. call[w] \in Calls /\ InvestCallWellFormed(call[w])
  BY DEF FundingInv, StoreTypeOK
<1>2. /\ PostedCredits(call[w].investor) \in Int
      /\ call[w].seen - PostedDebits(call[w].investor) \in Int
  <2>1. \A direction : SumTxns(call[w].investor, "POSTED", direction) \in Nat
    BY SumTxnsNat DEF FundingInv, StoreTypeOK
  <2> QED
    BY <1>1, <2>1 DEF PostedCredits, PostedDebits, Calls
<1>3. ASSUME NEW step \in {"sumInvestorDebits", "createInvestment"}, NEW s \in Int,
             call[w].next \in {"sumInvestorCredits", "sumInvestorDebits"},
             Go(w, step, s), UNCHANGED <<investorStatus, walletTxn, journal, investmentTables>>
      PROVE  FundingInv'
  <2> DEFINE c == [call[w] EXCEPT !.next = step, !.seen = s]
  <2>1. call' = [call EXCEPT ![w] = c]
    BY <1>3 DEF Go, FundingInv, StoreTypeOK
  <2>2. step \in Steps
    BY DEF Steps
  <2>3. c \in Calls
    BY <1>1, <2>2 DEF Calls
  <2>4. /\ c.next = step /\ c.total = call[w].total
        /\ c.key = call[w].key /\ c.investor = call[w].investor /\ c.amount = call[w].amount
    BY <1>1 DEF Calls
  <2>5. InvestCallWellFormed(c)
    BY <1>1, <1>3, <2>4 DEF InvestCallWellFormed
  <2>6. ASSUME NEW o \in Opportunities, Holds(c, o)
        PROVE  c.total = Committed(o) /\ \A x \in Workers \ {w} : ~HoldsLock(x, o)
    <3>1. HoldsLock(w, o)
      BY <1>3, <2>4, <2>6 DEF Holds, HoldsLock
    <3> QED
      BY <2>4, <3>1 DEF FundingInv, OneHolder, TotalIsCurrentUnderLock
  <2> HIDE DEF c
  <2> QED
    BY <1>3, <2>1, <2>3, <2>5, <2>6, FundingMoves DEF investmentTables
<1>4. ASSUME End(w), UNCHANGED <<investorStatus, walletTxn, journal, investmentTables>>
      PROVE  FundingInv'
  BY <1>4, FundingEnds DEF End, investmentTables
<1> QED
  BY <1>2, <1>3, <1>4 DEF SumInvestorCredits, SumInvestorDebits

(* The commit under the lock.  The check made when the lock was taken still  *)
(* holds of the total, and rounding to paise keeps it: ten times the target  *)
(* is a whole number of paise.                                               *)
LEMMA RoundingFits ==
  ASSUME NEW total \in Nat, NEW a \in Nat, NEW target \in Nat, 10 * total + a <= 10 * target
  PROVE  total + Column(a) <= target
BY DEF Column

LEMMA RoundingFills ==
  ASSUME NEW total \in Nat, NEW a \in Nat, NEW target \in Nat, 10 * total + a >= 10 * target
  PROVE  total + Column(a) >= target
BY DEF Column

LEMMA CreateKeepsFunding ==
  ASSUME FundingInv, NEW w \in Workers, NEW v \in InvestmentIds, CreateInvestment(w, v)
  PROVE  FundingInv'
<1> DEFINE c == call[w]
           row == [status |-> "ACTIVE", investor |-> c.investor, opportunity |-> c.key,
                   principal |-> Column(c.amount)]
           txn == [status |-> "POSTED", investor |-> c.investor, amount |-> Column(c.amount)]
           entry == [investor |-> c.investor, amount |-> Column(c.amount)]
           ref == InvestmentRef(v)
<1>1. /\ c \in Calls /\ c.next = "createInvestment"
      /\ c.key \in Opportunities /\ c.investor \in Investors /\ c.amount \in Amounts
      /\ 10 * c.total + c.amount <= 10 * Target[c.key]
  BY DEF CreateInvestment, FundingInv, StoreTypeOK, InvestCallWellFormed, FitsTarget
<1>2. PICK o \in Opportunities : o = c.key
  BY <1>1
<1>3. /\ investments[v] = NoInvestment
      /\ investments' = [investments EXCEPT ![v] = row]
      /\ walletTxn' = [walletTxn EXCEPT ![ref] = txn]
      /\ journal' = [journal EXCEPT ![ref] = Append(@, entry)]
      /\ opportunities' = IF Fills(o, c.total, c.amount)
                          THEN [opportunities EXCEPT ![o] = "FULLY_FUNDED"]
                          ELSE opportunities
      /\ call' = [call EXCEPT ![w] = Idle]
      /\ UNCHANGED investorStatus
  BY <1>2 DEF CreateInvestment, PostJournal, Posted, CreateTxn, WithTxn, End
<1>4. /\ c.amount \in Nat /\ c.amount > 0 /\ c.total \in Nat /\ Target[o] \in Nat
      /\ Column(c.amount) \in Nat
  BY <1>1, AmountsPositive, ColumnNat, OpportunityAssumption DEF Calls, OpportunityAssumption
<1>5. row \in InvestmentRow /\ txn \in Txn /\ entry \in Entry /\ row.opportunity = o
      /\ row.principal = Column(c.amount)
  BY <1>1, <1>2, <1>4 DEF InvestmentRow, Txn, TxnStatus, Entry
<1>6. StoreTypeOK'
  <2> HIDE DEF txn, entry
  <2> QED
    BY <1>3, <1>5, InvestmentRefs, IdleIsACall DEF FundingInv, StoreTypeOK
<1>7. /\ opportunities' \in [Opportunities -> {"OPEN", "FULLY_FUNDED"}]
      /\ investments' \in [InvestmentIds -> InvestmentRow]
  <2> HIDE DEF row
  <2> QED
    BY <1>3, <1>5 DEF FundingInv
<1>8. /\ HoldsLock(w, o) /\ c.total = Committed(o)
      /\ \A x \in Workers \ {w} : ~HoldsLock(x, o)
  BY <1>1, <1>2 DEF HoldsLock, FundingInv, OneHolder, TotalIsCurrentUnderLock
<1>9. /\ Committed(o)' = c.total + Column(c.amount)
      /\ \A p \in Opportunities \ {o} : Committed(p)' = Committed(p)
  <2> HIDE DEF row
  <2> QED
    BY <1>3, <1>5, <1>8, CommittedGrows DEF FundingInv
<1>10. \A x \in Workers : call'[x] = IF x = w THEN Idle ELSE call[x]
  BY <1>3 DEF FundingInv, StoreTypeOK
<1>11. \A x \in Workers, p \in Opportunities :
         HoldsLock(x, p)' => x # w /\ p # o /\ HoldsLock(x, p)
  BY <1>8, <1>10 DEF HoldsLock, Idle
<1>12. \A x \in Workers : InvestCallWellFormed(call[x])'
  <2> SUFFICES ASSUME NEW x \in Workers PROVE InvestCallWellFormed(call[x])'
    OBVIOUS
  <2>1. InvestCallWellFormed(call[x])
    BY DEF FundingInv
  <2> QED
    BY <1>10, <2>1 DEF InvestCallWellFormed, Idle
<1>13. OneHolder'
  BY <1>11 DEF FundingInv, OneHolder
<1>14. TotalIsCurrentUnderLock'
  BY <1>9, <1>10, <1>11 DEF FundingInv, TotalIsCurrentUnderLock
<1>15. Committed(o)' <= Target[o]
  BY <1>1, <1>2, <1>4, <1>9, RoundingFits
<1>16. TargetNeverExceeded'
  BY <1>9, <1>15 DEF FundingInv, TargetNeverExceeded
<1>17. ClosedOnlyWhenFull'
  <2> SUFFICES ASSUME NEW p \in Opportunities, opportunities'[p] = "FULLY_FUNDED"
               PROVE  Committed(p)' = Target[p]
    BY DEF ClosedOnlyWhenFull
  <2>1. CASE p # o
    <3>1. opportunities[p] = "FULLY_FUNDED"
      BY <1>3, <2>1 DEF FundingInv
    <3> QED
      BY <1>9, <2>1, <3>1 DEF FundingInv, ClosedOnlyWhenFull
  <2>2. CASE p = o /\ Fills(o, c.total, c.amount)
    <3>1. c.total + Column(c.amount) >= Target[o]
      BY <1>4, <2>2, RoundingFills DEF Fills
    <3> QED
      BY <1>4, <1>9, <1>15, <2>2, <3>1
  <2>3. CASE p = o /\ ~Fills(o, c.total, c.amount)
    (* Full before the commit, it would have had no room for the request. *)
    <3>1. opportunities[o] = "FULLY_FUNDED"
      BY <1>3, <2>3
    <3>2. c.total = Target[o]
      BY <1>8, <3>1 DEF FundingInv, ClosedOnlyWhenFull
    <3> QED
      BY <1>1, <1>2, <1>4, <3>2
  <2> QED
    BY <2>1, <2>2, <2>3
<1> QED
  BY <1>6, <1>7, <1>12, <1>13, <1>14, <1>16, <1>17 DEF FundingInv

(* A default changes a status, and no total.                                 *)
LEMMA DefaultKeepsFunding ==
  ASSUME FundingInv, NEW w \in Workers, MarkDefaulted(w)
  PROVE  FundingInv'
<1>1. PICK v \in InvestmentIds : v = call[w].id
  BY DEF MarkDefaulted, FundingInv, InvestCallWellFormed
<1> DEFINE row == [investments[v] EXCEPT !.status = "DEFAULTED"]
<1>2. /\ investments' = [investments EXCEPT ![v] = row]
      /\ call' = [call EXCEPT ![w] = Idle]
      /\ UNCHANGED <<investorStatus, walletTxn, journal, opportunities>>
  BY <1>1 DEF MarkDefaulted, End, FundingInv
<1>3. investments[v] \in InvestmentRow
  BY DEF FundingInv
<1>4. /\ row \in InvestmentRow
      /\ row.opportunity = investments[v].opportunity /\ row.principal = investments[v].principal
  BY <1>3 DEF InvestmentRow
<1> HIDE DEF row
<1>5. /\ investments' \in [InvestmentIds -> InvestmentRow]
      /\ \A x \in InvestmentIds : /\ investments'[x].opportunity = investments[x].opportunity
                                  /\ investments'[x].principal = investments[x].principal
  BY <1>2, <1>4 DEF FundingInv
<1>6. \A o \in Opportunities : Committed(o)' = Committed(o)
  BY <1>5, CommittedSame
<1>7. \A x \in Workers : call'[x] = IF x = w THEN Idle ELSE call[x]
  BY <1>2 DEF FundingInv, StoreTypeOK
<1>8. \A x \in Workers, o \in Opportunities : HoldsLock(x, o)' => x # w /\ HoldsLock(x, o)
  BY <1>7 DEF HoldsLock, Idle
<1>9. StoreTypeOK'
  BY <1>2, IdleIsACall DEF FundingInv, StoreTypeOK
<1>10. \A x \in Workers : InvestCallWellFormed(call[x])'
  BY <1>7 DEF FundingInv, InvestCallWellFormed, Idle
<1>11. OneHolder' /\ TotalIsCurrentUnderLock'
  BY <1>6, <1>7, <1>8 DEF FundingInv, OneHolder, TotalIsCurrentUnderLock
<1>12. TargetNeverExceeded' /\ ClosedOnlyWhenFull'
  BY <1>2, <1>6 DEF FundingInv, TargetNeverExceeded, ClosedOnlyWhenFull
<1> QED
  BY <1>2, <1>5, <1>9, <1>10, <1>11, <1>12 DEF FundingInv
-----------------------------------------------------------------------------
(* Every step keeps the invariant.                                           *)
LEMMA FundingStep == FundingInv /\ [Next]_investmentVars => FundingInv'
<1> SUFFICES ASSUME FundingInv, [Next]_investmentVars PROVE FundingInv'
  OBVIOUS
<1>1. CASE UNCHANGED investmentVars
  <2>1. \A o \in Opportunities : Committed(o)' = Committed(o)
    BY <1>1, CommittedSame DEF investmentVars, investmentTables
  <2>2. \A w \in Workers : InvestCallWellFormed(call[w])'
    BY <1>1 DEF investmentVars, storeVars, FundingInv, InvestCallWellFormed
  <2>3. OneHolder' /\ TotalIsCurrentUnderLock'
    BY <1>1, <2>1 DEF investmentVars, storeVars, FundingInv, OneHolder, TotalIsCurrentUnderLock,
         HoldsLock
  <2>4. TargetNeverExceeded' /\ ClosedOnlyWhenFull'
    BY <1>1, <2>1 DEF investmentVars, investmentTables, FundingInv, TargetNeverExceeded,
         ClosedOnlyWhenFull
  <2> QED
    BY <1>1, <2>2, <2>3, <2>4 DEF investmentVars, investmentTables, storeVars, FundingInv,
         StoreTypeOK
<1>2. CASE Next
  <2>1. PICK w \in Workers : InvestmentNext(w) \/ (Abort(w) /\ UNCHANGED investmentTables)
    BY <1>2 DEF Next
  <2>2. ASSUME NEW i \in Investors, NEW o \in Opportunities, NEW a \in Amounts,
               StartInvest(w, i, o, a)
        PROVE  FundingInv'
    BY <2>2, StartInvestKeepsInv
  <2>3. ASSUME NEW v \in InvestmentIds, StartMarkDefaulted(w, v) PROVE FundingInv'
    BY <2>3, StartDefaultKeepsInv
  <2>4. CASE LockOpportunity(w)
    BY <2>4, LockKeepsInv
  <2>5. CASE SumInvestorCredits(w) \/ SumInvestorDebits(w)
    BY <2>5, SumsKeepInv
  <2>6. ASSUME NEW v \in InvestmentIds, CreateInvestment(w, v) PROVE FundingInv'
    BY <2>6, CreateKeepsFunding
  <2>7. CASE MarkDefaulted(w)
    BY <2>7, DefaultKeepsFunding
  <2>8. CASE Abort(w) /\ UNCHANGED investmentTables
    BY <2>8, FundingEnds DEF Abort, End, investmentTables
  <2> QED
    BY <2>1, <2>2, <2>3, <2>4, <2>5, <2>6, <2>7, <2>8 DEF InvestmentNext, InvestmentStep
<1> QED
  BY <1>1, <1>2

(* The inductive invariant holds throughout: one request holds the lock of an*)
(* opportunity, and what it read and checked under it is still so.           *)
THEOREM FundingHolds == Spec => []FundingInv
<1> QED
  BY FundingInit, FundingStep, PTL DEF Spec

(* However many requests compete for the last of an opportunity, and for any *)
(* target and amounts, rounding included, it never takes more than that.     *)
THEOREM TargetIsKept == Spec => []TargetNeverExceeded
<1>1. FundingInv => TargetNeverExceeded
  BY DEF FundingInv
<1> QED
  BY <1>1, FundingHolds, PTL

(* SELECT ... FOR UPDATE does what the handler relies on: from the lock to   *)
(* the commit, the total it re-derived is the committed total.               *)
THEOREM LockKeepsTotal == Spec => []TotalIsCurrentUnderLock
<1>1. FundingInv => TotalIsCurrentUnderLock
  BY DEF FundingInv
<1> QED
  BY <1>1, FundingHolds, PTL

(* An opportunity is never closed to investors before it has its target.     *)
THEOREM FullIsFunded == Spec => []ClosedOnlyWhenFull
<1>1. FundingInv => ClosedOnlyWhenFull
  BY DEF FundingInv
<1> QED
  BY <1>1, FundingHolds, PTL
-----------------------------------------------------------------------------
(* The wallet.  Requests for different opportunities decide on one balance   *)
(* under different locks.  Of each opportunity f says how much of an         *)
(* investor's money the request that holds its lock may still take; when a   *)
(* request is found covered, the others may take no more than the maximum of *)
(* each of the other opportunities, and from then on both sides only fall    *)
(* together.                                                                 *)
Elsewhere(o) == Total([p \in Opportunities \ {o} |-> Maximum[p]])

Takings(balance) ==
  {f \in [Opportunities -> Nat] :
     /\ \A p \in Opportunities : f[p] <= Maximum[p]
     /\ \/ Total(f) <= balance
        \/ \E o \in Opportunities : Total(f) - balance <= Elsewhere(o)}

MayTake(f, i) ==
  \A w \in Workers :
    call[w].next = "createInvestment" /\ call[w].investor = i
      => Column(call[w].amount) <= f[call[w].key]

Covered(c) ==
  /\ c.next = "sumInvestorDebits" => c.seen <= PostedCredits(c.investor)
  /\ c.next \in {"lockOpportunity", "sumInvestorCredits", "sumInvestorDebits", "createInvestment"}
       => c.amount <= 10 * Maximum[c.key]

NotDebitedBefore ==
  \A v \in InvestmentIds :
    investments[v] = NoInvestment => walletTxn[InvestmentRef(v)].status = "NONE"

WalletInv ==
  /\ FundingInv
  /\ NotDebitedBefore
  /\ \A w \in Workers : Covered(call[w])
  /\ \A i \in Investors : \E f \in Takings(AvailableBalance(i)) : MayTake(f, i)

LEMMA MaximumNat == \A o \in Opportunities : Maximum[o] \in Nat
  BY OpportunityAssumption DEF OpportunityAssumption

LEMMA BalancesTyped ==
  ASSUME FundingInv, NEW i
  PROVE  PostedCredits(i) \in Nat /\ PostedDebits(i) \in Nat
  BY SumTxnsNat DEF FundingInv, StoreTypeOK, PostedCredits, PostedDebits

(* The debit: its amount is what the investor's posted debits grow by, and   *)
(* its row is a new one.                                                     *)
LEMMA CreateDebits ==
  ASSUME FundingInv, FundingInv', NotDebitedBefore,
         NEW w \in Workers, NEW v \in InvestmentIds, CreateInvestment(w, v)
  PROVE  /\ NotDebitedBefore'
         /\ \A j : /\ PostedCredits(j)' = PostedCredits(j)
                  /\ PostedDebits(j)' = IF j = call[w].investor
                                        THEN PostedDebits(j) + Column(call[w].amount)
                                        ELSE PostedDebits(j)
<1>1. call[w].investor \in Investors
  BY DEF CreateInvestment, FundingInv, InvestCallWellFormed
<1>2. PICK i \in Investors : i = call[w].investor
  BY <1>1
<1>3. PICK a \in Nat : a = Column(call[w].amount)
  BY ColumnNat DEF FundingInv, StoreTypeOK, Calls
<1>4. PICK ref \in References : ref = InvestmentRef(v)
  BY InvestmentRefs
<1> DEFINE txn == [status |-> "POSTED", investor |-> i, amount |-> a]
<1>5. /\ walletTxn' = [walletTxn EXCEPT ![ref] = txn]
      /\ investments[v] = NoInvestment
      /\ investments' = [investments EXCEPT ![v] =
           [status |-> "ACTIVE", investor |-> call[w].investor, opportunity |-> call[w].key,
            principal |-> Column(call[w].amount)]]
  BY <1>2, <1>3, <1>4 DEF CreateInvestment, CreateTxn, WithTxn
<1>6. /\ walletTxn \in [References -> Txn] /\ walletTxn' \in [References -> Txn]
      /\ walletTxn[ref].status = "NONE" /\ Direction(ref[1]) = "DEBIT"
  BY <1>4, <1>5 DEF FundingInv, StoreTypeOK, NotDebitedBefore, InvestmentRef, Direction
<1>7. walletTxn'[ref] = txn /\ \A r \in References \ {ref} : walletTxn'[r] = walletTxn[r]
  BY <1>5, <1>6
<1>8. \A j : /\ PostedCredits(j)' = PostedCredits(j)
             /\ PostedDebits(j)' = IF j = i THEN PostedDebits(j) + a ELSE PostedDebits(j)
  <2>1. \A j, status, direction : status # "NONE" =>
          IF walletTxn'[ref].status = status /\ walletTxn'[ref].investor = j /\ direction = "DEBIT"
          THEN SumTxns(j, status, direction)'
                 = SumTxns(j, status, direction) + walletTxn'[ref].amount
          ELSE SumTxns(j, status, direction)' = SumTxns(j, status, direction)
    BY <1>6, <1>7, SumTxnsGrows
  <2>2. /\ walletTxn'[ref].status = "POSTED" /\ walletTxn'[ref].investor = i
        /\ walletTxn'[ref].amount = a
    BY <1>7
  <2> QED
    BY <2>1, <2>2 DEF PostedCredits, PostedDebits
<1>9. NotDebitedBefore'
  <2> SUFFICES ASSUME NEW x \in InvestmentIds, investments'[x] = NoInvestment
               PROVE  walletTxn'[InvestmentRef(x)].status = "NONE"
    BY DEF NotDebitedBefore
  <2>1. x # v
    BY <1>5 DEF NoInvestment, FundingInv
  <2>2. InvestmentRef(x) # ref /\ investments[x] = NoInvestment
    BY <1>4, <1>5, <2>1 DEF InvestmentRef, FundingInv
  <2> QED
    BY <1>5, <1>6, <2>2 DEF NotDebitedBefore
<1> QED
  BY <1>2, <1>3, <1>8, <1>9

(* An amount that is covered is covered once it is rounded to paise.         *)
LEMMA RoundingCovered ==
  ASSUME NEW balance \in Int, NEW a \in Nat, a <= 10 * balance
  PROVE  Column(a) <= balance
BY DEF Column

LEMMA WalletInit ==
  Init => /\ FundingInv /\ NotDebitedBefore
          /\ \A w \in Workers : call[w] = Idle
          /\ \A i \in Investors : AvailableBalance(i) \in Nat
<1> SUFFICES ASSUME Init
             PROVE  /\ FundingInv /\ NotDebitedBefore
                    /\ \A w \in Workers : call[w] = Idle
                    /\ \A i \in Investors : AvailableBalance(i) \in Nat
  OBVIOUS
<1>1. FundingInv
  BY FundingInit
<1>2. PICK owner \in [DepositIds -> Investors] : OpenWith(DepositedBefore(owner, OpeningAmount))
  BY DEF Init
<1> DEFINE opening == DepositedBefore(owner, OpeningAmount)
<1>3. \A r \in DOMAIN opening : Direction(r[1]) = "CREDIT" /\ r[1] = "DEPOSIT"
  BY DEF DepositedBefore, DepositRef, Direction
<1> HIDE DEF opening
<1>4. \A r \in References : r \notin DOMAIN opening => walletTxn[r].status = "NONE"
  BY <1>2 DEF OpenWith, NoTxn, opening
<1>5. ASSUME NEW i \in Investors PROVE AvailableBalance(i) \in Nat
  <2>1. Txns(i, "POSTED", "DEBIT") = {}
    BY <1>3, <1>4 DEF Txns
  <2>2. DOMAIN [r \in Txns(i, "POSTED", "DEBIT") |-> walletTxn[r].amount] = {}
    BY <2>1
  <2>3. PostedDebits(i) = 0
    BY <2>2, TotalOfNothing DEF PostedDebits, SumTxns
  <2> QED
    BY <1>1, <2>3, BalancesTyped DEF AvailableBalance
<1>6. NotDebitedBefore
  <2> SUFFICES ASSUME NEW v \in InvestmentIds PROVE walletTxn[InvestmentRef(v)].status = "NONE"
    BY DEF NotDebitedBefore
  <2>1. InvestmentRef(v) \in References /\ InvestmentRef(v)[1] # "DEPOSIT"
    BY InvestmentRefs DEF InvestmentRef
  <2> QED
    BY <1>3, <1>4, <2>1
<1>7. \A w \in Workers : call[w] = Idle
  BY <1>2 DEF OpenWith
<1> QED
  BY <1>1, <1>5, <1>6, <1>7

(* What is said of sums over the opportunities: they are numbers, they grow  *)
(* with their terms, and change by what one of them changes.                 *)
LEMMA TotalBelow ==
  ASSUME NEW f, NEW g, IsFiniteSet(DOMAIN g), DOMAIN f = DOMAIN g,
         \A x \in DOMAIN g : f[x] \in Nat /\ g[x] \in Nat /\ f[x] <= g[x]
  PROVE  Total(f) <= Total(g)
<1>1. IsFiniteSet(Units(g))
  BY UnitsFinite
<1>2. Units(f) \in SUBSET Units(g)
  BY DEF Units
<1> QED
  BY <1>1, <1>2, FS_Subset, FS_CardinalityType DEF Total

LEMMA TotalChanges ==
  ASSUME NEW f, NEW g, NEW h, NEW o, IsFiniteSet(DOMAIN f), o \in DOMAIN f,
         \A x \in DOMAIN f : f[x] \in Nat /\ g[x] \in Nat,
         DOMAIN g = DOMAIN f, DOMAIN h = DOMAIN f \ {o},
         \A x \in DOMAIN h : h[x] = f[x] /\ g[x] = f[x]
  PROVE  /\ Total(f) \in Nat /\ Total(h) \in Nat
         /\ Total(f) = Total(h) + f[o]
         /\ Total(g) = Total(h) + g[o]
<1>1. IsFiniteSet(DOMAIN h) /\ \A p \in DOMAIN h : h[p] \in Nat
  <2>1. DOMAIN h \in SUBSET (DOMAIN f)
    OBVIOUS
  <2> QED
    BY <2>1, FS_Subset
<1>2. /\ DOMAIN f = DOMAIN h \cup {o} /\ DOMAIN g = DOMAIN h \cup {o} /\ o \notin DOMAIN h
      /\ f[o] \in Nat /\ g[o] \in Nat
  OBVIOUS
<1>3. Total(f) = Total(h) + f[o] /\ Total(g) = Total(h) + g[o]
  <2>1. \A p \in DOMAIN h : f[p] = h[p] /\ g[p] = h[p]
    OBVIOUS
  <2>2. Total(f) = Total(h) + f[o]
    <3>1. /\ o \notin DOMAIN h /\ IsFiniteSet(DOMAIN h) /\ \A y \in DOMAIN h : h[y] \in Nat
          /\ f[o] \in Nat /\ DOMAIN f = DOMAIN h \cup {o} /\ \A y \in DOMAIN h : f[y] = h[y]
      BY <1>1, <1>2
    <3> QED
      BY ONLY <3>1, TotalAdd
  <2>3. Total(g) = Total(h) + g[o]
    BY <1>1, <1>2, <2>1, TotalAdd
  <2> QED
    BY <2>2, <2>3
<1>4. Total(h) \in Nat
  BY <1>1, TotalNat
<1> QED
  BY <1>2, <1>3, <1>4

(* Steps that post nothing to the wallet: what a request that is not found   *)
(* covered by this step may take is no more than before.                     *)
LEMMA BalancesSame ==
  ASSUME UNCHANGED walletTxn
  PROVE  \A i : PostedCredits(i)' = PostedCredits(i) /\ AvailableBalance(i)' = AvailableBalance(i)
<1>1. \A i, status, direction :
        SumTxns(i, status, direction)' = SumTxns(i, status, direction)
  BY DEF SumTxns, Txns
<1> QED
  BY <1>1 DEF AvailableBalance, PostedCredits, PostedDebits

LEMMA WalletMoves ==
  ASSUME WalletInv, FundingInv', UNCHANGED walletTxn,
         \A v \in InvestmentIds : investments'[v] = NoInvestment => investments[v] = NoInvestment,
         NEW w \in Workers, \A x \in Workers \ {w} : call'[x] = call[x], Covered(call[w])',
         \A i \in Investors :
           \E f \in Takings(AvailableBalance(i)) :
             /\ \A x \in Workers \ {w} :
                  call[x].next = "createInvestment" /\ call[x].investor = i
                    => Column(call[x].amount) <= f[call[x].key]
             /\ call'[w].next = "createInvestment" /\ call'[w].investor = i
                  => Column(call'[w].amount) <= f[call'[w].key]
  PROVE  WalletInv'
<1>1. \A i : PostedCredits(i)' = PostedCredits(i) /\ AvailableBalance(i)' = AvailableBalance(i)
  BY BalancesSame
<1>2. NotDebitedBefore'
  BY DEF WalletInv, NotDebitedBefore
<1>3. ASSUME NEW x \in Workers \ {w} PROVE Covered(call[x])'
  <2>1. Covered(call[x]) /\ call'[x] = call[x]
    BY DEF WalletInv
  <2> QED
    BY <1>1, <2>1 DEF Covered
<1>4. ASSUME NEW i \in Investors PROVE \E f \in Takings(AvailableBalance(i))' : MayTake(f, i)'
  <2>1. PICK f \in Takings(AvailableBalance(i)) :
          /\ \A x \in Workers \ {w} :
               call[x].next = "createInvestment" /\ call[x].investor = i
                 => Column(call[x].amount) <= f[call[x].key]
          /\ call'[w].next = "createInvestment" /\ call'[w].investor = i
               => Column(call'[w].amount) <= f[call'[w].key]
    OBVIOUS
  <2>2. MayTake(f, i)'
    BY <2>1 DEF MayTake
  <2>3. f \in Takings(AvailableBalance(i))'
    BY <1>1, <2>1 DEF Takings, Elsewhere
  <2> QED
    BY <2>2, <2>3
<1> QED
  BY <1>2, <1>3, <1>4 DEF WalletInv

(* A request that does not come to its commit by this step.                  *)
LEMMA WalletPasses ==
  ASSUME WalletInv, FundingInv', UNCHANGED walletTxn,
         \A v \in InvestmentIds : investments'[v] = NoInvestment => investments[v] = NoInvestment,
         NEW w \in Workers, \A x \in Workers \ {w} : call'[x] = call[x], Covered(call[w])',
         call'[w].next # "createInvestment"
  PROVE  WalletInv'
<1>1. ASSUME NEW i \in Investors
      PROVE  \E f \in Takings(AvailableBalance(i)) :
               /\ \A x \in Workers \ {w} :
                    call[x].next = "createInvestment" /\ call[x].investor = i
                      => Column(call[x].amount) <= f[call[x].key]
               /\ call'[w].next = "createInvestment" /\ call'[w].investor = i
                    => Column(call'[w].amount) <= f[call'[w].key]
  <2>1. PICK f \in Takings(AvailableBalance(i)) : MayTake(f, i)
    BY DEF WalletInv
  <2> QED
    BY <2>1 DEF MayTake
<1> QED
  BY <1>1, WalletMoves

(* A request found covered may take its amount; whatever it was found of the *)
(* others, they may take what is left of the other opportunities' maxima.    *)
LEMMA CoveredTakes ==
  ASSUME IsFiniteSet(Opportunities), NEW b \in Int, NEW f \in Takings(b),
         NEW o \in Opportunities, NEW n \in Nat, n <= b, n <= Maximum[o]
  PROVE  [f EXCEPT ![o] = n] \in Takings(b)
<1> DEFINE h == [p \in Opportunities \ {o} |-> f[p]]
           m == [p \in Opportunities \ {o} |-> Maximum[p]]
           g == [f EXCEPT ![o] = n]
<1>1. f \in [Opportunities -> Nat] /\ \A p \in Opportunities : f[p] <= Maximum[p]
  BY DEF Takings
<1>2. Total(g) = Total(h) + n /\ Total(h) \in Nat
  <2>1. /\ g \in [Opportunities -> Nat] /\ g[o] = n
        /\ \A p \in Opportunities \ {o} : g[p] = f[p]
    BY <1>1
  <2>2. PICK k : k = g
    OBVIOUS
  <2>3. PICK rest : rest = h
    OBVIOUS
  <2>4. Total(k) = Total(rest) + k[o] /\ Total(rest) \in Nat
    <3>1. /\ DOMAIN f = Opportunities /\ DOMAIN k = Opportunities
          /\ DOMAIN rest = Opportunities \ {o}
          /\ \A x \in Opportunities : f[x] \in Nat /\ k[x] \in Nat
          /\ \A x \in DOMAIN rest : rest[x] = f[x] /\ k[x] = f[x]
      BY <1>1, <2>1, <2>2, <2>3
    <3> QED
      BY <3>1, TotalChanges
  <2> QED
    BY <2>1, <2>2, <2>3, <2>4
<1>3. Total(h) <= Total(m) /\ Total(m) \in Nat
  <2>1. /\ DOMAIN h = DOMAIN m /\ IsFiniteSet(DOMAIN m)
        /\ \A p \in DOMAIN m : h[p] \in Nat /\ m[p] \in Nat /\ h[p] <= m[p]
    <3>1. Opportunities \ {o} \in SUBSET Opportunities
      OBVIOUS
    <3> QED
      BY <1>1, <3>1, MaximumNat, FS_Subset
  <2> HIDE DEF h, m
  <2> QED
    BY <2>1, TotalBelow, TotalNat
<1>4. Total(g) - b <= Elsewhere(o)
  BY <1>2, <1>3 DEF Elsewhere
<1>5. g \in [Opportunities -> Nat] /\ \A p \in Opportunities : g[p] <= Maximum[p]
  BY <1>1
<1> QED
  BY <1>4, <1>5 DEF Takings

LEMMA SumsKeepWallet ==
  ASSUME IsFiniteSet(Opportunities), WalletInv, FundingInv', NEW w \in Workers,
         SumInvestorCredits(w) \/ SumInvestorDebits(w)
  PROVE  WalletInv'
<1>1. /\ call[w] \in Calls /\ call[w].investor \in Investors /\ call[w].amount \in Nat
      /\ call[w].key \in Opportunities /\ call[w].amount <= 10 * Maximum[call[w].key]
      /\ UNCHANGED <<walletTxn, investments>>
  BY DEF WalletInv, FundingInv, StoreTypeOK, InvestCallWellFormed, Covered, SumInvestorCredits,
       SumInvestorDebits, investmentTables, Calls
<1>2. PICK i \in Investors : i = call[w].investor
  BY <1>1
<1>3. PICK o \in Opportunities : o = call[w].key
  BY <1>1
<1>4. PostedCredits(i)' = PostedCredits(i)
  BY <1>1, BalancesSame
<1>5. /\ PostedCredits(i) \in Nat /\ PostedDebits(i) \in Nat
      /\ AvailableBalance(i) = PostedCredits(i) - PostedDebits(i)
  BY BalancesTyped DEF WalletInv, AvailableBalance
<1>6. call \in [Workers -> Calls] /\ call'[w] \in Calls
  BY DEF WalletInv, FundingInv, StoreTypeOK
<1>7. CASE SumInvestorCredits(w)
  <2>1. /\ \A x \in Workers \ {w} : call'[x] = call[x]
        /\ call'[w].next = "sumInvestorDebits" /\ call'[w].seen = PostedCredits(i)
        /\ call'[w].investor = i /\ call'[w].key = o /\ call'[w].amount = call[w].amount
    BY <1>1, <1>2, <1>3, <1>6, <1>7 DEF SumInvestorCredits, Go, Calls
  <2>2. Covered(call[w])'
    BY <1>1, <1>3, <1>4, <1>5, <2>1 DEF Covered
  <2> QED
    BY <1>1, <2>1, <2>2, WalletPasses
<1>8. CASE SumInvestorDebits(w) /\ End(w)
  <2>1. /\ \A x \in Workers \ {w} : call'[x] = call[x]
        /\ call'[w] = Idle
    BY <1>6, <1>8 DEF End
  <2>2. Covered(call[w])' /\ call'[w].next # "createInvestment"
    BY <2>1 DEF Covered, Idle
  <2> QED
    BY <1>1, <2>1, <2>2, WalletPasses
<1>9. CASE /\ SumInvestorDebits(w)
           /\ Covers(call[w].seen - PostedDebits(i), call[w].amount)
           /\ Go(w, "createInvestment", call[w].seen - PostedDebits(i))
  <2>1. /\ \A x \in Workers \ {w} : call'[x] = call[x]
        /\ call'[w].next = "createInvestment" /\ call'[w].amount = call[w].amount
        /\ call'[w].investor = i /\ call'[w].key = o
    BY <1>1, <1>2, <1>3, <1>6, <1>9 DEF Go, Calls
  <2>2. call[w].seen <= PostedCredits(i) /\ call[w].seen \in Int
    BY <1>1, <1>2, <1>9 DEF SumInvestorDebits, WalletInv, Covered, Calls
  <2>3. PICK n \in Nat : n = Column(call[w].amount)
    BY <1>1, ColumnNat
  <2>4. n <= AvailableBalance(i) /\ n <= Maximum[o] /\ AvailableBalance(i) \in Int
    <3>1. call[w].amount <= 10 * AvailableBalance(i) /\ AvailableBalance(i) \in Int
      BY <1>1, <1>5, <1>9, <2>2 DEF Covers
    <3>2. Maximum[o] \in Int
      BY MaximumNat
    <3> QED
      BY <1>1, <1>3, <2>3, <3>1, <3>2, RoundingCovered
  <2>5. Covered(call[w])'
    BY <1>1, <1>3, <2>1 DEF Covered
  <2>6. ASSUME NEW j \in Investors
        PROVE  \E f \in Takings(AvailableBalance(j)) :
                 /\ \A x \in Workers \ {w} :
                      call[x].next = "createInvestment" /\ call[x].investor = j
                        => Column(call[x].amount) <= f[call[x].key]
                 /\ call'[w].next = "createInvestment" /\ call'[w].investor = j
                      => Column(call'[w].amount) <= f[call'[w].key]
    <3>1. PICK f \in Takings(AvailableBalance(j)) : MayTake(f, j)
      BY DEF WalletInv
    <3>2. CASE j # i
      BY <2>1, <3>1, <3>2 DEF MayTake
    <3>3. CASE j = i
      <4> DEFINE g == [f EXCEPT ![o] = n]
      <4>1. g \in Takings(AvailableBalance(j))
        BY <2>4, <3>1, <3>3, CoveredTakes
      <4>2. f \in [Opportunities -> Nat]
        BY <3>1 DEF Takings
      <4>3. ASSUME NEW x \in Workers \ {w}, call[x].next = "createInvestment",
                   call[x].investor = j
            PROVE  Column(call[x].amount) <= g[call[x].key]
        <5>1. call[x].key \in Opportunities /\ call[x].key # o
          BY <1>3, <1>9, <4>3 DEF WalletInv, FundingInv, InvestCallWellFormed, OneHolder,
               HoldsLock, SumInvestorDebits
        <5> QED
          BY <3>1, <4>2, <4>3, <5>1 DEF MayTake
      <4>4. Column(call'[w].amount) <= g[call'[w].key]
        BY <2>1, <2>3, <4>2
      <4> QED
        BY <4>1, <4>3, <4>4
    <3> QED
      BY <3>2, <3>3
  <2> QED
    BY <1>1, <2>1, <2>5, <2>6, WalletMoves
<1> QED
  BY <1>2, <1>7, <1>8, <1>9 DEF SumInvestorDebits

(* The debit takes what its request might take: the balance falls by it, and *)
(* so does what may still be taken.                                          *)
LEMMA DebitTakes ==
  ASSUME IsFiniteSet(Opportunities), NEW b \in Int, NEW f \in Takings(b),
         NEW o \in Opportunities, NEW n \in Nat, n <= f[o]
  PROVE  [f EXCEPT ![o] = f[o] - n] \in Takings(b - n)
<1> DEFINE g == [f EXCEPT ![o] = f[o] - n]
<1>1. /\ f \in [Opportunities -> Nat] /\ \A p \in Opportunities : f[p] <= Maximum[p]
      /\ \/ Total(f) <= b
         \/ \E p \in Opportunities : Total(f) - b <= Elsewhere(p)
  BY DEF Takings
<1>2. PICK k \in Nat : k = f[o] - n
  BY <1>1
<1>3. Total(f) \in Nat /\ Total(g) = Total(f) - n
  <2>1. /\ g \in [Opportunities -> Nat] /\ g[o] = k
        /\ \A p \in Opportunities \ {o} : g[p] = f[p]
    BY <1>1, <1>2
  <2>2. PICK after : after = g
    OBVIOUS
  <2>3. PICK rest : rest = [p \in Opportunities \ {o} |-> f[p]]
    OBVIOUS
  <2>4. /\ Total(f) \in Nat /\ Total(rest) \in Nat
        /\ Total(f) = Total(rest) + f[o] /\ Total(after) = Total(rest) + after[o]
    <3>1. /\ DOMAIN f = Opportunities /\ DOMAIN after = Opportunities
          /\ DOMAIN rest = Opportunities \ {o}
          /\ \A x \in Opportunities : f[x] \in Nat /\ after[x] \in Nat
          /\ \A x \in DOMAIN rest : rest[x] = f[x] /\ after[x] = f[x]
      BY <1>1, <2>1, <2>2, <2>3
    <3> QED
      BY <3>1, TotalChanges
  <2>5. f[o] \in Nat
    BY <1>1
  <2> QED
    BY <1>2, <2>1, <2>2, <2>4, <2>5
<1>4. g \in [Opportunities -> Nat]
  BY <1>1, <1>2
<1>5. \A p \in Opportunities : g[p] <= Maximum[p]
  BY <1>1, <1>2, MaximumNat
<1>6. Total(g) - (b - n) = Total(f) - b /\ (Total(f) <= b => Total(g) <= b - n)
  BY <1>3
<1> HIDE DEF g
<1>7. g \in Takings(b - n)
  BY <1>1, <1>4, <1>5, <1>6 DEF Takings
<1> QED
  BY <1>7 DEF g

LEMMA CreateKeepsWallet ==
  ASSUME IsFiniteSet(Opportunities), WalletInv, FundingInv',
         NEW w \in Workers, NEW v \in InvestmentIds, CreateInvestment(w, v)
  PROVE  WalletInv'
<1>1. /\ call[w] \in Calls /\ call[w].next = "createInvestment"
      /\ call[w].key \in Opportunities /\ call[w].investor \in Investors
      /\ call[w].amount \in Nat
  BY DEF CreateInvestment, WalletInv, FundingInv, StoreTypeOK, InvestCallWellFormed, Calls
<1>2. PICK i \in Investors : i = call[w].investor
  BY <1>1
<1>3. PICK o \in Opportunities : o = call[w].key
  BY <1>1
<1>4. PICK n \in Nat : n = Column(call[w].amount)
  BY <1>1, ColumnNat
<1>5. \A x \in Workers : call'[x] = IF x = w THEN Idle ELSE call[x]
  BY DEF CreateInvestment, End, WalletInv, FundingInv, StoreTypeOK
<1>6. /\ NotDebitedBefore'
      /\ \A j : /\ PostedCredits(j)' = PostedCredits(j)
               /\ PostedDebits(j)' = IF j = i THEN PostedDebits(j) + n ELSE PostedDebits(j)
  BY <1>2, <1>4, CreateDebits DEF WalletInv
<1>7. \A j : PostedCredits(j) \in Nat /\ PostedDebits(j) \in Nat
  BY BalancesTyped DEF WalletInv
<1>8. ASSUME NEW x \in Workers PROVE Covered(call[x])'
  BY <1>5, <1>6 DEF WalletInv, Covered, Idle
<1>9. ASSUME NEW j \in Investors PROVE \E f \in Takings(AvailableBalance(j))' : MayTake(f, j)'
  <2>1. PICK f \in Takings(AvailableBalance(j)) : MayTake(f, j)
    BY DEF WalletInv
  <2>2. PICK b \in Int : b = AvailableBalance(j)
    BY <1>7 DEF AvailableBalance
  <2>3. \A x : Takings(x)' = Takings(x)
    BY DEF Takings, Elsewhere
  <2>4. CASE j # i
    <3>1. AvailableBalance(j)' = AvailableBalance(j)
      BY <1>6, <2>4 DEF AvailableBalance
    <3>2. MayTake(f, j)'
      BY <1>5, <2>1 DEF MayTake, Idle
    <3> QED
      BY <2>1, <2>3, <3>1, <3>2
  <2>5. CASE j = i
    <3> DEFINE g == [f EXCEPT ![o] = f[o] - n]
    <3>1. AvailableBalance(j)' = b - n
      BY <1>6, <1>7, <2>2, <2>5 DEF AvailableBalance
    <3>2. n <= f[o]
      BY <1>1, <1>2, <1>3, <1>4, <2>1, <2>5 DEF MayTake
    <3>3. g \in Takings(b - n)
      BY <2>1, <2>2, <3>2, DebitTakes
    <3>4. MayTake(g, j)'
      <4> SUFFICES ASSUME NEW x \in Workers, call'[x].next = "createInvestment",
                          call'[x].investor = j
                   PROVE  Column(call'[x].amount) <= g[call'[x].key]
        BY DEF MayTake
      <4>1. x # w /\ call'[x] = call[x]
        BY <1>5 DEF Idle
      <4>2. call[x].key \in Opportunities /\ call[x].key # o
        BY <1>1, <1>3, <4>1 DEF WalletInv, FundingInv, InvestCallWellFormed, OneHolder, HoldsLock
      <4>3. f \in [Opportunities -> Nat]
        BY <2>1 DEF Takings
      <4>4. g[call[x].key] = f[call[x].key]
        BY <4>2, <4>3
      <4> QED
        BY <2>1, <4>1, <4>4 DEF MayTake
    <3> QED
      BY <2>3, <3>1, <3>3, <3>4
  <2> QED
    BY <2>4, <2>5
<1> QED
  BY <1>6, <1>8, <1>9 DEF WalletInv

LEMMA WalletStep ==
  ASSUME IsFiniteSet(Opportunities)
  PROVE  WalletInv /\ [Next]_investmentVars => WalletInv'
<1> SUFFICES ASSUME WalletInv, [Next]_investmentVars PROVE WalletInv'
  OBVIOUS
<1>1. FundingInv'
  BY FundingStep DEF WalletInv
<1>2. call \in [Workers -> Calls] /\ investments \in [InvestmentIds -> InvestmentRow]
  BY DEF WalletInv, FundingInv, StoreTypeOK
<1>3. ASSUME NEW w \in Workers, NEW c, c.next \notin {"sumInvestorDebits", "createInvestment"},
             c.next \in {"lockOpportunity", "sumInvestorCredits"}
               => c.amount <= 10 * Maximum[c.key],
             call' = [call EXCEPT ![w] = c], UNCHANGED <<walletTxn, investments>>
      PROVE  WalletInv'
  <2>1. call'[w] = c /\ \A x \in Workers \ {w} : call'[x] = call[x]
    BY <1>2, <1>3
  <2>2. Covered(call[w])'
    BY <1>3, <2>1 DEF Covered
  <2> QED
    BY <1>1, <1>3, <2>1, <2>2, WalletPasses
<1>4. Idle.next \notin {"lockOpportunity", "sumInvestorCredits", "sumInvestorDebits",
                        "createInvestment"}
  BY DEF Idle
<1>5. CASE UNCHANGED investmentVars
  <2>1. UNCHANGED <<walletTxn, call, investments>>
    BY <1>5 DEF investmentVars, storeVars, investmentTables
  <2>2. \A i : PostedCredits(i)' = PostedCredits(i) /\ AvailableBalance(i)' = AvailableBalance(i)
    BY <2>1, BalancesSame
  <2>3. \A w \in Workers : Covered(call[w])'
    BY <2>1, <2>2 DEF WalletInv, Covered
  <2>4. \A b : Takings(b)' = Takings(b)
    BY DEF Takings, Elsewhere
  <2>5. \A f, i : MayTake(f, i) => MayTake(f, i)'
    BY <2>1 DEF MayTake
  <2>6. \A i \in Investors : \E f \in Takings(AvailableBalance(i))' : MayTake(f, i)'
    BY <2>2, <2>4, <2>5 DEF WalletInv
  <2> QED
    BY <1>1, <2>1, <2>3, <2>6 DEF WalletInv, NotDebitedBefore
<1>6. CASE Next
  <2>1. PICK w \in Workers : InvestmentNext(w) \/ (Abort(w) /\ UNCHANGED investmentTables)
    BY <1>6 DEF Next
  <2>2. ASSUME NEW i \in Investors, NEW o \in Opportunities, NEW a \in Amounts,
               StartInvest(w, i, o, a)
        PROVE  WalletInv'
    <3> DEFINE c == [Idle EXCEPT !.next = "lockOpportunity", !.investor = i, !.key = o,
                                 !.amount = a]
    <3>1. c.next = "lockOpportunity" /\ c.amount = a /\ c.key = o
      BY DEF Idle
    <3>2. /\ call' = [call EXCEPT ![w] = c] /\ UNCHANGED <<walletTxn, investments>>
          /\ a <= 10 * Maximum[o]
      BY <2>2 DEF StartInvest, Begin, investmentTables
    <3> HIDE DEF c
    <3> QED
      BY <1>3, <3>1, <3>2
  <2>3. ASSUME NEW v \in InvestmentIds, StartMarkDefaulted(w, v) PROVE WalletInv'
    <3> DEFINE c == [Idle EXCEPT !.next = "markDefaulted", !.id = v]
    <3>1. c.next = "markDefaulted"
      BY DEF Idle
    <3>2. call' = [call EXCEPT ![w] = c] /\ UNCHANGED <<walletTxn, investments>>
      BY <2>3 DEF StartMarkDefaulted, Begin, investmentTables
    <3> HIDE DEF c
    <3> QED
      BY <1>3, <3>1, <3>2
  <2>4. CASE LockOpportunity(w)
    <3>1. UNCHANGED <<walletTxn, investments>>
      BY <2>4 DEF LockOpportunity, investmentTables
    <3>2. CASE End(w)
      BY <1>3, <1>4, <3>1, <3>2 DEF End
    <3>3. CASE call' = [call EXCEPT ![w].next = "sumInvestorCredits",
                                    ![w].total = Committed(call[w].key)]
      <4> DEFINE c == [call[w] EXCEPT !.next = "sumInvestorCredits",
                                      !.total = Committed(call[w].key)]
      <4>1. /\ call' = [call EXCEPT ![w] = c] /\ c.next = "sumInvestorCredits"
            /\ c.amount = call[w].amount /\ c.key = call[w].key
        BY <1>2, <3>3 DEF Calls
      <4>2. call[w].amount <= 10 * Maximum[call[w].key]
        BY <2>4 DEF LockOpportunity, WalletInv, Covered
      <4> HIDE DEF c
      <4> QED
        BY <1>3, <3>1, <4>1, <4>2
    <3> QED
      BY <2>4, <3>2, <3>3 DEF LockOpportunity
  <2>5. CASE SumInvestorCredits(w) \/ SumInvestorDebits(w)
    BY <1>1, <2>5, SumsKeepWallet
  <2>6. ASSUME NEW v \in InvestmentIds, CreateInvestment(w, v) PROVE WalletInv'
    BY <1>1, <2>6, CreateKeepsWallet
  <2>7. CASE MarkDefaulted(w)
    <3>1. PICK v \in InvestmentIds : v = call[w].id
      BY <2>7 DEF MarkDefaulted, WalletInv, FundingInv, InvestCallWellFormed
    <3>2. /\ investments' = [investments EXCEPT ![v].status = "DEFAULTED"]
          /\ call' = [call EXCEPT ![w] = Idle] /\ UNCHANGED walletTxn
      BY <2>7, <3>1 DEF MarkDefaulted, End
    <3>3. \A x \in InvestmentIds :
            investments'[x] = NoInvestment => investments[x] = NoInvestment
      BY <1>2, <3>2 DEF NoInvestment, InvestmentRow
    <3>4. call'[w] = Idle /\ \A x \in Workers \ {w} : call'[x] = call[x]
      BY <1>2, <3>2
    <3>5. Covered(call[w])' /\ call'[w].next # "createInvestment"
      BY <1>4, <3>4 DEF Covered
    <3> QED
      BY <1>1, <3>2, <3>3, <3>4, <3>5, WalletPasses
  <2>8. CASE Abort(w) /\ UNCHANGED investmentTables
    BY <1>3, <1>4, <2>8 DEF Abort, End, investmentTables
  <2> QED
    BY <2>1, <2>2, <2>3, <2>4, <2>5, <2>6, <2>7, <2>8 DEF InvestmentNext, InvestmentStep
<1> QED
  BY <1>5, <1>6

(* For any number of opportunities: a wallet is overdrawn by no more than    *)
(* the maxima of all but one of them add up to, however many requests for    *)
(* each overlap and however rounding falls; with one opportunity the sum is  *)
(* empty, and its lock keeps every wallet from being overdrawn at all.       *)
THEOREM OverdraftIsBounded ==
  ASSUME IsFiniteSet(Opportunities)
  PROVE  Spec => []OverdraftBounded
<1>1. Init => WalletInv
  <2> SUFFICES ASSUME Init PROVE WalletInv
    OBVIOUS
  <2>1. /\ FundingInv /\ NotDebitedBefore
        /\ \A w \in Workers : call[w] = Idle
        /\ \A i \in Investors : AvailableBalance(i) \in Nat
    BY WalletInit
  <2>2. \A w \in Workers : Covered(call[w])
    BY <2>1 DEF Covered, Idle
  <2>3. ASSUME NEW i \in Investors PROVE \E f \in Takings(AvailableBalance(i)) : MayTake(f, i)
    <3> DEFINE f == [o \in Opportunities |-> 0]
    <3>1. Total(f) = 0
      <4>1. Units(f) = {}
        BY DEF Units
      <4> QED
        BY <4>1, FS_EmptySet DEF Total
    <3>2. f \in Takings(AvailableBalance(i))
      BY <2>1, <3>1, MaximumNat DEF Takings
    <3>3. MayTake(f, i)
      BY <2>1 DEF MayTake, Idle
    <3> QED
      BY <3>2, <3>3
  <2> QED
    BY <2>1, <2>2, <2>3 DEF WalletInv
<1>2. WalletInv => OverdraftBounded
  <2> SUFFICES ASSUME WalletInv, NEW i \in Investors
               PROVE  \/ AvailableBalance(i) >= 0
                      \/ \E o \in Opportunities : -AvailableBalance(i) <= Elsewhere(o)
    BY DEF OverdraftBounded, Elsewhere
  <2>1. PICK f \in Takings(AvailableBalance(i)) : TRUE
    BY DEF WalletInv
  <2>2. AvailableBalance(i) \in Int
    BY BalancesTyped DEF WalletInv, AvailableBalance
  <2>3. f \in [Opportunities -> Nat]
    BY <2>1 DEF Takings
  <2>4. Total(f) \in Nat
    BY <2>3, TotalNat
  <2>5. CASE Total(f) <= AvailableBalance(i)
    BY <2>2, <2>4, <2>5
  <2>6. ASSUME NEW o \in Opportunities, Total(f) - AvailableBalance(i) <= Elsewhere(o)
        PROVE  -AvailableBalance(i) <= Elsewhere(o)
    <3>1. Elsewhere(o) \in Nat
      <4> DEFINE m == [p \in Opportunities \ {o} |-> Maximum[p]]
      <4>1. Opportunities \ {o} \in SUBSET Opportunities
        OBVIOUS
      <4>2. IsFiniteSet(DOMAIN m) /\ \A p \in DOMAIN m : m[p] \in Nat
        BY <4>1, MaximumNat, FS_Subset
      <4> HIDE DEF m
      <4>3. Total(m) \in Nat
        BY <4>2, TotalNat
      <4> QED
        BY <4>3 DEF m, Elsewhere
    <3> QED
      BY <2>2, <2>4, <2>6, <3>1
  <2> QED
    BY <2>1, <2>5, <2>6 DEF Takings
<1> QED
  BY <1>1, <1>2, WalletStep, PTL DEF Spec
-----------------------------------------------------------------------------
(* The refinement.  Under the mapping CreateInvestment is the promise's      *)
(* Invest, unless the amount rounds to nothing, and all else stutters.       *)
LEMMA FundingInitMaps == Init => Funding!Init
<1> SUFFICES ASSUME Init PROVE Funding!Init
  OBVIOUS
<1>1. PICK owner \in [DepositIds -> Investors] : OpenWith(DepositedBefore(owner, OpeningAmount))
  BY DEF Init
<1>2. ASSUME NEW i \in Investors PROVE PostedDebits(i) = 0
  <2>1. \A r \in References : walletTxn[r].status = "POSTED" => Direction(r[1]) = "CREDIT"
    BY <1>1 DEF OpenWith, DepositedBefore, DepositRef, NoTxn, Direction
  <2>2. Txns(i, "POSTED", "DEBIT") = {}
    BY <2>1 DEF Txns
  <2>3. DOMAIN [r \in Txns(i, "POSTED", "DEBIT") |-> walletTxn[r].amount] = {}
    BY <2>2
  <2> QED
    BY <2>3, TotalOfNothing DEF PostedDebits, SumTxns
<1>3. ASSUME NEW o \in Opportunities PROVE Committed(o) = 0
  <2>1. InvestedIn(o) = {}
    BY NoneIsNoOpportunity DEF InvestedIn, Init, InvestmentTablesInit, NoInvestment
  <2>2. DOMAIN [v \in InvestedIn(o) |-> investments[v].principal] = {}
    BY <2>1
  <2> QED
    BY <2>2, TotalOfNothing DEF Committed, Principal, InvestedIn
<1>4. \A o \in Opportunities : opportunities[o] = "OPEN"
  BY DEF Init, InvestmentTablesInit
<1> QED
  BY <1>2, <1>3, <1>4 DEF Funding!Init

(* What a step must leave alone to be a stutter of the promise.              *)
FundingUntouched ==
  /\ UNCHANGED <<walletTxn, opportunities>>
  /\ \A v \in InvestmentIds : /\ investments'[v].opportunity = investments[v].opportunity
                              /\ investments'[v].principal = investments[v].principal
                              /\ investments'[v] = NoInvestment => investments[v] = NoInvestment

LEMMA FundingStutters ==
  ASSUME FundingUntouched
  PROVE  UNCHANGED Funding!vars /\ (NotDebitedBefore => NotDebitedBefore')
<1>1. \A i : PostedDebits(i)' = PostedDebits(i)
  BY DEF FundingUntouched, PostedDebits, SumTxns, Txns
<1>2. \A o : Committed(o)' = Committed(o)
  BY CommittedSame DEF FundingUntouched
<1>3. UNCHANGED Funding!vars
  BY <1>1, <1>2 DEF FundingUntouched, Funding!vars
<1> QED
  BY <1>3 DEF FundingUntouched, NotDebitedBefore

(* All requests do but commit investments.                                   *)
LEMMA OnlyCreateTouchesFunding ==
  ASSUME FundingInv, [Next]_investmentVars
  PROVE  \/ FundingUntouched
         \/ \E w \in Workers, v \in InvestmentIds : CreateInvestment(w, v)
<1>1. CASE UNCHANGED <<walletTxn, opportunities, investments>>
  BY <1>1 DEF FundingUntouched
<1>2. ASSUME NEW w \in Workers, MarkDefaulted(w) PROVE FundingUntouched
  <2>1. PICK v \in InvestmentIds : v = call[w].id
    BY <1>2 DEF MarkDefaulted, FundingInv, InvestCallWellFormed
  <2>2. /\ investments' = [investments EXCEPT ![v].status = "DEFAULTED"]
        /\ UNCHANGED <<walletTxn, opportunities>>
    BY <1>2, <2>1 DEF MarkDefaulted
  <2> QED
    BY <2>2 DEF FundingUntouched, FundingInv, InvestmentRow, NoInvestment
<1> QED
  BY <1>1, <1>2 DEF Next, InvestmentNext, InvestmentStep, StartInvest, StartMarkDefaulted,
       LockOpportunity, SumInvestorCredits, SumInvestorDebits, Abort, investmentVars, storeVars,
       investmentTables

(* The commit.  The check made under the lock says that the opportunity is   *)
(* not full, so that it is open: nothing else looks at its status again.     *)
LEMMA CreateMaps ==
  ASSUME FundingInv, FundingInv', NotDebitedBefore,
         NEW w \in Workers, NEW v \in InvestmentIds, CreateInvestment(w, v)
  PROVE  [Funding!Next]_(Funding!vars)
<1> DEFINE c == call[w]
<1>1. /\ c \in Calls /\ c.next = "createInvestment"
      /\ c.key \in Opportunities /\ c.investor \in Investors /\ c.amount \in Amounts
      /\ 10 * c.total + c.amount <= 10 * Target[c.key]
  BY DEF CreateInvestment, FundingInv, StoreTypeOK, InvestCallWellFormed, FitsTarget
<1>2. PICK o \in Opportunities : o = c.key
  BY <1>1
<1>3. PICK i \in Investors : i = c.investor
  BY <1>1
<1>4. /\ c.amount \in Nat /\ c.amount > 0 /\ c.total \in Nat /\ Target[o] \in Nat
      /\ Column(c.amount) \in Nat
  BY <1>1, AmountsPositive, ColumnNat, OpportunityAssumption DEF Calls, OpportunityAssumption
<1>5. PICK a \in Nat : a = Column(c.amount)
  BY <1>4
<1>6. c.total = Committed(o)
  BY <1>1, <1>2 DEF FundingInv, TotalIsCurrentUnderLock, HoldsLock
<1>7. /\ Committed(o)' = Committed(o) + a
      /\ \A p \in Opportunities \ {o} : Committed(p)' = Committed(p)
  <2> DEFINE row == [status |-> "ACTIVE", investor |-> i, opportunity |-> o, principal |-> a]
  <2>1. row \in InvestmentRow /\ row.opportunity = o /\ row.principal = a
    BY DEF InvestmentRow
  <2>2. investments[v] = NoInvestment /\ investments' = [investments EXCEPT ![v] = row]
    BY <1>2, <1>3, <1>5 DEF CreateInvestment
  <2> HIDE DEF row
  <2> QED
    BY <2>1, <2>2, CommittedGrows DEF FundingInv
<1>8. \A j : PostedDebits(j)' = IF j = i THEN PostedDebits(j) + a ELSE PostedDebits(j)
  BY <1>3, <1>5, CreateDebits
<1>9. Committed(o) + a <= Target[o] /\ Committed(o) < Target[o]
  BY <1>1, <1>2, <1>4, <1>5, <1>6, RoundingFits
<1>10. opportunities[o] = "OPEN" /\ opportunities \in [Opportunities -> {"OPEN", "FULLY_FUNDED"}]
  <2>1. opportunities[o] # "FULLY_FUNDED"
    BY <1>4, <1>6, <1>9 DEF FundingInv, ClosedOnlyWhenFull
  <2> QED
    BY <2>1 DEF FundingInv
<1>11. \/ UNCHANGED opportunities
       \/ /\ Committed(o) + a = Target[o]
          /\ opportunities' = [opportunities EXCEPT ![o] = "FULLY_FUNDED"]
  <2>1. CASE Fills(o, c.total, c.amount)
    <3>1. Committed(o) + a >= Target[o]
      BY <1>4, <1>5, <1>6, <2>1, RoundingFills DEF Fills
    <3>2. opportunities' = [opportunities EXCEPT ![o] = "FULLY_FUNDED"]
      BY <1>2, <2>1 DEF CreateInvestment
    <3> QED
      BY <1>4, <1>5, <1>6, <1>9, <3>1, <3>2
  <2>2. CASE ~Fills(o, c.total, c.amount)
    BY <1>2, <2>2 DEF CreateInvestment
  <2> QED
    BY <2>1, <2>2
<1>12. CASE a = 0
  (* What rounds to nothing is debited nothing and fills nothing. *)
  <2>1. UNCHANGED opportunities
    BY <1>4, <1>6, <1>9, <1>11, <1>12
  <2>2. /\ \A j \in Investors : PostedDebits(j) \in Nat
        /\ Committed(o) \in Nat
    BY <1>4, <1>6, BalancesTyped
  <2>3. /\ \A j \in Investors : PostedDebits(j)' = PostedDebits(j)
        /\ \A p \in Opportunities : Committed(p)' = Committed(p)
    BY <1>7, <1>8, <1>12, <2>2
  <2> QED
    BY <2>1, <2>3 DEF Funding!vars
<1>13. CASE a # 0
  <2>1. a \in 1 .. Target[o]
    BY <1>4, <1>6, <1>9, <1>13
  <2>2. Funding!Invest(i, o, a)
    <3>1. [j \in Investors |-> PostedDebits(j)]'
            = [[j \in Investors |-> PostedDebits(j)] EXCEPT ![i] = @ + a]
      BY <1>8
    <3>2. [p \in Opportunities |-> Committed(p)]'
            = [[p \in Opportunities |-> Committed(p)] EXCEPT ![o] = @ + a]
      BY <1>7
    <3>3. opportunities' = [opportunities EXCEPT ![o] = "FULLY_FUNDED"] =>
            [p \in Opportunities |-> opportunities[p] = "OPEN"]'
              = [[p \in Opportunities |-> opportunities[p] = "OPEN"] EXCEPT ![o] = FALSE]
      BY <1>10
    <3> QED
      BY <1>9, <1>10, <1>11, <3>1, <3>2, <3>3 DEF Funding!Invest
  <2> QED
    BY <2>1, <2>2 DEF Funding!Next
<1> QED
  BY <1>12, <1>13

(* The invariant the mapping needs, and every step under it.                 *)
LEMMA FundingStepMaps ==
  FundingInv /\ NotDebitedBefore /\ [Next]_investmentVars
    => NotDebitedBefore' /\ [Funding!Next]_(Funding!vars)
<1> SUFFICES ASSUME FundingInv, NotDebitedBefore, [Next]_investmentVars
             PROVE  NotDebitedBefore' /\ [Funding!Next]_(Funding!vars)
  OBVIOUS
<1>1. FundingInv'
  BY FundingStep
<1>2. CASE FundingUntouched
  BY <1>2, FundingStutters
<1>3. ASSUME NEW w \in Workers, NEW v \in InvestmentIds, CreateInvestment(w, v)
      PROVE  NotDebitedBefore' /\ [Funding!Next]_(Funding!vars)
  BY <1>1, <1>3, CreateDebits, CreateMaps
<1> QED
  BY <1>2, <1>3, OnlyCreateTouchesFunding

(* Investing implements its abstract specification, for every value of the   *)
(* constants: whatever overlaps, whatever aborts and however amounts are     *)
(* rounded, an opportunity takes what investors pay, at once, while it is    *)
(* open and it fits, and closes for good when it is full.                    *)
THEOREM FundingImplemented == Spec => ImplementsFunding
<1>1. Init => NotDebitedBefore
  BY WalletInit
<1> QED
  BY <1>1, FundingInitMaps, FundingHolds, FundingStepMaps, PTL
     DEF Spec, ImplementsFunding, Funding!Spec
-----------------------------------------------------------------------------
LEMMA RepaymentRefs ==
  /\ \A v \in InvestmentIds : InvestmentRef(v) \in References
  /\ \A v \in InvestmentIds, k \in 1 .. MaxPeriods : AccrualRef(v, k) \in References
  /\ \A r \in RepaymentIds : /\ RoiCashRef(r) \in References
                             /\ RoiWalletRef(r) \in References
                             /\ PrincipalRef(r) \in References
  BY DEF References

LEMMA NoneIsNoInvestment == None \notin InvestmentIds /\ None \notin Investors
  BY StoreAssumption DEF StoreAssumption, DocumentIds

LEMMA FiniteRepayments == IsFiniteSet(RepaymentIds) /\ IsFiniteSet(InvestmentIds)
<1>1. RepaymentIds \in SUBSET DocumentIds /\ InvestmentIds \in SUBSET DocumentIds
  BY DEF DocumentIds
<1> QED
  BY <1>1, FiniteAssumption, FS_Subset
-----------------------------------------------------------------------------
(* What was recorded for a schedule row, or of an investment's principal, is *)
(* an amount; it changes only with the rows, and a new row adds to it.       *)
PaidRows(v, k) == {r \in RepaymentIds : repayments[r].investment = v /\ repayments[r].period = k}
RepaidRows(v)  == {r \in RepaymentIds : repayments[r].investment = v}

LEMMA PaidNat ==
  ASSUME repayments \in [RepaymentIds -> RepaymentRow], NEW v, NEW k
  PROVE  Paid(v, k) \in Nat /\ Repaid(v) \in Nat
<1> DEFINE R == PaidRows(v, k)
           S == RepaidRows(v)
           f == [r \in R |-> repayments[r].principal + repayments[r].roi + repayments[r].other]
           g == [r \in S |-> repayments[r].principal]
<1>1. IsFiniteSet(R) /\ IsFiniteSet(S)
  <2>1. R \in SUBSET RepaymentIds /\ S \in SUBSET RepaymentIds
    BY DEF PaidRows, RepaidRows
  <2> QED
    BY <2>1, FiniteRepayments, FS_Subset
<1>2. \A r \in RepaymentIds : /\ repayments[r].principal \in Nat
                              /\ repayments[r].roi \in Nat
                              /\ repayments[r].other \in Nat
  BY DEF RepaymentRow
<1>3. DOMAIN f = R /\ \A r \in R : f[r] \in Nat
  BY <1>2 DEF PaidRows
<1>4. DOMAIN g = S /\ \A r \in S : g[r] \in Nat
  BY <1>2 DEF RepaidRows
<1> HIDE DEF R, S, f, g
<1>5. Total(f) \in Nat /\ Total(g) \in Nat
  BY <1>1, <1>3, <1>4, TotalNat
<1> QED
  BY <1>5 DEF Paid, Repaid, SumPrincipal, PaidRows, RepaidRows, R, S, f, g

LEMMA PaidSame ==
  ASSUME NEW v, NEW k,
         \A r \in RepaymentIds : /\ repayments'[r].investment = repayments[r].investment
                                 /\ repayments'[r].period = repayments[r].period
                                 /\ repayments'[r].principal = repayments[r].principal
                                 /\ repayments'[r].roi = repayments[r].roi
                                 /\ repayments'[r].other = repayments[r].other
  PROVE  Paid(v, k)' = Paid(v, k) /\ Repaid(v)' = Repaid(v)
<1>1. PaidRows(v, k)' = PaidRows(v, k) /\ RepaidRows(v)' = RepaidRows(v)
  BY DEF PaidRows, RepaidRows
<1>2. [r \in PaidRows(v, k)' |->
         repayments'[r].principal + repayments'[r].roi + repayments'[r].other]
        = [r \in PaidRows(v, k) |->
             repayments[r].principal + repayments[r].roi + repayments[r].other]
  BY <1>1 DEF PaidRows
<1>3. [r \in RepaidRows(v)' |-> repayments'[r].principal]
        = [r \in RepaidRows(v) |-> repayments[r].principal]
  BY <1>1 DEF RepaidRows
<1> QED
  BY <1>2, <1>3 DEF Paid, Repaid, SumPrincipal, PaidRows, RepaidRows

LEMMA PaidGrows ==
  ASSUME repayments \in [RepaymentIds -> RepaymentRow],
         NEW r \in RepaymentIds, NEW row \in RepaymentRow, repayments[r] = NoRepayment,
         repayments' = [repayments EXCEPT ![r] = row],
         NEW v \in InvestmentIds, NEW k
  PROVE  /\ Paid(v, k)' = Paid(v, k) + IF row.investment = v /\ row.period = k
                                       THEN row.principal + row.roi + row.other ELSE 0
         /\ Repaid(v)' = Repaid(v) + IF row.investment = v THEN row.principal ELSE 0
<1>1. /\ repayments'[r] = row
      /\ \A x \in RepaymentIds \ {r} : repayments'[x] = repayments[x]
      /\ repayments[r].investment = None
  BY DEF NoRepayment
<1>2. r \notin PaidRows(v, k) /\ r \notin RepaidRows(v)
  BY <1>1, NoneIsNoInvestment DEF PaidRows, RepaidRows
<1>3. \A x \in RepaymentIds : /\ repayments[x].principal \in Nat
                              /\ repayments[x].roi \in Nat
                              /\ repayments[x].other \in Nat
  BY DEF RepaymentRow
<1>4. row.principal \in Nat /\ row.roi \in Nat /\ row.other \in Nat
  BY DEF RepaymentRow
<1>5. Paid(v, k)' = Paid(v, k) + IF row.investment = v /\ row.period = k
                                 THEN row.principal + row.roi + row.other ELSE 0
  <2> DEFINE R == PaidRows(v, k)
             f == [x \in R |-> repayments[x].principal + repayments[x].roi + repayments[x].other]
             g == [x \in R' |-> repayments'[x].principal + repayments'[x].roi
                                  + repayments'[x].other]
  <2>1. IsFiniteSet(R)
    <3>1. R \in SUBSET RepaymentIds
      BY DEF PaidRows
    <3> QED
      BY <3>1, FiniteRepayments, FS_Subset
  <2>2. DOMAIN f = R /\ \A x \in R : f[x] \in Nat
    BY <1>3 DEF PaidRows
  <2>3. CASE row.investment = v /\ row.period = k
    <3>1. R' = R \cup {r}
      BY <1>1, <2>3 DEF PaidRows
    <3>2. /\ DOMAIN g = R \cup {r}
          /\ g[r] = row.principal + row.roi + row.other /\ g[r] \in Nat
          /\ \A x \in R : g[x] = f[x]
      BY <1>1, <1>2, <1>4, <3>1 DEF PaidRows
    <3>3. r \notin R
      BY <1>2
    <3> HIDE DEF R, f, g
    <3>4. Total(g) = Total(f) + g[r]
      BY <2>1, <2>2, <3>2, <3>3, TotalAdd
    <3> QED
      BY <2>3, <3>2, <3>4 DEF Paid, PaidRows, R, f, g
  <2>4. CASE ~(row.investment = v /\ row.period = k)
    <3>1. R' = R
      BY <1>1, <1>2, <2>4 DEF PaidRows
    <3>2. g = f
      BY <1>1, <1>2, <3>1 DEF PaidRows
    <3>3. Total(f) \in Nat
      BY <2>1, <2>2, TotalNat
    <3> QED
      BY <2>4, <3>2, <3>3 DEF Paid, PaidRows
  <2> QED
    BY <2>3, <2>4
<1>6. Repaid(v)' = Repaid(v) + IF row.investment = v THEN row.principal ELSE 0
  <2> DEFINE R == RepaidRows(v)
             f == [x \in R |-> repayments[x].principal]
             g == [x \in R' |-> repayments'[x].principal]
  <2>1. IsFiniteSet(R)
    <3>1. R \in SUBSET RepaymentIds
      BY DEF RepaidRows
    <3> QED
      BY <3>1, FiniteRepayments, FS_Subset
  <2>2. DOMAIN f = R /\ \A x \in R : f[x] \in Nat
    BY <1>3 DEF RepaidRows
  <2>3. CASE row.investment = v
    <3>1. R' = R \cup {r}
      BY <1>1, <2>3 DEF RepaidRows
    <3>2. /\ DOMAIN g = R \cup {r}
          /\ g[r] = row.principal /\ g[r] \in Nat
          /\ \A x \in R : g[x] = f[x]
      BY <1>1, <1>2, <1>4, <3>1 DEF RepaidRows
    <3>3. r \notin R
      BY <1>2
    <3> HIDE DEF R, f, g
    <3>4. Total(g) = Total(f) + g[r]
      BY <2>1, <2>2, <3>2, <3>3, TotalAdd
    <3> QED
      BY <2>3, <3>2, <3>4 DEF Repaid, SumPrincipal, RepaidRows, R, f, g
  <2>4. CASE row.investment # v
    <3>1. R' = R
      BY <1>1, <1>2, <2>4 DEF RepaidRows
    <3>2. g = f
      BY <1>1, <1>2, <3>1 DEF RepaidRows
    <3>3. Total(f) \in Nat
      BY <2>1, <2>2, TotalNat
    <3> QED
      BY <2>4, <3>2, <3>3 DEF Repaid, SumPrincipal, RepaidRows
  <2> QED
    BY <2>3, <2>4
<1> QED
  BY <1>5, <1>6
-----------------------------------------------------------------------------
(* What an investment starts from: a schedule of typed rows, none accrued.   *)
LEMMA QuotientTyped ==
  ASSUME NEW d \in Nat \ {0}, NEW m \in Int
  PROVE  RoundedQuotient(m, d) \in Int /\ (m >= 0 => RoundedQuotient(m, d) \in Nat)
<1>1. d \div 2 \in Nat
  OBVIOUS
<1>2. CASE m >= 0
  <2>1. m + d \div 2 \in Nat
    BY <1>1, <1>2
  <2>2. (m + d \div 2) \div d \in Nat
    BY <2>1
  <2> QED
    BY <1>2, <2>2 DEF RoundedQuotient
<1>3. CASE ~(m >= 0)
  <2>1. d \div 2 - m \in Nat
    BY <1>1, <1>3
  <2>2. (d \div 2 - m) \div d \in Nat
    BY <2>1
  <2> QED
    BY <1>3, <2>2 DEF RoundedQuotient
<1> QED
  BY <1>2, <1>3

Plans == [type : PlanTypes, tenure : Nat \ {0}, percent : Nat]

LEMMA PeriodsPositive == ASSUME NEW plan \in Plans PROVE PeriodCount(plan) \in Nat \ {0}
<1>1. CASE plan.type = "BULLET"
  BY <1>1 DEF PeriodCount
<1>2. CASE plan.type = "MONTHLY"
  BY <1>2 DEF PeriodCount, PeriodMonths, Plans
<1>3. CASE plan.type = "QUARTERLY"
  BY <1>3 DEF PeriodCount, PeriodMonths, Plans
<1> QED
  BY <1>1, <1>2, <1>3 DEF Plans, PlanTypes

LEMMA StoredRowTyped ==
  ASSUME NEW a \in Nat, NEW plan \in Plans, NEW k \in Nat
  PROVE  /\ StoredRow(a, plan, k).principalDue \in Nat
         /\ StoredRow(a, plan, k).roiDue \in Int
         /\ StoredRow(a, plan, k).totalDue \in Int
<1> DEFINE n == PeriodCount(plan)
           p == RoiPerPeriod(a, plan)
           due == PrincipalOfRow(a, plan, k)
           roi == RoiOfRow(a, plan, k)
<1>1. n \in Nat \ {0} /\ TotalRoi(a, plan) \in Nat
  BY PeriodsPositive DEF TotalRoi, Plans
<1>2. p \in Int
  <2>1. RoiUnit * n \in Nat \ {0}
    <3> HIDE DEF n
    <3> QED
      BY <1>1 DEF RoiUnit
  <2> QED
    BY <1>1, <2>1, QuotientTyped DEF RoiPerPeriod
<1>3. roi \in Int
  <2>1. RoiUnit * p \in Int
    <3> HIDE DEF p
    <3> QED
      BY <1>2 DEF RoiUnit
  <2>2. RoiUnit * p * (n - 1) \in Int
    <3> DEFINE q == RoiUnit * p
    <3> HIDE DEF q, n
    <3>1. q * (n - 1) \in Int
      BY <1>1, <2>1 DEF q
    <3> QED
      BY <3>1 DEF q
  <2> QED
    BY <1>1, <2>1, <2>2 DEF RoiOfRow
<1>4. due \in Nat /\ RoiUnit * due \in Nat
  <2>1. due \in Nat
    BY DEF PrincipalOfRow
  <2> HIDE DEF due
  <2> QED
    BY <2>1 DEF RoiUnit
<1>5. 10 * RoiUnit \in Nat \ {0}
  BY DEF RoiUnit
<1> HIDE DEF due, roi
<1>6. RoiUnit * due + roi \in Int
  <2> DEFINE q == RoiUnit * due
  <2>1. q \in Nat
    BY <1>4
  <2> HIDE DEF q
  <2>2. q + roi \in Int
    BY <1>3, <2>1
  <2> QED
    BY <2>2 DEF q
<1>7. \A m \in Int : InPaise(m) \in Int /\ (m >= 0 => InPaise(m) \in Nat)
  <2> DEFINE d == 10 * RoiUnit
  <2>1. d \in Nat \ {0} /\ \A m : InPaise(m) = RoundedQuotient(m, d)
    BY <1>5 DEF InPaise
  <2> HIDE DEF d
  <2> QED
    BY <2>1, QuotientTyped
<1>8. InPaise(RoiUnit * due) \in Nat /\ InPaise(roi) \in Int /\ InPaise(RoiUnit * due + roi) \in Int
  <2>1. RoiUnit * due \in Int /\ RoiUnit * due >= 0
    BY <1>4
  <2> QED
    BY <1>3, <1>6, <1>7, <2>1
<1> QED
  BY <1>8 DEF StoredRow, due, roi

LEMMA NewScheduleTyped ==
  ASSUME NEW o \in Opportunities, NEW a \in Nat
  PROVE  /\ NewSchedule(o, a) \in Seq(ScheduleRow)
         /\ DOMAIN NewSchedule(o, a) \subseteq 1 .. MaxPeriods
         /\ \A k \in DOMAIN NewSchedule(o, a) : /\ ~NewSchedule(o, a)[k].accrued
                                                /\ NewSchedule(o, a)[k].status = "PENDING"
<1> DEFINE n == PeriodCount(Plan[o])
           row(k) == NewRow(StoredRow(a, Plan[o], k))
<1>1. Plan[o] \in Plans /\ n <= MaxPeriods /\ MaxPeriods \in Nat
  BY OpportunityAssumption, StoreAssumption DEF OpportunityAssumption, StoreAssumption, Plans
<1>2. n \in Nat
  BY <1>1, PeriodsPositive
<1>3. \A k \in 1 .. n : row(k) \in ScheduleRow /\ ~row(k).accrued /\ row(k).status = "PENDING"
  <2> SUFFICES ASSUME NEW k \in 1 .. n
               PROVE  row(k) \in ScheduleRow /\ ~row(k).accrued /\ row(k).status = "PENDING"
    OBVIOUS
  <2>1. k \in Nat
    BY <1>2
  <2>2. /\ StoredRow(a, Plan[o], k).principalDue \in Nat
        /\ StoredRow(a, Plan[o], k).roiDue \in Int
        /\ StoredRow(a, Plan[o], k).totalDue \in Int
    BY <1>1, <2>1, StoredRowTyped
  <2> QED
    BY <2>2 DEF NewRow, ScheduleRow
<1>4. NewSchedule(o, a) = [k \in 1 .. n |-> row(k)]
  BY DEF NewSchedule
<1> HIDE DEF n, row
<1>5. NewSchedule(o, a) \in Seq(ScheduleRow)
  BY <1>2, <1>3, <1>4
<1> QED
  BY <1>1, <1>2, <1>3, <1>4, <1>5
-----------------------------------------------------------------------------
LEMMA InitInv == RepaymentInit => RepaymentsInv
<1> SUFFICES ASSUME RepaymentInit PROVE RepaymentsInv
  OBVIOUS
<1>1. PICK holder \in [InvestmentIds \cup DepositIds -> Investors],
           held \in [InvestmentIds -> Opportunities] : InvestedBefore(holder, held)
  BY DEF RepaymentInit
<1> DEFINE Refs == {InvestmentRef(v) : v \in InvestmentIds} \cup {DepositRef(d) : d \in DepositIds}
           opening == [ref \in Refs |-> [investor |-> holder[ref[2]], amount |-> OpeningAmount]]
<1>2. OpeningAmount \in Nat
  BY OpportunityAssumption DEF OpportunityAssumption
<1>3. /\ DOMAIN opening = Refs
      /\ \A ref \in Refs : opening[ref] \in Entry /\ ref[1] \in {"DEPOSIT", "INVESTMENT"}
      /\ \A v \in InvestmentIds :
           opening[InvestmentRef(v)] = [investor |-> holder[v], amount |-> OpeningAmount]
  BY <1>2 DEF InvestmentRef, DepositRef, Entry
<1>4. OpenWith(opening)
  BY <1>1 DEF InvestedBefore
<1>5. /\ opportunities = [o \in Opportunities |-> "OPEN"]
      /\ \A v \in InvestmentIds :
           /\ investments[v] = [status |-> "ACTIVE", investor |-> holder[v],
                                opportunity |-> held[v], principal |-> OpeningAmount]
           /\ schedules[v] = NewSchedule(held[v], 10 * OpeningAmount)
      /\ DOMAIN investments = InvestmentIds /\ DOMAIN schedules = InvestmentIds
      /\ investments = [v \in InvestmentIds |-> investments[v]]
      /\ schedules = [v \in InvestmentIds |-> schedules[v]]
  BY <1>1 DEF InvestedBefore
<1>6. \A v \in InvestmentIds :
        /\ schedules[v] \in Seq(ScheduleRow)
        /\ DOMAIN schedules[v] \subseteq 1 .. MaxPeriods
        /\ \A k \in DOMAIN schedules[v] : /\ ~schedules[v][k].accrued
                                          /\ schedules[v][k].status = "PENDING"
  <2> SUFFICES ASSUME NEW v \in InvestmentIds
               PROVE  /\ schedules[v] \in Seq(ScheduleRow)
                      /\ DOMAIN schedules[v] \subseteq 1 .. MaxPeriods
                      /\ \A k \in DOMAIN schedules[v] : /\ ~schedules[v][k].accrued
                                                        /\ schedules[v][k].status = "PENDING"
    OBVIOUS
  <2>1. held[v] \in Opportunities /\ 10 * OpeningAmount \in Nat
    BY <1>2
  <2> QED
    BY <1>5, <2>1, NewScheduleTyped
<1> HIDE DEF opening, Refs
<1>7. /\ \A r \in References :
           /\ r \in Refs => /\ walletTxn[r] = [status |-> "POSTED", investor |-> opening[r].investor,
                                               amount |-> opening[r].amount]
                            /\ journal[r] = <<opening[r]>>
           /\ r \notin Refs => walletTxn[r] = NoTxn /\ journal[r] = <<>>
      /\ walletTxn = [r \in References |-> walletTxn[r]]
      /\ journal = [r \in References |-> journal[r]]
      /\ call = [w \in Workers |-> Idle]
  BY <1>3, <1>4 DEF OpenWith
<1>8. StoreTypeOK
  <2>1. NoTxn \in Txn /\ <<>> \in Seq(Entry)
    BY DEF NoTxn, Txn, TxnStatus
  <2>2. \A r \in Refs :
          /\ [status |-> "POSTED", investor |-> opening[r].investor,
              amount |-> opening[r].amount] \in Txn
          /\ <<opening[r]>> \in Seq(Entry)
    BY <1>3 DEF Entry, Txn, TxnStatus
  <2>3. walletTxn \in [References -> Txn] /\ journal \in [References -> Seq(Entry)]
    BY <1>7, <2>1, <2>2
  <2>4. investorStatus \in [Investors -> {"NONE", "PENDING_ACTIVATION", "ACTIVE"}]
    BY DEF RepaymentInit
  <2>5. call \in [Workers -> Calls]
    BY <1>7, IdleIsACall
  <2> QED
    BY <2>3, <2>4, <2>5 DEF StoreTypeOK
<1>9. RepaymentTypeOK
  <2>1. opportunities \in [Opportunities -> {"OPEN", "FULLY_FUNDED"}]
    BY <1>5
  <2>2. \A v \in InvestmentIds : investments[v] \in InvestmentRow
    BY <1>2, <1>5 DEF InvestmentRow
  <2>3. investments \in [InvestmentIds -> InvestmentRow]
    BY <1>5, <2>2
  <2>4. schedules \in [InvestmentIds -> Seq(ScheduleRow)]
    BY <1>5, <1>6
  <2>5. repayments \in [RepaymentIds -> RepaymentRow]
    <3>1. NoRepayment \in RepaymentRow
      BY StoreAssumption DEF NoRepayment, RepaymentRow, StoreAssumption
    <3> QED
      BY <3>1 DEF RepaymentInit, RepaymentTablesInit
  <2> QED
    BY <1>8, <2>1, <2>3, <2>4, <2>5 DEF RepaymentTypeOK, TypeOK
<1>10. \A w \in Workers : RepayCallWellFormed(call[w])
  BY <1>7 DEF RepayCallWellFormed, Idle
<1>11. ASSUME NEW v \in InvestmentIds PROVE InvestmentWellFormed(v)
  <2>1. /\ InvestmentRef(v) \in References /\ InvestmentRef(v) \in Refs
        /\ \A k \in 1 .. MaxPeriods : AccrualRef(v, k) \in References
    BY RepaymentRefs DEF Refs
  <2>2. journal[InvestmentRef(v)] = <<[investor |-> holder[v], amount |-> OpeningAmount]>>
    BY <1>3, <1>7, <2>1
  <2>3. investments[v].investor = holder[v] /\ investments[v].principal = OpeningAmount
    BY <1>5
  <2>4. \A k \in 1 .. MaxPeriods : journal[AccrualRef(v, k)] = <<>>
    <3>1. \A k \in 1 .. MaxPeriods : AccrualRef(v, k) \notin Refs
      BY <1>3 DEF AccrualRef
    <3> QED
      BY <1>7, <2>1, <3>1
  <2> QED
    BY <1>5, <1>6, <2>2, <2>3, <2>4 DEF InvestmentWellFormed, Invested, RowAccrued
<1>12. ASSUME NEW r \in RepaymentIds PROVE RepaymentWellFormed(r)
  <2>1. repayments[r] = NoRepayment
    BY DEF RepaymentInit, RepaymentTablesInit
  <2>2. /\ RoiWalletRef(r) \in References /\ RoiWalletRef(r) \notin Refs
        /\ PrincipalRef(r) \in References /\ PrincipalRef(r) \notin Refs
        /\ RoiCashRef(r) \in References /\ RoiCashRef(r) \notin Refs
    BY <1>3, RepaymentRefs DEF RoiWalletRef, PrincipalRef, RoiCashRef
  <2> QED
    BY <1>7, <2>1, <2>2 DEF RepaymentWellFormed, RoiReceived, LegDisbursed, NoRepayment
<1>13. Mirrored
  <2> SUFFICES ASSUME NEW r \in References PROVE MirroredAt(r)
    BY DEF Mirrored
  <2>1. CASE r \in Refs
    <3> DEFINE txn == [status |-> "POSTED", investor |-> opening[r].investor,
                       amount |-> opening[r].amount]
    <3>1. walletTxn[r] = txn /\ journal[r] = <<opening[r]>>
      BY <1>7, <2>1
    <3>2. /\ txn.status = "POSTED" /\ txn.investor = opening[r].investor
          /\ txn.amount = opening[r].amount
      OBVIOUS
    <3>3. opening[r] = [investor |-> opening[r].investor, amount |-> opening[r].amount]
      BY <1>3, <2>1 DEF Entry
    <3> HIDE DEF txn
    <3> QED
      BY <1>3, <2>1, <3>1, <3>2, <3>3 DEF MirroredAt, WalletKinds
  <2>2. CASE r \notin Refs
    BY <1>7, <2>2 DEF MirroredAt, NoTxn
  <2> QED
    BY <2>1, <2>2
<1>14. PaidIsPaid /\ ClosedIsRepaid
  BY <1>5, <1>6 DEF PaidIsPaid, ClosedIsRepaid
<1> QED
  BY <1>9, <1>10, <1>11, <1>12, <1>13, <1>14 DEF RepaymentsInv, RepaymentRowsInv
-----------------------------------------------------------------------------
(* The tables' part of the invariant says nothing of the requests.           *)
TablesInv ==
  /\ investorStatus \in [Investors -> {"NONE", "PENDING_ACTIVATION", "ACTIVE"}]
  /\ walletTxn \in [References -> Txn]
  /\ journal \in [References -> Seq(Entry)]
  /\ opportunities \in [Opportunities -> {"OPEN", "FULLY_FUNDED"}]
  /\ investments \in [InvestmentIds -> InvestmentRow]
  /\ schedules \in [InvestmentIds -> Seq(ScheduleRow)]
  /\ repayments \in [RepaymentIds -> RepaymentRow]
  /\ \A v \in InvestmentIds : InvestmentWellFormed(v)
  /\ \A r \in RepaymentIds : RepaymentWellFormed(r)
  /\ PaidIsPaid
  /\ ClosedIsRepaid

LEMMA InvParts ==
  RepaymentRowsInv <=> /\ TablesInv
                       /\ call \in [Workers -> Calls]
                       /\ \A w \in Workers : RepayCallWellFormed(call[w])
  BY DEF RepaymentRowsInv, RepaymentTypeOK, TypeOK, StoreTypeOK, TablesInv

RowsKept == RepaymentRowsInv' /\ (Mirrored => Mirrored')

LEMMA TablesSame ==
  ASSUME TablesInv, UNCHANGED tables
  PROVE  TablesInv' /\ (Mirrored => Mirrored')
<1>1. \A v \in InvestmentIds : \A k : Paid(v, k)' = Paid(v, k) /\ Repaid(v)' = Repaid(v)
  BY PaidSame DEF tables
<1>2. PaidIsPaid' /\ ClosedIsRepaid'
  BY <1>1 DEF tables, investmentTables, TablesInv, PaidIsPaid, ClosedIsRepaid
<1>3. /\ Mirrored => Mirrored'
      /\ \A v \in InvestmentIds : InvestmentWellFormed(v)'
  <2>1. UNCHANGED <<walletTxn, journal, investments, schedules>>
    BY DEF tables, investmentTables
  <2>2. Mirrored => Mirrored'
    BY <2>1 DEF Mirrored, MirroredAt
  <2>3. ASSUME NEW v \in InvestmentIds PROVE InvestmentWellFormed(v)'
    <3>1. InvestmentWellFormed(v)
      BY DEF TablesInv
    <3> QED
      BY <2>1, <3>1 DEF InvestmentWellFormed, Invested, RowAccrued
  <2> QED
    BY <2>2, <2>3
<1>4. \A r \in RepaymentIds : RepaymentWellFormed(r)'
  BY DEF tables, investmentTables, TablesInv, RepaymentWellFormed, RoiReceived, LegDisbursed,
         InvestorOf, Invested, RowAccrued
<1> QED
  BY <1>2, <1>3, <1>4 DEF tables, investmentTables, TablesInv

(* Commits of others leave a request well formed: rows are never taken back, *)
(* accrued stays accrued, and what is recorded only grows.                   *)
LEMMA CallsKept ==
  ASSUME TablesInv, NEW c \in Calls, RepayCallWellFormed(c),
         \A v \in Invested :
           /\ v \in Invested'
           /\ DOMAIN schedules'[v] = DOMAIN schedules[v]
           /\ \A k \in DOMAIN schedules[v] : schedules[v][k].accrued => schedules'[v][k].accrued
           /\ \A k \in Nat : Paid(v, k)' \in Nat /\ Paid(v, k) <= Paid(v, k)'
           /\ Repaid(v)' \in Nat /\ Repaid(v) <= Repaid(v)',
         \A r \in RepaymentIds : repayments[r].status # "NONE" => repayments'[r].status # "NONE"
  PROVE  RepayCallWellFormed(c)'
<1>1. /\ Column(c.amount) \in Nat /\ OwnPayment(c) \in Nat /\ c.period \in Nat
      /\ c.seen \in Int /\ c.total \in Nat
  BY ColumnNat DEF Calls, OwnPayment
<1>2. \A v \in InvestmentIds : Repaid(v) \in Nat /\ \A k : Paid(v, k) \in Nat
  BY PaidNat DEF TablesInv
<1>3. \A v \in Invested, k \in Nat : RowAccrued(v, k) => RowAccrued(v, k)'
  BY DEF RowAccrued
<1>4. c.next \in {"lockSchedule", "sumRepaid", "createRepayment"} =>
        c.period = 0 \/ c.seen <= Paid(c.id, c.period)' + OwnPayment(c)
  <2> SUFFICES ASSUME c.next \in {"lockSchedule", "sumRepaid", "createRepayment"}, c.period # 0
               PROVE  c.seen <= Paid(c.id, c.period)' + OwnPayment(c)
    OBVIOUS
  <2>1. c.id \in Invested /\ c.id \in InvestmentIds /\ c.seen <= Paid(c.id, c.period) + OwnPayment(c)
    BY DEF RepayCallWellFormed, Invested
  <2> DEFINE old == Paid(c.id, c.period)
             new == Paid(c.id, c.period)'
  <2>2. old \in Nat /\ new \in Nat /\ old <= new
    BY <1>1, <1>2, <2>1
  <2> HIDE DEF old, new
  <2>3. c.seen <= old + OwnPayment(c)
    BY <2>1 DEF old
  <2>4. c.seen <= new + OwnPayment(c)
    BY <1>1, <2>2, <2>3
  <2> QED
    BY <2>4 DEF new
<1>5. c.next = "createRepayment" => c.total <= Repaid(c.id)' + Column(c.amount)
  <2> SUFFICES ASSUME c.next = "createRepayment"
               PROVE  c.total <= Repaid(c.id)' + Column(c.amount)
    OBVIOUS
  <2>1. c.id \in Invested /\ c.id \in InvestmentIds /\ c.total <= Repaid(c.id) + Column(c.amount)
    BY DEF RepayCallWellFormed, Invested
  <2> DEFINE old == Repaid(c.id)
             new == Repaid(c.id)'
  <2>2. old \in Nat /\ new \in Nat /\ old <= new
    BY <1>2, <2>1
  <2> HIDE DEF old, new
  <2>3. c.total <= old + Column(c.amount)
    BY <2>1 DEF old
  <2>4. c.total <= new + Column(c.amount)
    BY <1>1, <2>2, <2>3
  <2> QED
    BY <2>4 DEF new
<1>6. /\ c.next \in {"accrueRoi", "checkSchedule", "sumSchedulePaid", "lockSchedule"} =>
           c.period \in DOMAIN schedules'[c.id]
      /\ c.next \in {"sumRepaid", "createRepayment"} => c.period \in {0} \cup DOMAIN schedules'[c.id]
      /\ c.next \in {"sumSchedulePaid", "lockSchedule", "sumRepaid", "createRepayment"} =>
           c.period = 0 \/ c.roi = 0 \/ RowAccrued(c.id, c.period)'
      /\ c.next = "disburse" => c.id \in RepaymentIds /\ repayments'[c.id].status # "NONE"
  BY <1>1, <1>3 DEF RepayCallWellFormed
<1> QED
  BY <1>4, <1>5, <1>6 DEF RepayCallWellFormed, OwnPayment

(* A step that only moves a request on.                                      *)
LEMMA CallMoves ==
  ASSUME RepaymentRowsInv, NEW w \in Workers, NEW c \in Calls, RepayCallWellFormed(c),
         call' = [call EXCEPT ![w] = c], UNCHANGED tables
  PROVE  RowsKept
<1>1. TablesInv
  BY InvParts
<1>2. TablesInv' /\ (Mirrored => Mirrored')
  BY <1>1, TablesSame
<1>3. \A v \in InvestmentIds, k \in Nat : /\ Paid(v, k) \in Nat /\ Paid(v, k)' = Paid(v, k)
                                          /\ Repaid(v) \in Nat /\ Repaid(v)' = Repaid(v)
  BY <1>1, PaidNat, PaidSame DEF TablesInv, tables
<1>4. ASSUME NEW d \in Calls, RepayCallWellFormed(d) PROVE RepayCallWellFormed(d)'
  <2>1. \A v \in Invested :
           /\ v \in Invested'
           /\ DOMAIN schedules'[v] = DOMAIN schedules[v]
           /\ \A k \in DOMAIN schedules[v] : schedules[v][k].accrued => schedules'[v][k].accrued
           /\ \A k \in Nat : Paid(v, k)' \in Nat /\ Paid(v, k) <= Paid(v, k)'
           /\ Repaid(v)' \in Nat /\ Repaid(v) <= Repaid(v)'
    BY <1>3 DEF tables, investmentTables, Invested
  <2> QED
    BY <1>1, <1>4, <2>1, CallsKept DEF tables
<1>5. call \in [Workers -> Calls] /\ \A x \in Workers : RepayCallWellFormed(call[x])
  BY InvParts
<1>6. call' \in [Workers -> Calls] /\ \A x \in Workers : call'[x] = IF x = w THEN c ELSE call[x]
  BY <1>5
<1>7. ASSUME NEW x \in Workers PROVE RepayCallWellFormed(call[x])'
  <2> DEFINE d == IF x = w THEN c ELSE call[x]
  <2>1. d \in Calls /\ RepayCallWellFormed(d)
    BY <1>5
  <2>2. RepayCallWellFormed(d)'
    BY <1>4, <2>1
  <2> QED
    BY <1>6, <2>2
<1> QED
  BY <1>2, <1>6, <1>7
     DEF RowsKept, RepaymentRowsInv, RepaymentTypeOK, TypeOK, StoreTypeOK, TablesInv

LEMMA IdleMoves ==
  ASSUME RepaymentRowsInv, NEW w \in Workers, End(w), UNCHANGED tables
  PROVE  RowsKept
<1>1. Idle \in Calls /\ RepayCallWellFormed(Idle)
  BY IdleIsACall DEF Idle, RepayCallWellFormed
<1> QED
  BY <1>1, CallMoves DEF End

LEMMA StartsKeepInv ==
  ASSUME RepaymentRowsInv, NEW w \in Workers,
         \/ \E v \in InvestmentIds, k \in 1 .. MaxPeriods : StartAccrueRoi(w, v, k)
         \/ \E r \in RepaymentIds : StartDisburse(w, r)
         \/ \E v \in InvestmentIds : StartMarkDefaulted(w, v) /\ UNCHANGED repayments
  PROVE  RowsKept
<1>1. ASSUME NEW v \in InvestmentIds, NEW k \in 1 .. MaxPeriods, StartAccrueRoi(w, v, k)
      PROVE  RowsKept
  <2> DEFINE c == [Idle EXCEPT !.next = "accrueRoi", !.id = v, !.period = k]
  <2>1. "accrueRoi" \in Steps /\ v \in DocumentIds /\ k \in Nat
    BY StoreAssumption DEF Steps, DocumentIds, StoreAssumption
  <2>2. c \in Calls
    BY <2>1, IdleIsACall DEF Calls
  <2>3. c.next = "accrueRoi" /\ c.id = v /\ c.period = k
    BY DEF Idle
  <2>4. RepayCallWellFormed(c)
    BY <1>1, <2>3 DEF RepayCallWellFormed, StartAccrueRoi, MayAccrue, Invested
  <2> QED
    BY <1>1, <2>2, <2>4, CallMoves DEF StartAccrueRoi, Begin, tables
<1>2. ASSUME NEW r \in RepaymentIds, StartDisburse(w, r) PROVE RowsKept
  <2> DEFINE c == [Idle EXCEPT !.next = "disburse", !.id = r]
  <2>1. "disburse" \in Steps /\ r \in DocumentIds
    BY DEF Steps, DocumentIds
  <2>2. c \in Calls
    BY <2>1, IdleIsACall DEF Calls
  <2>3. c.next = "disburse" /\ c.id = r
    BY DEF Idle
  <2>4. RepayCallWellFormed(c)
    BY <1>2, <2>3 DEF RepayCallWellFormed, StartDisburse
  <2> QED
    BY <1>2, <2>2, <2>4, CallMoves DEF StartDisburse, Begin, tables
<1>3. ASSUME NEW v \in InvestmentIds, StartMarkDefaulted(w, v), UNCHANGED repayments
      PROVE  RowsKept
  <2> DEFINE c == [Idle EXCEPT !.next = "markDefaulted", !.id = v]
  <2>1. "markDefaulted" \in Steps /\ v \in DocumentIds
    BY DEF Steps, DocumentIds
  <2>2. c \in Calls
    BY <2>1, IdleIsACall DEF Calls
  <2>3. c.next = "markDefaulted" /\ c.id = v
    BY DEF Idle
  <2>4. RepayCallWellFormed(c)
    BY <1>3, <2>3 DEF RepayCallWellFormed, StartMarkDefaulted, Invested
  <2> QED
    BY <1>3, <2>2, <2>4, CallMoves DEF StartMarkDefaulted, Begin, tables
<1> QED
  BY <1>1, <1>2, <1>3

LEMMA StartRecordKeepsInv ==
  ASSUME RepaymentRowsInv, NEW w \in Workers, NEW v \in InvestmentIds, NEW k \in 0 .. MaxPeriods,
         NEW payment \in Payments, StartRecordRepayment(w, v, k, payment)
  PROVE  RowsKept
<1> DEFINE step == IF k = 0 THEN "sumRepaid" ELSE "checkSchedule"
           c == [Idle EXCEPT !.next = step, !.id = v, !.period = k, !.amount = payment.principal,
                             !.roi = payment.roi, !.other = payment.other]
<1>1. /\ step \in Steps /\ v \in DocumentIds /\ k \in Nat
      /\ payment.principal \in Nat /\ payment.roi \in Nat /\ payment.other \in Nat
  BY StoreAssumption, PaymentAssumption DEF Steps, DocumentIds, StoreAssumption, PaymentAssumption
<1>2. c \in Calls
  BY <1>1, IdleIsACall DEF Calls
<1>3. c.next = step /\ c.id = v /\ c.period = k /\ c.seen = 0
  BY DEF Idle
<1>4. v \in Invested /\ k \in {0} \cup DOMAIN schedules[v]
  BY DEF StartRecordRepayment, MayRecord, Invested
<1>5. call' = [call EXCEPT ![w] = c]
  BY DEF StartRecordRepayment, Begin
<1> HIDE DEF c
<1>6. RepayCallWellFormed(c)
  BY <1>3, <1>4 DEF RepayCallWellFormed
<1> QED
  BY <1>2, <1>5, <1>6, CallMoves DEF StartRecordRepayment, tables

(* The reads of a recording: each sum is current when it is read.            *)
LEMMA ReadsKeepInv ==
  ASSUME RepaymentRowsInv, NEW w \in Workers,
         CheckSchedule(w) \/ SumSchedulePaid(w) \/ LockSchedule(w) \/ SumRepaid(w)
  PROVE  RowsKept
<1>1. /\ call \in [Workers -> Calls] /\ call[w] \in Calls /\ RepayCallWellFormed(call[w])
      /\ repayments \in [RepaymentIds -> RepaymentRow]
      /\ UNCHANGED tables
  BY InvParts DEF TablesInv, CheckSchedule, SumSchedulePaid, LockSchedule, SumRepaid, tables
<1>2. /\ Column(call[w].amount) \in Nat /\ OwnPayment(call[w]) \in Nat
      /\ \A v, k : Paid(v, k) \in Nat /\ Repaid(v) \in Nat
  BY <1>1, ColumnNat, PaidNat DEF Calls, OwnPayment
<1>3. ASSUME NEW step \in Steps, NEW seen \in Int, NEW total \in Nat
      PROVE  LET c == [call[w] EXCEPT !.next = step, !.seen = seen, !.total = total]
             IN  /\ c \in Calls
                 /\ c.next = step /\ c.seen = seen /\ c.total = total
                 /\ c.id = call[w].id /\ c.period = call[w].period /\ c.amount = call[w].amount
                 /\ c.roi = call[w].roi /\ c.other = call[w].other
  BY <1>1 DEF Calls
<1>4. /\ "sumSchedulePaid" \in Steps /\ "lockSchedule" \in Steps /\ "sumRepaid" \in Steps
      /\ "createRepayment" \in Steps
  BY DEF Steps
<1>5. CASE CheckSchedule(w)
  <2>1. CASE End(w)
    BY <1>1, <2>1, IdleMoves
  <2>2. CASE ~(call[w].roi > 0 /\ ~schedules[call[w].id][call[w].period].accrued)
             /\ Go(w, "sumSchedulePaid", 0)
    <3> DEFINE s == 0
               c == [call[w] EXCEPT !.next = "sumSchedulePaid", !.seen = s,
                                    !.total = call[w].total]
    <3>1. call' = [call EXCEPT ![w] = c]
      <4>1. call' = [call EXCEPT ![w].next = "sumSchedulePaid", ![w].seen = s]
        BY <2>2 DEF Go
      <4> HIDE DEF s
      <4> QED
        BY <1>1, <4>1 DEF Calls
    <3>5. s \in Int /\ call[w].total \in Nat
      BY <1>1 DEF Calls
    <3> HIDE DEF s
    <3>2. /\ c \in Calls
          /\ c.next = "sumSchedulePaid" /\ c.id = call[w].id /\ c.period = call[w].period
          /\ c.roi = call[w].roi
      BY <1>1, <1>3, <1>4, <3>5 DEF Calls
    <3> HIDE DEF c
    <3>3. c.id \in Invested /\ c.period \in DOMAIN schedules[c.id] /\ call[w].roi \in Nat
      BY <1>1, <1>5, <3>2 DEF CheckSchedule, RepayCallWellFormed, Calls
    <3>4. RepayCallWellFormed(c)
      BY <2>2, <3>2, <3>3 DEF RepayCallWellFormed, RowAccrued
    <3> QED
      BY <1>1, <3>1, <3>2, <3>4, CallMoves
  <2> QED
    BY <1>5, <2>1, <2>2 DEF CheckSchedule
<1>6. CASE SumSchedulePaid(w)
  <2> DEFINE s == Paid(call[w].id, call[w].period) + OwnPayment(call[w])
             c == [call[w] EXCEPT !.next = "lockSchedule", !.seen = s, !.total = call[w].total]
  <2>1. s \in Int /\ s <= Paid(call[w].id, call[w].period) + OwnPayment(call[w])
    BY <1>2
  <2>2. call' = [call EXCEPT ![w] = c]
    BY <1>1, <1>6 DEF SumSchedulePaid, Go, Calls
  <2> HIDE DEF s
  <2>3. /\ c \in Calls
        /\ c.next = "lockSchedule" /\ c.id = call[w].id /\ c.period = call[w].period
        /\ c.roi = call[w].roi /\ c.amount = call[w].amount /\ c.other = call[w].other
        /\ c.seen = s
    BY <1>1, <1>3, <1>4, <2>1 DEF Calls
  <2> HIDE DEF c
  <2>4. OwnPayment(c) = OwnPayment(call[w])
    BY <2>3 DEF OwnPayment
  <2>5. RepayCallWellFormed(c)
    BY <1>1, <1>6, <2>1, <2>3, <2>4 DEF RepayCallWellFormed, SumSchedulePaid
  <2> QED
    BY <1>1, <2>2, <2>3, <2>5, CallMoves
<1>7. CASE LockSchedule(w)
  <2> DEFINE c == [call[w] EXCEPT !.next = "sumRepaid", !.seen = call[w].seen,
                                  !.total = call[w].total]
  <2>1. call' = [call EXCEPT ![w] = c]
    BY <1>1, <1>7 DEF LockSchedule, Go, Calls
  <2>2. /\ c \in Calls
        /\ c.next = "sumRepaid" /\ c.id = call[w].id /\ c.period = call[w].period
        /\ c.roi = call[w].roi /\ c.amount = call[w].amount /\ c.other = call[w].other
        /\ c.seen = call[w].seen
    BY <1>1, <1>3, <1>4 DEF Calls
  <2> HIDE DEF c
  <2>3. OwnPayment(c) = OwnPayment(call[w])
    BY <2>2 DEF OwnPayment
  <2>4. RepayCallWellFormed(c)
    BY <1>1, <1>7, <2>2, <2>3 DEF RepayCallWellFormed, LockSchedule
  <2> QED
    BY <1>1, <2>1, <2>2, <2>4, CallMoves
<1>8. CASE SumRepaid(w)
  <2> DEFINE t == Repaid(call[w].id) + Column(call[w].amount)
             c == [call[w] EXCEPT !.next = "createRepayment", !.seen = call[w].seen, !.total = t]
  <2>1. t \in Nat /\ t <= Repaid(call[w].id) + Column(call[w].amount)
    BY <1>2
  <2>2. call' = [call EXCEPT ![w] = c]
    BY <1>1, <1>8 DEF SumRepaid, Calls
  <2> HIDE DEF t
  <2>3. /\ c \in Calls
        /\ c.next = "createRepayment" /\ c.id = call[w].id /\ c.period = call[w].period
        /\ c.roi = call[w].roi /\ c.amount = call[w].amount /\ c.other = call[w].other
        /\ c.seen = call[w].seen /\ c.total = t
    BY <1>1, <1>3, <1>4, <2>1 DEF Calls
  <2> HIDE DEF c
  <2>4. OwnPayment(c) = OwnPayment(call[w])
    BY <2>3 DEF OwnPayment
  <2>5. RepayCallWellFormed(c)
    BY <1>1, <1>8, <2>1, <2>3, <2>4 DEF RepayCallWellFormed, SumRepaid
  <2> QED
    BY <1>1, <2>2, <2>3, <2>5, CallMoves
<1> QED
  BY <1>5, <1>6, <1>7, <1>8
-----------------------------------------------------------------------------
(* The commits.  Each ends its own request and leaves the others well formed *)
(* if it takes no row and no accrual back.                                   *)
LEMMA CommitKeepsInv ==
  ASSUME RepaymentRowsInv, NEW w \in Workers, End(w), TablesInv',
         Mirrored => Mirrored',
         \A v \in Invested : v \in Invested',
         \A v \in InvestmentIds :
           /\ DOMAIN schedules'[v] = DOMAIN schedules[v]
           /\ \A k \in DOMAIN schedules[v] : schedules[v][k].accrued => schedules'[v][k].accrued
           /\ \A k \in Nat : Paid(v, k)' \in Nat /\ Paid(v, k) <= Paid(v, k)'
           /\ Repaid(v)' \in Nat /\ Repaid(v) <= Repaid(v)',
         \A r \in RepaymentIds : repayments[r].status # "NONE" => repayments'[r].status # "NONE"
  PROVE  RowsKept
<1>1. /\ TablesInv /\ call \in [Workers -> Calls]
      /\ \A x \in Workers : RepayCallWellFormed(call[x])
  BY InvParts
<1>2. /\ call' \in [Workers -> Calls]
      /\ \A x \in Workers : call'[x] = IF x = w THEN Idle ELSE call[x]
  BY <1>1, IdleIsACall DEF End
<1>3. ASSUME NEW x \in Workers PROVE RepayCallWellFormed(call[x])'
  <2>1. CASE x = w
    BY <1>2, <2>1 DEF RepayCallWellFormed, Idle
  <2>2. CASE x # w
    <3> DEFINE d == call[x]
    <3>1. d \in Calls /\ RepayCallWellFormed(d)
      BY <1>1
    <3>2. RepayCallWellFormed(d)'
      <4>1. ASSUME NEW e \in Calls, RepayCallWellFormed(e) PROVE RepayCallWellFormed(e)'
        <5>1. \A v \in Invested : v \in InvestmentIds
          BY DEF Invested
        <5> QED
          BY <1>1, <4>1, <5>1, CallsKept
      <4>2. PICK e \in Calls : e = call[x]
        BY <1>1
      <4>3. RepayCallWellFormed(e)'
        BY <1>1, <4>1, <4>2
      <4>4. call'[x] = e
        BY <1>2, <2>2, <4>2
      <4> QED
        BY <4>3, <4>4
    <3> QED
      BY <3>2
  <2> QED
    BY <2>1, <2>2
<1> QED
  BY <1>2, <1>3 DEF RowsKept, RepaymentRowsInv, RepaymentTypeOK, TypeOK, StoreTypeOK, TablesInv

(* Sums that no row was added to.                                            *)
LEMMA SumsKept ==
  ASSUME repayments \in [RepaymentIds -> RepaymentRow],
         \A r \in RepaymentIds : /\ repayments'[r].investment = repayments[r].investment
                                 /\ repayments'[r].period = repayments[r].period
                                 /\ repayments'[r].principal = repayments[r].principal
                                 /\ repayments'[r].roi = repayments[r].roi
                                 /\ repayments'[r].other = repayments[r].other
  PROVE  \A v \in InvestmentIds, k \in Nat :
           /\ Paid(v, k) \in Nat /\ Repaid(v) \in Nat
           /\ Paid(v, k)' = Paid(v, k) /\ Repaid(v)' = Repaid(v)
  BY PaidNat, PaidSame

LEMMA DefaultKeepsInv ==
  ASSUME RepaymentRowsInv, NEW w \in Workers, MarkDefaulted(w), UNCHANGED repayments
  PROVE  RowsKept
<1>1. /\ TablesInv /\ call[w] \in Calls /\ RepayCallWellFormed(call[w])
  BY InvParts
<1>2. PICK v \in InvestmentIds : v = call[w].id
  BY <1>1 DEF MarkDefaulted, RepayCallWellFormed, Invested
<1>3. investments' = [investments EXCEPT ![v] = [investments[v] EXCEPT !.status = "DEFAULTED"]]
  BY <1>1, <1>2 DEF MarkDefaulted
<1>4. /\ investments' \in [InvestmentIds -> InvestmentRow]
      /\ \A x \in InvestmentIds : /\ investments'[x].investor = investments[x].investor
                                  /\ investments'[x].principal = investments[x].principal
                                  /\ investments'[x].status = "CLOSED"
                                       => investments[x].status = "CLOSED"
                                  /\ x \in Invested' <=> x \in Invested
                                  /\ x \notin Invested => investments'[x] = investments[x]
  <2>1. v \in Invested
    BY <1>1, <1>2 DEF MarkDefaulted, RepayCallWellFormed
  <2> QED
    BY <1>1, <1>3, <2>1 DEF TablesInv, InvestmentRow, Invested
<1>5. UNCHANGED <<investorStatus, walletTxn, journal, opportunities, schedules, repayments>> /\ End(w)
  BY DEF MarkDefaulted
<1>6. \A x \in InvestmentIds, k \in Nat : /\ Paid(x, k) \in Nat /\ Repaid(x) \in Nat
                                          /\ Paid(x, k)' = Paid(x, k) /\ Repaid(x)' = Repaid(x)
  BY <1>1, <1>5, SumsKept DEF TablesInv
<1>7. ASSUME NEW x \in InvestmentIds PROVE InvestmentWellFormed(x)'
  <2>1. /\ InvestmentWellFormed(x)
        /\ investments'[x].investor = investments[x].investor
        /\ investments'[x].principal = investments[x].principal
        /\ x \in Invested' <=> x \in Invested
        /\ x \notin Invested => investments'[x] = investments[x]
        /\ journal' = journal /\ schedules' = schedules
    BY <1>1, <1>4, <1>5 DEF TablesInv
  <2> QED
    BY <2>1 DEF InvestmentWellFormed, RowAccrued
<1>8. ASSUME NEW r \in RepaymentIds PROVE RepaymentWellFormed(r)'
  <2>1. /\ RepaymentWellFormed(r)
        /\ repayments' = repayments /\ journal' = journal /\ schedules' = schedules
        /\ walletTxn' = walletTxn
    BY <1>1, <1>5 DEF TablesInv
  <2>2. repayments[r].status # "NONE" => InvestorOf(r)' = InvestorOf(r)
    BY <1>4, <2>1 DEF RepaymentWellFormed, InvestorOf, Invested
  <2>3. repayments[r].investment \in Invested => repayments[r].investment \in Invested'
    BY <1>4 DEF Invested
  <2> QED
    BY <2>1, <2>2, <2>3 DEF RepaymentWellFormed, RoiReceived, LegDisbursed, RowAccrued
<1>9. PaidIsPaid'
  <2> SUFFICES ASSUME NEW x \in InvestmentIds, NEW k \in DOMAIN schedules[x],
                      schedules[x][k].status = "PAID"
               PROVE  Paid(x, k)' >= schedules[x][k].totalDue
    BY <1>5 DEF PaidIsPaid
  <2>1. k \in Nat
    BY <1>1 DEF TablesInv
  <2> QED
    BY <1>1, <1>6, <2>1 DEF TablesInv, PaidIsPaid
<1>10. ClosedIsRepaid'
  BY <1>1, <1>4, <1>6 DEF TablesInv, ClosedIsRepaid
<1>11. TablesInv' /\ (Mirrored => Mirrored')
  BY <1>1, <1>4, <1>5, <1>7, <1>8, <1>9, <1>10 DEF TablesInv, Mirrored, MirroredAt
<1>12. \A x \in Invested : x \in Invested'
  BY <1>4 DEF Invested
<1> QED
  BY <1>5, <1>6, <1>11, <1>12, CommitKeepsInv

LEMMA AccrueKeepsInv ==
  ASSUME RepaymentRowsInv, NEW w \in Workers, AccrueRoi(w)
  PROVE  RowsKept
<1>1. /\ TablesInv /\ call[w] \in Calls /\ RepayCallWellFormed(call[w])
  BY InvParts
<1>0. PICK v \in InvestmentIds : v = call[w].id
  BY <1>1 DEF AccrueRoi, RepayCallWellFormed, Invested
<1>2. PICK k \in DOMAIN schedules[v] : v = call[w].id /\ k = call[w].period
  BY <1>0, <1>1 DEF AccrueRoi, RepayCallWellFormed
<1> DEFINE old == schedules[v][k]
           row == [old EXCEPT !.accrued = TRUE]
           entry == [investor |-> investments[v].investor, amount |-> old.roiDue]
           ref == AccrualRef(v, k)
<1>3. /\ schedules[v] \in Seq(ScheduleRow) /\ k \in 1 .. Len(schedules[v])
      /\ k \in 1 .. MaxPeriods /\ old \in ScheduleRow
  <2>1. schedules[v] \in Seq(ScheduleRow) /\ InvestmentWellFormed(v)
    BY <1>1 DEF TablesInv
  <2>2. k \in 1 .. Len(schedules[v]) /\ schedules[v][k] \in ScheduleRow
    BY <2>1
  <2> QED
    BY <2>1, <2>2 DEF InvestmentWellFormed
<1>4. /\ row \in ScheduleRow /\ row.accrued /\ row.status = old.status
      /\ row.totalDue = old.totalDue /\ row.roiDue = old.roiDue
  BY <1>3 DEF ScheduleRow
<1>5. entry \in Entry
  <2>1. old.roiDue > 0 /\ old.roiDue \in Int
    BY <1>2, <1>3 DEF AccrueRoi, ValidLines, ScheduleRow
  <2>2. v \in Invested /\ investments[v].investor \in Investors
    BY <1>1, <1>2 DEF AccrueRoi, RepayCallWellFormed, TablesInv, InvestmentWellFormed
  <2> HIDE DEF old
  <2> QED
    BY <2>1, <2>2 DEF Entry
<1>6. /\ journal' = [journal EXCEPT ![ref] = Append(@, entry)]
      /\ schedules' = [schedules EXCEPT ![v] = [schedules[v] EXCEPT ![k] = row]]
      /\ End(w)
      /\ UNCHANGED <<investorStatus, walletTxn, opportunities, investments, repayments>>
  BY <1>1, <1>2 DEF AccrueRoi, PostJournal, Posted, TablesInv
<1> HIDE DEF row
<1>7. /\ [schedules[v] EXCEPT ![k] = row] \in Seq(ScheduleRow)
      /\ DOMAIN [schedules[v] EXCEPT ![k] = row] = DOMAIN schedules[v]
      /\ \A n \in DOMAIN schedules[v] :
           [schedules[v] EXCEPT ![k] = row][n] = IF n = k THEN row ELSE schedules[v][n]
  BY <1>3, <1>4, ExceptSeq
<1>8. /\ schedules' \in [InvestmentIds -> Seq(ScheduleRow)]
      /\ \A x \in InvestmentIds : DOMAIN schedules'[x] = DOMAIN schedules[x]
      /\ schedules'[v][k] = row
      /\ \A x \in InvestmentIds : \A n \in DOMAIN schedules[x] :
           ~(x = v /\ n = k) => schedules'[x][n] = schedules[x][n]
  BY <1>1, <1>2, <1>6, <1>7 DEF TablesInv
<1>9. \A x \in InvestmentIds : \A n \in DOMAIN schedules[x] :
        /\ schedules[x][n].accrued => schedules'[x][n].accrued
        /\ schedules'[x][n].status = schedules[x][n].status
        /\ schedules'[x][n].totalDue = schedules[x][n].totalDue
        /\ schedules'[x][n].roiDue = schedules[x][n].roiDue
  BY <1>4, <1>8
<1>10. /\ ref \in References
       /\ journal' \in [References -> Seq(Entry)]
       /\ journal'[ref] = Append(journal[ref], entry)
       /\ \A r \in References \ {ref} : journal'[r] = journal[r]
  <2>1. ref \in References
    BY <1>3, RepaymentRefs
  <2>2. journal \in [References -> Seq(Entry)] /\ Append(journal[ref], entry) \in Seq(Entry)
    BY <1>1, <1>5, <2>1 DEF TablesInv
  <2> QED
    BY <1>6, <2>1, <2>2
<1> HIDE DEF entry, ref, old
<1>11. \A x \in InvestmentIds, n \in Nat : /\ Paid(x, n) \in Nat /\ Repaid(x) \in Nat
                                           /\ Paid(x, n)' = Paid(x, n) /\ Repaid(x)' = Repaid(x)
  BY <1>1, <1>6, SumsKept DEF TablesInv
<1>12. ASSUME NEW x \in InvestmentIds PROVE InvestmentWellFormed(x)'
  <2>1. InvestmentWellFormed(x)
    BY <1>1 DEF TablesInv
  <2>2. journal'[InvestmentRef(x)] = journal[InvestmentRef(x)]
    BY <1>10, RepaymentRefs DEF ref, AccrualRef, InvestmentRef
  <2>3. ASSUME NEW n \in 1 .. MaxPeriods
        PROVE  /\ (journal'[AccrualRef(x, n)] # <<>>) <=> RowAccrued(x, n)'
               /\ \A m \in DOMAIN journal'[AccrualRef(x, n)] :
                    journal'[AccrualRef(x, n)][m]
                      = [investor |-> investments'[x].investor, amount |-> schedules'[x][n].roiDue]
    <3>1. /\ AccrualRef(x, n) \in References
          /\ (journal[AccrualRef(x, n)] # <<>>) <=> RowAccrued(x, n)
          /\ \A m \in DOMAIN journal[AccrualRef(x, n)] :
                    journal[AccrualRef(x, n)][m]
                      = [investor |-> investments[x].investor, amount |-> schedules[x][n].roiDue]
      BY <1>1, RepaymentRefs DEF TablesInv, InvestmentWellFormed
    <3>2. CASE x = v /\ n = k
      <4>1. AccrualRef(x, n) = ref /\ journal'[ref] = Append(journal[ref], entry)
        BY <1>10, <3>2 DEF ref
      <4>2. journal[ref] \in Seq(Entry)
        BY <1>1, <1>10 DEF TablesInv
      <4>3. /\ journal'[ref] # <<>>
            /\ \A m \in DOMAIN journal'[ref] :
                 journal'[ref][m] = IF m \in DOMAIN journal[ref] THEN journal[ref][m] ELSE entry
        <5> DEFINE s == journal[ref]
        <5>1. s \in Seq(Entry) /\ journal'[ref] = Append(s, entry)
          BY <4>1, <4>2
        <5> HIDE DEF s
        <5>2. /\ Append(s, entry) # <<>>
              /\ \A m \in DOMAIN Append(s, entry) :
                   Append(s, entry)[m] = IF m \in DOMAIN s THEN s[m] ELSE entry
          BY <5>1, AppendProperties
        <5> QED
          BY <5>1, <5>2 DEF s
      <4>4. entry = [investor |-> investments'[x].investor, amount |-> schedules'[x][n].roiDue]
        BY <1>2, <1>6, <1>9, <3>2 DEF entry, old
      <4>5. RowAccrued(x, n)'
        BY <1>4, <1>8, <3>2 DEF RowAccrued
      <4>6. schedules'[x][n].roiDue = schedules[x][n].roiDue /\ investments' = investments
        BY <1>6, <1>9, <3>2
      <4> QED
        BY <3>1, <4>1, <4>3, <4>4, <4>5, <4>6
    <3>3. CASE ~(x = v /\ n = k)
      <4>1. journal'[AccrualRef(x, n)] = journal[AccrualRef(x, n)]
        BY <1>10, <3>1, <3>3 DEF ref, AccrualRef
      <4>2. RowAccrued(x, n)' <=> RowAccrued(x, n)
        BY <1>8, <3>3 DEF RowAccrued
      <4>3. journal[AccrualRef(x, n)] # <<>> => schedules'[x][n].roiDue = schedules[x][n].roiDue
        BY <1>9, <3>1 DEF RowAccrued
      <4>4. journal[AccrualRef(x, n)] = <<>> => DOMAIN journal[AccrualRef(x, n)] = {}
        OBVIOUS
      <4>5. investments' = investments
        BY <1>6
      <4> QED
        BY <3>1, <4>1, <4>2, <4>3, <4>4, <4>5
    <3> QED
      BY <3>2, <3>3
  <2>4. /\ DOMAIN schedules'[x] = DOMAIN schedules[x] /\ investments'[x] = investments[x]
        /\ x \in Invested' <=> x \in Invested
        /\ x \notin Invested => schedules'[x] = schedules[x]
    <3>1. v \in Invested
      BY <1>1, <1>2 DEF AccrueRoi, RepayCallWellFormed
    <3> QED
      BY <1>1, <1>6, <1>7, <1>8, <3>1 DEF Invested, TablesInv
  <2> QED
    BY <2>1, <2>2, <2>3, <2>4 DEF InvestmentWellFormed
<1>13. ASSUME NEW r \in RepaymentIds PROVE RepaymentWellFormed(r)'
  <2>1. RepaymentWellFormed(r)
    BY <1>1 DEF TablesInv
  <2>2. /\ journal'[RoiWalletRef(r)] = journal[RoiWalletRef(r)]
        /\ journal'[PrincipalRef(r)] = journal[PrincipalRef(r)]
        /\ journal'[RoiCashRef(r)] = journal[RoiCashRef(r)]
    BY <1>10, RepaymentRefs DEF ref, AccrualRef, RoiWalletRef, PrincipalRef, RoiCashRef
  <2>3. \A x \in InvestmentIds : \A n : RowAccrued(x, n) => RowAccrued(x, n)'
    BY <1>8, <1>9 DEF RowAccrued
  <2>4. Invested' = Invested /\ \A x \in Invested : x \in InvestmentIds
    BY <1>6 DEF Invested
  <2> QED
    BY <1>6, <1>8, <2>1, <2>2, <2>3, <2>4
       DEF RepaymentWellFormed, RoiReceived, LegDisbursed, InvestorOf
<1>14. Mirrored => Mirrored'
  <2>1. ref[1] \notin WalletKinds
    BY DEF ref, AccrualRef, WalletKinds
  <2> QED
    BY <1>1, <1>6, <1>10, <2>1 DEF TablesInv, Mirrored, MirroredAt
<1>15. PaidIsPaid'
  <2> SUFFICES ASSUME NEW x \in InvestmentIds, NEW n \in DOMAIN schedules'[x],
                      schedules'[x][n].status = "PAID"
               PROVE  Paid(x, n)' >= schedules'[x][n].totalDue
    BY DEF PaidIsPaid
  <2>1. n \in DOMAIN schedules[x] /\ n \in Nat
    BY <1>1, <1>8 DEF TablesInv
  <2> QED
    BY <1>1, <1>9, <1>11, <2>1 DEF TablesInv, PaidIsPaid
<1>16. ClosedIsRepaid'
  BY <1>1, <1>6, <1>11 DEF TablesInv, ClosedIsRepaid
<1>17. TablesInv' /\ \A x \in Invested : x \in Invested'
  BY <1>1, <1>6, <1>8, <1>10, <1>12, <1>13, <1>15, <1>16 DEF TablesInv, Invested
<1>18. \A x \in InvestmentIds :
         /\ DOMAIN schedules'[x] = DOMAIN schedules[x]
         /\ \A n \in DOMAIN schedules[x] : schedules[x][n].accrued => schedules'[x][n].accrued
         /\ \A n \in Nat : Paid(x, n)' \in Nat /\ Paid(x, n) <= Paid(x, n)'
         /\ Repaid(x)' \in Nat /\ Repaid(x) <= Repaid(x)'
  <2> SUFFICES ASSUME NEW x \in InvestmentIds
               PROVE  /\ DOMAIN schedules'[x] = DOMAIN schedules[x]
                      /\ \A n \in DOMAIN schedules[x] :
                           schedules[x][n].accrued => schedules'[x][n].accrued
                      /\ \A n \in Nat : Paid(x, n)' \in Nat /\ Paid(x, n) <= Paid(x, n)'
                      /\ Repaid(x)' \in Nat /\ Repaid(x) <= Repaid(x)'
    OBVIOUS
  <2>1. ASSUME NEW n \in Nat PROVE Paid(x, n)' \in Nat /\ Paid(x, n) <= Paid(x, n)'
    <3>1. Paid(x, n) \in Nat /\ Paid(x, n)' = Paid(x, n)
      BY <1>11
    <3> QED
      BY <3>1
  <2>2. Repaid(x)' \in Nat /\ Repaid(x) <= Repaid(x)'
    <3>1. Repaid(x) \in Nat /\ Repaid(x)' = Repaid(x)
      BY <1>11
    <3> QED
      BY <3>1
  <2>3. /\ DOMAIN schedules'[x] = DOMAIN schedules[x]
        /\ \A n \in DOMAIN schedules[x] : schedules[x][n].accrued => schedules'[x][n].accrued
    BY <1>8, <1>9
  <2> QED
    BY <2>1, <2>2, <2>3
<1> QED
  BY <1>6, <1>14, <1>17, <1>18, CommitKeepsInv

(* The row takes what its request summed as its status: no more than what    *)
(* is recorded once the new repayment is.                                    *)
LEMMA CreateKeepsInv ==
  ASSUME RepaymentRowsInv, NEW w \in Workers, NEW r \in RepaymentIds, CreateRepayment(w, r)
  PROVE  RowsKept
<1>1. /\ TablesInv /\ call[w] \in Calls /\ RepayCallWellFormed(call[w])
  BY InvParts
<1>0. PICK v \in InvestmentIds : v = call[w].id
  BY <1>1 DEF CreateRepayment, RepayCallWellFormed, Invested
<1>2. PICK c \in Calls : c = call[w]
  BY <1>1
<1> DEFINE p == c.period
           row == [status |-> "RECEIVED", investment |-> v, period |-> p,
                   principal |-> Column(c.amount), roi |-> Column(c.roi),
                   other |-> Column(c.other)]
           ref == RoiCashRef(r)
<1>3. /\ c.id = v
      /\ p \in {0} \cup DOMAIN schedules[v]
      /\ p = 0 \/ c.roi = 0 \/ RowAccrued(v, p)
      /\ p = 0 \/ c.seen <= Paid(v, p) + OwnPayment(c)
      /\ c.total <= Repaid(v) + Column(c.amount)
      /\ c.seen \in Int /\ c.total \in Nat
      /\ Column(c.amount) \in Nat /\ Column(c.roi) \in Nat /\ Column(c.other) \in Nat
  BY <1>0, <1>1, <1>2, ColumnNat DEF CreateRepayment, RepayCallWellFormed, Calls
<1>4. /\ schedules[v] \in Seq(ScheduleRow) /\ DOMAIN schedules[v] \subseteq 1 .. MaxPeriods
      /\ investments[v].investor \in Investors /\ investments[v] \in InvestmentRow
      /\ MaxPeriods \in Nat /\ v \in Invested
  <2>1. v \in Invested
    BY <1>0, <1>1 DEF CreateRepayment, RepayCallWellFormed
  <2> QED
    BY <1>1, <2>1, StoreAssumption DEF TablesInv, InvestmentWellFormed, StoreAssumption
<1>5. /\ row \in RepaymentRow
      /\ row.status = "RECEIVED" /\ row.investment = v /\ row.period = p
      /\ row.principal + row.roi + row.other = OwnPayment(c)
      /\ row.principal = Column(c.amount) /\ row.roi = Column(c.roi)
  <2>1. p \in 0 .. MaxPeriods
    BY <1>3, <1>4
  <2> QED
    BY <1>3, <2>1 DEF RepaymentRow, OwnPayment
<1>6. /\ repayments[r] = NoRepayment
      /\ repayments' = [repayments EXCEPT ![r] = row]
      /\ End(w)
      /\ UNCHANGED <<investorStatus, walletTxn, opportunities>>
  BY <1>0, <1>2 DEF CreateRepayment
<1>7. \/ c.roi = 0 /\ journal' = journal
      \/ PostJournal(ref, investments[v].investor, Column(c.roi))
  BY <1>0, <1>2 DEF CreateRepayment, Calls
<1>8. \/ p = 0 /\ schedules' = schedules
      \/ p # 0 /\ \E status \in {"PAID", "PARTIALLY_PAID"} :
                    /\ schedules' = [schedules EXCEPT ![v][p].status = status]
                    /\ status = "PAID" => c.seen >= schedules[v][p].totalDue
  BY <1>0, <1>2 DEF CreateRepayment, Settles
<1>9. \/ investments' = investments
      \/ /\ investments' = [investments EXCEPT ![v].status = "CLOSED"]
         /\ c.total >= investments[v].principal
  BY <1>0, <1>2 DEF CreateRepayment, Closes
<1> HIDE DEF row, p
<1>10. /\ repayments' \in [RepaymentIds -> RepaymentRow]
       /\ repayments'[r] = row
       /\ \A x \in RepaymentIds \ {r} : repayments'[x] = repayments[x]
  BY <1>1, <1>5, <1>6 DEF TablesInv
<1>11. /\ ref \in References
       /\ journal' \in [References -> Seq(Entry)]
       /\ \A x \in References \ {ref} : journal'[x] = journal[x]
       /\ \/ c.roi = 0 /\ journal'[ref] = journal[ref]
          \/ journal'[ref] = Append(journal[ref], [investor |-> investments[v].investor,
                                                   amount |-> Column(c.roi)])
  <2>1. ref \in References
    BY RepaymentRefs
  <2> DEFINE entry == [investor |-> investments[v].investor, amount |-> Column(c.roi)]
  <2>2. entry \in Entry /\ journal \in [References -> Seq(Entry)]
    BY <1>1, <1>3, <1>4 DEF TablesInv, Entry
  <2>3. Append(journal[ref], entry) \in Seq(Entry)
    <3> HIDE DEF entry
    <3> QED
      BY <2>1, <2>2
  <2>4. \/ c.roi = 0 /\ journal' = journal
        \/ journal' = [journal EXCEPT ![ref] = Append(journal[ref], entry)]
    BY <1>7 DEF PostJournal, Posted
  <2>5. /\ journal' \in [References -> Seq(Entry)]
        /\ \A x \in References \ {ref} : journal'[x] = journal[x]
        /\ \/ c.roi = 0 /\ journal'[ref] = journal[ref]
           \/ journal'[ref] = Append(journal[ref], entry)
    <3> HIDE DEF entry, ref
    <3> QED
      BY <2>1, <2>2, <2>3, <2>4
  <2> QED
    BY <2>1, <2>5
<1>12. /\ schedules' \in [InvestmentIds -> Seq(ScheduleRow)]
       /\ \A x \in InvestmentIds : DOMAIN schedules'[x] = DOMAIN schedules[x]
       /\ \A x \in InvestmentIds : \A n \in DOMAIN schedules[x] :
            /\ schedules'[x][n].accrued = schedules[x][n].accrued
            /\ schedules'[x][n].totalDue = schedules[x][n].totalDue
            /\ schedules'[x][n].roiDue = schedules[x][n].roiDue
            /\ schedules'[x][n].status = "PAID" =>
                 \/ schedules[x][n].status = "PAID"
                 \/ x = v /\ n = p /\ p # 0 /\ c.seen >= schedules[v][p].totalDue
  <2>1. CASE schedules' = schedules
    BY <1>1, <2>1 DEF TablesInv
  <2>2. ASSUME p # 0, NEW status \in {"PAID", "PARTIALLY_PAID"},
               schedules' = [schedules EXCEPT ![v][p].status = status],
               status = "PAID" => c.seen >= schedules[v][p].totalDue
        PROVE  <1>12!1 /\ <1>12!2 /\ <1>12!3
    <3> DEFINE new == [schedules[v][p] EXCEPT !.status = status]
               s == [schedules[v] EXCEPT ![p] = new]
    <3>1. p \in DOMAIN schedules[v]
      BY <1>3, <2>2
    <3>2. p \in 1 .. Len(schedules[v]) /\ schedules[v][p] \in ScheduleRow
      BY <1>4, <3>1
    <3>3. /\ new \in ScheduleRow /\ new.status = status
          /\ new.accrued = schedules[v][p].accrued
          /\ new.totalDue = schedules[v][p].totalDue /\ new.roiDue = schedules[v][p].roiDue
      BY <3>2 DEF ScheduleRow
    <3>4. schedules' = [schedules EXCEPT ![v] = s]
      BY <1>1, <2>2 DEF TablesInv
    <3> HIDE DEF new
    <3>5. /\ s \in Seq(ScheduleRow) /\ DOMAIN s = DOMAIN schedules[v]
          /\ \A n \in DOMAIN schedules[v] : s[n] = IF n = p THEN new ELSE schedules[v][n]
      BY <1>4, <3>2, <3>3, ExceptSeq
    <3> HIDE DEF s
    <3>6. /\ schedules' \in [InvestmentIds -> Seq(ScheduleRow)]
          /\ schedules'[v] = s
          /\ \A x \in InvestmentIds \ {v} : schedules'[x] = schedules[x]
      BY <1>1, <3>4, <3>5 DEF TablesInv
    <3>7. ASSUME NEW x \in InvestmentIds, NEW n \in DOMAIN schedules[x]
          PROVE  /\ schedules'[x][n].accrued = schedules[x][n].accrued
                 /\ schedules'[x][n].totalDue = schedules[x][n].totalDue
                 /\ schedules'[x][n].roiDue = schedules[x][n].roiDue
                 /\ schedules'[x][n].status = "PAID" =>
                      \/ schedules[x][n].status = "PAID"
                      \/ x = v /\ n = p /\ p # 0 /\ c.seen >= schedules[v][p].totalDue
      <4>1. CASE x = v /\ n = p
        BY <2>2, <3>3, <3>5, <3>6, <4>1
      <4>2. CASE ~(x = v /\ n = p)
        BY <3>5, <3>6, <4>2
      <4> QED
        BY <4>1, <4>2
    <3> QED
      BY <3>5, <3>6, <3>7
  <2> QED
    BY <1>8, <2>1, <2>2
<1>13. /\ investments' \in [InvestmentIds -> InvestmentRow]
       /\ \A x \in InvestmentIds :
            /\ investments'[x].investor = investments[x].investor
            /\ investments'[x].principal = investments[x].principal
            /\ investments'[x].status = "CLOSED" =>
                 \/ investments[x].status = "CLOSED"
                 \/ x = v /\ c.total >= investments[v].principal
            /\ x \in Invested' <=> x \in Invested
            /\ x \notin Invested => investments'[x] = investments[x]
  <2>1. investments \in [InvestmentIds -> InvestmentRow]
    BY <1>1 DEF TablesInv
  <2>2. CASE investments' = investments
    BY <2>1, <2>2 DEF Invested
  <2>3. CASE investments' = [investments EXCEPT ![v].status = "CLOSED"]
             /\ c.total >= investments[v].principal
    BY <1>4, <2>1, <2>3 DEF InvestmentRow, Invested
  <2> QED
    BY <1>9, <2>2, <2>3
<1>14. ASSUME NEW x \in InvestmentIds
       PROVE  /\ \A n \in Nat : /\ Paid(x, n)' \in Nat /\ Paid(x, n) <= Paid(x, n)'
                                /\ x = v /\ n = p => Paid(x, n)' = Paid(v, p) + OwnPayment(c)
              /\ Repaid(x)' \in Nat /\ Repaid(x) <= Repaid(x)'
              /\ x = v => Repaid(x)' = Repaid(v) + Column(c.amount)
  <2>1. repayments \in [RepaymentIds -> RepaymentRow] /\ OwnPayment(c) \in Nat
    BY <1>1, <1>3 DEF TablesInv, OwnPayment
  <2>2. ASSUME NEW n \in Nat
        PROVE  /\ Paid(x, n)' \in Nat /\ Paid(x, n) <= Paid(x, n)'
               /\ x = v /\ n = p => Paid(x, n)' = Paid(v, p) + OwnPayment(c)
               /\ Repaid(x)' \in Nat /\ Repaid(x) <= Repaid(x)'
               /\ x = v => Repaid(x)' = Repaid(v) + Column(c.amount)
    <3>1. /\ Paid(x, n)' = Paid(x, n) + IF row.investment = x /\ row.period = n
                                        THEN row.principal + row.roi + row.other ELSE 0
          /\ Repaid(x)' = Repaid(x) + IF row.investment = x THEN row.principal ELSE 0
      <4>1. row \in RepaymentRow /\ repayments[r] = NoRepayment
        BY <1>5, <1>6
      <4>2. repayments' = [repayments EXCEPT ![r] = row]
        BY <1>6
      <4> QED
        BY <2>1, <4>1, <4>2, PaidGrows
    <3>2. Paid(x, n) \in Nat /\ Repaid(x) \in Nat
      BY <2>1, PaidNat
    <3>3. Paid(x, n)' = Paid(x, n) + IF v = x /\ p = n THEN OwnPayment(c) ELSE 0
      BY <1>5, <3>1
    <3>4. Repaid(x)' = Repaid(x) + IF v = x THEN Column(c.amount) ELSE 0
      BY <1>5, <3>1
    <3> DEFINE a == Paid(x, n)
               b == Repaid(x)
    <3>5. a \in Nat /\ b \in Nat
      BY <3>2
    <3>6. a + (IF v = x /\ p = n THEN OwnPayment(c) ELSE 0) \in Nat
          /\ a <= a + IF v = x /\ p = n THEN OwnPayment(c) ELSE 0
      <4> HIDE DEF a
      <4> QED
        BY <2>1, <3>5
    <3>7. b + (IF v = x THEN Column(c.amount) ELSE 0) \in Nat
          /\ b <= b + IF v = x THEN Column(c.amount) ELSE 0
      <4> HIDE DEF b
      <4> QED
        BY <1>3, <3>5
    <3> QED
      BY <3>3, <3>4, <3>6, <3>7
  <2>3. 0 \in Nat
    OBVIOUS
  <2> QED
    BY <2>2, <2>3
<1>15. ASSUME NEW x \in InvestmentIds PROVE InvestmentWellFormed(x)'
  <2>1. InvestmentWellFormed(x)
    BY <1>1 DEF TablesInv
  <2>2. /\ journal'[InvestmentRef(x)] = journal[InvestmentRef(x)]
        /\ \A n \in 1 .. MaxPeriods : journal'[AccrualRef(x, n)] = journal[AccrualRef(x, n)]
    BY <1>11, RepaymentRefs DEF ref, RoiCashRef, InvestmentRef, AccrualRef
  <2>3. \A n : RowAccrued(x, n)' <=> RowAccrued(x, n)
    BY <1>12 DEF RowAccrued
  <2>4. /\ investments'[x].investor = investments[x].investor
        /\ investments'[x].principal = investments[x].principal
        /\ DOMAIN schedules'[x] = DOMAIN schedules[x]
    BY <1>12, <1>13
  <2>5. /\ x \in Invested' <=> x \in Invested
        /\ x \notin Invested => investments'[x] = investments[x]
        /\ x \notin Invested => schedules'[x] = schedules[x]
    <3>1. x # v => schedules'[x] = schedules[x]
      BY <1>1, <1>8 DEF TablesInv
    <3> QED
      BY <1>4, <1>13, <3>1
  <2>6. ASSUME NEW n \in 1 .. MaxPeriods
        PROVE  /\ (journal'[AccrualRef(x, n)] # <<>>) <=> RowAccrued(x, n)'
               /\ \A m \in DOMAIN journal'[AccrualRef(x, n)] :
                    journal'[AccrualRef(x, n)][m]
                      = [investor |-> investments'[x].investor, amount |-> schedules'[x][n].roiDue]
    <3>1. /\ journal'[AccrualRef(x, n)] = journal[AccrualRef(x, n)]
          /\ (journal[AccrualRef(x, n)] # <<>>) <=> RowAccrued(x, n)
          /\ \A m \in DOMAIN journal[AccrualRef(x, n)] :
                    journal[AccrualRef(x, n)][m]
                      = [investor |-> investments[x].investor, amount |-> schedules[x][n].roiDue]
      BY <2>1, <2>2 DEF InvestmentWellFormed
    <3>2. journal[AccrualRef(x, n)] # <<>> => schedules'[x][n].roiDue = schedules[x][n].roiDue
      BY <1>12, <3>1 DEF RowAccrued
    <3>3. journal[AccrualRef(x, n)] = <<>> => DOMAIN journal[AccrualRef(x, n)] = {}
      OBVIOUS
    <3> QED
      BY <2>3, <2>4, <3>1, <3>2, <3>3
  <2> QED
    BY <2>1, <2>2, <2>4, <2>5, <2>6 DEF InvestmentWellFormed
<1>16. ASSUME NEW x \in RepaymentIds PROVE RepaymentWellFormed(x)'
  <2>1. RepaymentWellFormed(x)
    BY <1>1 DEF TablesInv
  <2>2. /\ journal'[RoiWalletRef(x)] = journal[RoiWalletRef(x)]
        /\ journal'[PrincipalRef(x)] = journal[PrincipalRef(x)]
        /\ walletTxn' = walletTxn
    BY <1>6, <1>11, RepaymentRefs DEF ref, RoiCashRef, RoiWalletRef, PrincipalRef
  <2>3. \A y \in InvestmentIds : \A n : RowAccrued(y, n)' <=> RowAccrued(y, n)
    BY <1>12 DEF RowAccrued
  <2>4. CASE x = r
    <3>1. /\ journal[RoiWalletRef(r)] = <<>> /\ walletTxn[RoiWalletRef(r)] = NoTxn
          /\ journal[PrincipalRef(r)] = <<>> /\ walletTxn[PrincipalRef(r)] = NoTxn
      BY <1>6, <2>1, <2>4 DEF RepaymentWellFormed, LegDisbursed, NoRepayment
    <3>2. Column(0) = 0
      BY DEF Column
    <3>6. RoiReceived(r)'
      <4>1. journal[ref] = <<>>
        BY <1>6, <2>1, <2>4 DEF RepaymentWellFormed, RoiReceived, NoRepayment
      <4>2. /\ repayments'[r].status # "NONE" /\ repayments'[r].roi = Column(c.roi)
            /\ InvestorOf(r)' = investments[v].investor
        BY <1>5, <1>10, <1>13 DEF InvestorOf
      <4>3. CASE c.roi = 0 /\ journal'[ref] = journal[ref]
        BY <3>2, <4>1, <4>2, <4>3 DEF RoiReceived
      <4>4. CASE journal'[ref] = Append(journal[ref], [investor |-> investments[v].investor,
                                                       amount |-> Column(c.roi)])
        <5>1. \A e : Append(<<>>, e) = <<e>>
          OBVIOUS
        <5>2. journal'[ref] = <<[investor |-> investments[v].investor, amount |-> Column(c.roi)]>>
          BY <4>1, <4>4, <5>1
        <5> QED
          BY <4>2, <5>2 DEF RoiReceived
      <4> QED
        BY <1>11, <4>3, <4>4
    <3>3. row.period = 0 \/ row.roi = 0 \/ RowAccrued(row.investment, row.period)'
      BY <1>3, <1>5, <2>3, <3>2
    <3>4. row.investment \in Invested' /\ row.period \in {0} \cup DOMAIN schedules'[row.investment]
      BY <1>3, <1>4, <1>5, <1>12, <1>13 DEF p
    <3>5. repayments'[x] = row /\ row.status = "RECEIVED"
      BY <1>5, <1>10, <2>4
    <3> QED
      BY <2>2, <2>4, <3>1, <3>3, <3>4, <3>5, <3>6 DEF RepaymentWellFormed, LegDisbursed
  <2>5. CASE x # r
    <3>1. repayments'[x] = repayments[x] /\ journal'[RoiCashRef(x)] = journal[RoiCashRef(x)]
      BY <1>10, <1>11, <2>5, RepaymentRefs DEF ref, RoiCashRef
    <3>2. repayments[x].status # "NONE" => InvestorOf(x)' = InvestorOf(x)
      BY <1>13, <2>1, <3>1 DEF RepaymentWellFormed, InvestorOf, Invested
    <3>3. \A y \in Invested : y \in InvestmentIds /\ y \in Invested'
      BY <1>13 DEF Invested
    <3> QED
      BY <1>12, <2>1, <2>2, <2>3, <3>1, <3>2, <3>3
         DEF RepaymentWellFormed, RoiReceived, LegDisbursed
  <2> QED
    BY <2>4, <2>5
<1>17. Mirrored => Mirrored'
  <2>1. ref[1] \notin WalletKinds
    BY DEF ref, RoiCashRef, WalletKinds
  <2>2. ASSUME Mirrored, NEW x \in References PROVE MirroredAt(x)'
    <3>1. MirroredAt(x) /\ walletTxn' = walletTxn
      BY <1>6, <2>2 DEF Mirrored
    <3>2. x = ref \/ journal'[x] = journal[x]
      BY <1>11
    <3> QED
      BY <2>1, <3>1, <3>2 DEF MirroredAt
  <2> QED
    BY <2>2 DEF Mirrored
<1>18. PaidIsPaid'
  <2> SUFFICES ASSUME NEW x \in InvestmentIds, NEW n \in DOMAIN schedules'[x],
                      schedules'[x][n].status = "PAID"
               PROVE  Paid(x, n)' >= schedules'[x][n].totalDue
    BY DEF PaidIsPaid
  <2>1. n \in DOMAIN schedules[x] /\ n \in Nat /\ schedules[x][n] \in ScheduleRow
    BY <1>1, <1>12 DEF TablesInv
  <2> DEFINE due == schedules[x][n].totalDue
             old == Paid(x, n)
             new == Paid(x, n)'
  <2>2. due \in Int /\ schedules'[x][n].totalDue = due
    BY <1>12, <2>1 DEF ScheduleRow
  <2>3. old \in Nat /\ new \in Nat /\ old <= new
    <3>1. repayments \in [RepaymentIds -> RepaymentRow]
      BY <1>1 DEF TablesInv
    <3> QED
      BY <1>14, <2>1, <3>1, PaidNat
  <2>4. CASE schedules[x][n].status = "PAID"
    <3>1. old >= due
      BY <1>1, <2>1, <2>4 DEF TablesInv, PaidIsPaid
    <3> HIDE DEF old, new, due
    <3>2. new >= due
      BY <2>2, <2>3, <3>1
    <3> QED
      BY <2>2, <3>2 DEF new
  <2>5. CASE schedules[x][n].status # "PAID"
    <3>1. x = v /\ n = p /\ p # 0 /\ c.seen >= due
      BY <1>12, <2>1, <2>5
    <3>2. c.seen <= new
      BY <1>3, <1>14, <2>1, <3>1
    <3> HIDE DEF new, due
    <3>3. new >= due
      BY <1>3, <2>2, <2>3, <3>1, <3>2
    <3> QED
      BY <2>2, <3>3 DEF new
  <2> QED
    BY <2>4, <2>5
<1>19. ClosedIsRepaid'
  <2> SUFFICES ASSUME NEW x \in InvestmentIds, investments'[x].status = "CLOSED"
               PROVE  Repaid(x)' >= investments'[x].principal
    BY DEF ClosedIsRepaid
  <2> DEFINE due == investments[x].principal
             old == Repaid(x)
             new == Repaid(x)'
  <2>1. due \in Nat /\ investments'[x].principal = due
    BY <1>1, <1>13 DEF TablesInv, InvestmentRow
  <2>2. old \in Nat /\ new \in Nat /\ old <= new
    <3>1. repayments \in [RepaymentIds -> RepaymentRow]
      BY <1>1 DEF TablesInv
    <3> QED
      BY <1>14, <3>1, PaidNat
  <2>3. old >= due \/ (c.total <= new /\ c.total >= due)
    BY <1>1, <1>3, <1>13, <1>14 DEF TablesInv, ClosedIsRepaid
  <2> HIDE DEF old, new, due
  <2>4. new >= due
    BY <1>3, <2>1, <2>2, <2>3
  <2> QED
    BY <2>1, <2>4 DEF new
<1>20. TablesInv' /\ \A x \in Invested : x \in Invested'
  BY <1>1, <1>6, <1>10, <1>11, <1>12, <1>13, <1>15, <1>16, <1>18, <1>19 DEF TablesInv, Invested
<1>21. \A x \in InvestmentIds :
         /\ DOMAIN schedules'[x] = DOMAIN schedules[x]
         /\ \A n \in DOMAIN schedules[x] : schedules[x][n].accrued => schedules'[x][n].accrued
         /\ \A n \in Nat : Paid(x, n)' \in Nat /\ Paid(x, n) <= Paid(x, n)'
         /\ Repaid(x)' \in Nat /\ Repaid(x) <= Repaid(x)'
  BY <1>12, <1>14
<1>22. \A x \in RepaymentIds : repayments[x].status # "NONE" => repayments'[x].status # "NONE"
  BY <1>6, <1>10 DEF NoRepayment
<1> QED
  BY <1>6, <1>17, <1>20, <1>21, <1>22, CommitKeepsInv

(* The legs committed together are those the repayment has: the unique index *)
(* on the wallet's rows means none was committed before.                     *)
LEMMA DisburseKeepsInv ==
  ASSUME RepaymentRowsInv, NEW w \in Workers, Disburse(w)
  PROVE  RowsKept
<1>1. /\ TablesInv /\ call[w] \in Calls /\ RepayCallWellFormed(call[w])
  BY InvParts
<1>2. PICK r \in RepaymentIds : r = call[w].id
  BY <1>1 DEF Disburse, RepayCallWellFormed
<1> DEFINE row == repayments[r]
           refs == {leg[1] : leg \in Legs(r)}
           amount(ref) == IF ref = PrincipalRef(r) THEN repayments[r].principal
                                                   ELSE repayments[r].roi
           entry(ref) == [investor |-> InvestorOf(r), amount |-> amount(ref)]
           txn(ref) == [status |-> "POSTED", investor |-> InvestorOf(r), amount |-> amount(ref)]
<1>3. /\ CanDisburse(r)
      /\ journal' = [ref \in References |->
           IF ref \in refs THEN Append(journal[ref], entry(ref)) ELSE journal[ref]]
      /\ walletTxn' = [ref \in References |->
           IF ref \in refs THEN txn(ref) ELSE walletTxn[ref]]
      /\ repayments' = [repayments EXCEPT ![r].status = "DISBURSED"]
      /\ End(w)
      /\ UNCHANGED <<investorStatus, opportunities, investments, schedules>>
  BY <1>2 DEF Disburse, investmentTables
<1>4. row.status # "NONE" /\ row \in RepaymentRow /\ RepaymentWellFormed(r)
  BY <1>1, <1>2, <1>3 DEF TablesInv, RepayCallWellFormed, Disburse
<1>5. row.investment \in InvestmentIds /\ InvestorOf(r) \in Investors
  BY <1>1, <1>4 DEF TablesInv, RepaymentWellFormed, InvestmentWellFormed, InvestorOf, Invested
<1>6. /\ RoiWalletRef(r) # PrincipalRef(r)
      /\ row.roi \in Nat /\ row.principal \in Nat
      /\ refs \subseteq {RoiWalletRef(r), PrincipalRef(r)}
      /\ RoiWalletRef(r) \in refs <=> row.roi > 0
      /\ PrincipalRef(r) \in refs <=> row.principal > 0
  <2>1. RoiWalletRef(r) # PrincipalRef(r)
    BY DEF RoiWalletRef, PrincipalRef
  <2> DEFINE first == <<RoiWalletRef(r), row.roi>>
             second == <<PrincipalRef(r), row.principal>>
  <2>2. /\ Legs(r) = {leg \in {first, second} : leg[2] > 0}
        /\ first[1] = RoiWalletRef(r) /\ first[2] = row.roi
        /\ second[1] = PrincipalRef(r) /\ second[2] = row.principal
    BY DEF Legs
  <2> HIDE DEF first, second
  <2>3. row.roi \in Nat /\ row.principal \in Nat
    BY <1>4 DEF RepaymentRow
  <2> QED
    BY <2>1, <2>2, <2>3
<1>7. /\ amount(PrincipalRef(r)) = row.principal /\ amount(RoiWalletRef(r)) = row.roi
      /\ \A ref : amount(ref) \in Nat
  BY <1>6
<1>8. \A ref : entry(ref) \in Entry /\ txn(ref) \in Txn
  BY <1>5, <1>7 DEF Entry, Txn, TxnStatus
<1>9. refs \subseteq References /\ \A ref \in refs : ref[1] \in WalletKinds
  <2>1. RoiWalletRef(r) \in References /\ PrincipalRef(r) \in References
    BY RepaymentRefs
  <2>2. RoiWalletRef(r)[1] \in WalletKinds /\ PrincipalRef(r)[1] \in WalletKinds
    BY DEF RoiWalletRef, PrincipalRef, WalletKinds
  <2> QED
    BY <1>6, <2>1, <2>2
<1>10. \A ref \in refs : journal[ref] = <<>>
  <2>1. \A ref \in refs : walletTxn[ref] = NoTxn
    BY <1>3 DEF CanDisburse
  <2> QED
    BY <1>4, <1>6, <2>1 DEF RepaymentWellFormed, LegDisbursed
<1> HIDE DEF refs
<1>11. ASSUME NEW ref \in refs
       PROVE  journal'[ref] = <<entry(ref)>> /\ walletTxn'[ref] = txn(ref)
  <2>1. ref \in References /\ journal[ref] = <<>>
    BY <1>9, <1>10
  <2>2. /\ journal'[ref] = Append(journal[ref], entry(ref))
        /\ walletTxn'[ref] = txn(ref)
    BY <1>3, <2>1
  <2>3. \A e : Append(<<>>, e) = <<e>>
    OBVIOUS
  <2> QED
    BY <2>1, <2>2, <2>3
<1>12. \A ref \in References \ refs : journal'[ref] = journal[ref] /\ walletTxn'[ref] = walletTxn[ref]
  BY <1>3
<1>13. journal' \in [References -> Seq(Entry)] /\ walletTxn' \in [References -> Txn]
  <2>1. ASSUME NEW ref \in References PROVE journal'[ref] \in Seq(Entry) /\ walletTxn'[ref] \in Txn
    <3>1. journal[ref] \in Seq(Entry) /\ walletTxn[ref] \in Txn
      BY <1>1 DEF TablesInv
    <3>2. <<entry(ref)>> \in Seq(Entry)
      <4> DEFINE e == entry(ref)
      <4>1. e \in Entry
        BY <1>8
      <4> HIDE DEF e
      <4>2. <<e>> \in Seq(Entry)
        BY <4>1
      <4> QED
        BY <4>2 DEF e
    <3> QED
      BY <1>8, <1>11, <1>12, <3>1, <3>2
  <2> QED
    BY <1>3, <2>1
<1>14. /\ repayments' \in [RepaymentIds -> RepaymentRow]
       /\ repayments'[r].status = "DISBURSED"
       /\ \A x \in RepaymentIds \ {r} : repayments'[x] = repayments[x]
       /\ \A x \in RepaymentIds : /\ repayments'[x].investment = repayments[x].investment
                                  /\ repayments'[x].period = repayments[x].period
                                  /\ repayments'[x].principal = repayments[x].principal
                                  /\ repayments'[x].roi = repayments[x].roi
                                  /\ repayments'[x].other = repayments[x].other
  BY <1>1, <1>3 DEF TablesInv, RepaymentRow
<1>15. \A x \in InvestmentIds, n \in Nat : /\ Paid(x, n) \in Nat /\ Repaid(x) \in Nat
                                           /\ Paid(x, n)' = Paid(x, n) /\ Repaid(x)' = Repaid(x)
  BY <1>1, <1>14, SumsKept DEF TablesInv
<1>16. ASSUME NEW x \in InvestmentIds PROVE InvestmentWellFormed(x)'
  <2>1. InvestmentWellFormed(x)
    BY <1>1 DEF TablesInv
  <2>2. /\ journal'[InvestmentRef(x)] = journal[InvestmentRef(x)]
        /\ \A n \in 1 .. MaxPeriods : journal'[AccrualRef(x, n)] = journal[AccrualRef(x, n)]
    BY <1>6, <1>12, RepaymentRefs DEF RoiWalletRef, PrincipalRef, InvestmentRef, AccrualRef
  <2>3. investments' = investments /\ schedules' = schedules
    BY <1>3
  <2> QED
    BY <2>1, <2>2, <2>3 DEF InvestmentWellFormed, Invested, RowAccrued
<1>17. ASSUME NEW x \in RepaymentIds PROVE RepaymentWellFormed(x)'
  <2>1. RepaymentWellFormed(x) /\ InvestorOf(x)' = InvestorOf(x)
    BY <1>1, <1>3, <1>14 DEF TablesInv, InvestorOf
  <2>2. Invested' = Invested /\ \A y, n : RowAccrued(y, n)' <=> RowAccrued(y, n)
    BY <1>3 DEF RowAccrued, Invested
  <2>5. RoiReceived(x)'
    <3>1. journal'[RoiCashRef(x)] = journal[RoiCashRef(x)]
      BY <1>6, <1>12, RepaymentRefs DEF RoiWalletRef, PrincipalRef, RoiCashRef
    <3>2. repayments'[x].roi = repayments[x].roi
          /\ (repayments[x].status # "NONE" => repayments'[x].status # "NONE")
      BY <1>14
    <3> QED
      BY <2>1, <3>1, <3>2 DEF RepaymentWellFormed, RoiReceived
  <2>3. CASE x = r
    <3>1. ASSUME NEW ref \in {RoiWalletRef(r), PrincipalRef(r)}, NEW a \in Nat,
                 LegDisbursed(r, ref, a), ref \in refs <=> a > 0, a = amount(ref)
          PROVE  LegDisbursed(r, ref, a)'
      <4>1. ref \in References
        BY RepaymentRefs
      <4>2. CASE a > 0
        <5>1. journal'[ref] = <<entry(ref)>> /\ walletTxn'[ref] # NoTxn
          <6>1. journal'[ref] = <<entry(ref)>> /\ walletTxn'[ref] = txn(ref)
            BY <1>11, <3>1, <4>2
          <6>2. txn(ref) # NoTxn
            <7>1. txn(ref).status = "POSTED" /\ NoTxn.status = "NONE"
              BY DEF NoTxn
            <7> QED
              BY <7>1
          <6> QED
            BY <6>1, <6>2
        <5>2. entry(ref) = [investor |-> InvestorOf(r), amount |-> a]
          BY <3>1
        <5> QED
          BY <1>14, <2>1, <2>3, <4>2, <5>1, <5>2 DEF LegDisbursed
      <4>3. CASE ~(a > 0)
        <5>1. journal'[ref] = <<>> /\ walletTxn'[ref] = NoTxn
          BY <1>12, <3>1, <4>1, <4>3 DEF LegDisbursed
        <5> QED
          BY <4>3, <5>1 DEF LegDisbursed
      <4> QED
        BY <4>2, <4>3
    <3>2. /\ LegDisbursed(r, RoiWalletRef(r), row.roi)
          /\ LegDisbursed(r, PrincipalRef(r), row.principal)
      BY <1>4 DEF RepaymentWellFormed
    <3> HIDE DEF amount
    <3>3. LegDisbursed(r, RoiWalletRef(r), row.roi)'
      BY <1>6, <1>7, <1>14, <3>1, <3>2
    <3>4. LegDisbursed(r, PrincipalRef(r), row.principal)'
      BY <1>6, <1>7, <1>14, <3>1, <3>2
    <3>5. row' # NoRepayment /\ row'.status # "NONE"
      BY <1>14 DEF NoRepayment
    <3> QED
      BY <1>3, <1>4, <1>14, <2>1, <2>2, <2>3, <2>5, <3>3, <3>4, <3>5 DEF RepaymentWellFormed
  <2>4. CASE x # r
    <3>1. /\ journal'[RoiWalletRef(x)] = journal[RoiWalletRef(x)]
          /\ journal'[PrincipalRef(x)] = journal[PrincipalRef(x)]
          /\ walletTxn'[RoiWalletRef(x)] = walletTxn[RoiWalletRef(x)]
          /\ walletTxn'[PrincipalRef(x)] = walletTxn[PrincipalRef(x)]
      BY <1>6, <1>12, <2>4, RepaymentRefs DEF RoiWalletRef, PrincipalRef
    <3>2. repayments'[x] = repayments[x] /\ schedules' = schedules
      BY <1>3, <1>14, <2>4
    <3> QED
      BY <2>1, <2>2, <2>5, <3>1, <3>2 DEF RepaymentWellFormed, LegDisbursed
  <2> QED
    BY <2>3, <2>4
<1>18. Mirrored => Mirrored'
  <2> SUFFICES ASSUME Mirrored, NEW ref \in References PROVE MirroredAt(ref)'
    BY DEF Mirrored
  <2>1. CASE ref \in refs
    <3>1. journal'[ref] = <<entry(ref)>> /\ walletTxn'[ref] = txn(ref) /\ ref[1] \in WalletKinds
      BY <1>9, <1>11, <2>1
    <3>2. /\ txn(ref).status = "POSTED"
          /\ entry(ref) = [investor |-> txn(ref).investor, amount |-> txn(ref).amount]
      OBVIOUS
    <3> HIDE DEF entry, txn
    <3> QED
      BY <3>1, <3>2 DEF MirroredAt
  <2>2. CASE ref \notin refs
    <3>1. journal'[ref] = journal[ref] /\ walletTxn'[ref] = walletTxn[ref] /\ MirroredAt(ref)
      BY <1>12, <2>2 DEF Mirrored
    <3> QED
      BY <3>1 DEF MirroredAt
  <2> QED
    BY <2>1, <2>2
<1>19. PaidIsPaid' /\ ClosedIsRepaid'
  <2>1. PaidIsPaid'
    <3> SUFFICES ASSUME NEW x \in InvestmentIds, NEW n \in DOMAIN schedules[x],
                        schedules[x][n].status = "PAID"
                 PROVE  Paid(x, n)' >= schedules[x][n].totalDue
      BY <1>3 DEF PaidIsPaid
    <3>1. n \in Nat
      BY <1>1 DEF TablesInv
    <3> QED
      BY <1>1, <1>15, <3>1 DEF TablesInv, PaidIsPaid
  <2>2. ClosedIsRepaid'
    BY <1>1, <1>3, <1>15 DEF TablesInv, ClosedIsRepaid
  <2> QED
    BY <2>1, <2>2
<1>20. TablesInv' /\ \A x \in Invested : x \in Invested'
  BY <1>1, <1>3, <1>13, <1>14, <1>16, <1>17, <1>19 DEF TablesInv, Invested
<1>21. ASSUME NEW x \in InvestmentIds
       PROVE  /\ DOMAIN schedules'[x] = DOMAIN schedules[x]
              /\ \A n \in DOMAIN schedules[x] :
                   schedules[x][n].accrued => schedules'[x][n].accrued
              /\ \A n \in Nat : Paid(x, n)' \in Nat /\ Paid(x, n) <= Paid(x, n)'
              /\ Repaid(x)' \in Nat /\ Repaid(x) <= Repaid(x)'
  <2>1. ASSUME NEW n \in Nat PROVE Paid(x, n)' \in Nat /\ Paid(x, n) <= Paid(x, n)'
    <3>1. Paid(x, n) \in Nat /\ Paid(x, n)' = Paid(x, n)
      BY <1>15
    <3> QED
      BY <3>1
  <2>2. Repaid(x)' \in Nat /\ Repaid(x) <= Repaid(x)'
    <3>1. Repaid(x) \in Nat /\ Repaid(x)' = Repaid(x)
      BY <1>15
    <3> QED
      BY <3>1
  <2> QED
    BY <1>3, <2>1, <2>2
<1>22. \A x \in RepaymentIds : repayments[x].status # "NONE" => repayments'[x].status # "NONE"
  BY <1>14
<1> QED
  BY <1>3, <1>18, <1>20, <1>21, <1>22, CommitKeepsInv
-----------------------------------------------------------------------------
LEMMA RepayStepKeepsRows == RepaymentRowsInv /\ [RepayNext]_repaymentVars => RowsKept
<1> SUFFICES ASSUME RepaymentRowsInv, [RepayNext]_repaymentVars PROVE RowsKept
  OBVIOUS
<1>1. CASE UNCHANGED repaymentVars
  <2>1. TablesInv /\ call \in [Workers -> Calls] /\ \A w \in Workers : RepayCallWellFormed(call[w])
    BY InvParts
  <2>2. UNCHANGED tables /\ call' = call
    BY <1>1 DEF repaymentVars, investmentVars, storeVars, investmentTables, tables
  <2>3. TablesInv' /\ (Mirrored => Mirrored')
    BY <2>1, <2>2, TablesSame
  <2>4. \A v \in InvestmentIds, k \in Nat : /\ Paid(v, k) \in Nat /\ Paid(v, k)' = Paid(v, k)
                                            /\ Repaid(v) \in Nat /\ Repaid(v)' = Repaid(v)
    BY <2>1, <2>2, SumsKept DEF TablesInv, tables
  <2>5. \A v \in Invested :
          /\ v \in Invested'
          /\ DOMAIN schedules'[v] = DOMAIN schedules[v]
          /\ \A k \in DOMAIN schedules[v] : schedules[v][k].accrued => schedules'[v][k].accrued
          /\ \A k \in Nat : Paid(v, k)' \in Nat /\ Paid(v, k) <= Paid(v, k)'
          /\ Repaid(v)' \in Nat /\ Repaid(v) <= Repaid(v)'
    BY <2>2, <2>4 DEF tables, investmentTables, Invested
  <2>6. ASSUME NEW w \in Workers PROVE RepayCallWellFormed(call[w])'
    <3>1. PICK c \in Calls : c = call[w]
      BY <2>1
    <3>2. RepayCallWellFormed(c)'
      BY <2>1, <2>2, <2>5, <3>1, CallsKept DEF tables
    <3> QED
      BY <2>2, <3>1, <3>2
  <2> QED
    BY <2>1, <2>2, <2>3, <2>6 DEF RowsKept, RepaymentRowsInv, RepaymentTypeOK, TypeOK, StoreTypeOK,
         TablesInv
<1>2. ASSUME NEW w \in Workers, RepaymentNext(w) PROVE RowsKept
  <2>1. CASE AccrueRoiFails(w) \/ DisburseFails(w)
    BY <2>1, IdleMoves DEF AccrueRoiFails, DisburseFails, tables
  <2>2. CASE RepaymentStep(w)
    BY <2>1, <2>2, AccrueKeepsInv, ReadsKeepInv, CreateKeepsInv, DisburseKeepsInv DEF RepaymentStep
  <2> QED
    BY <1>2, <2>2, StartsKeepInv, StartRecordKeepsInv DEF RepaymentNext
<1>3. ASSUME NEW w \in Workers, Defaulting(w) PROVE RowsKept
  BY <1>3, StartsKeepInv, DefaultKeepsInv DEF Defaulting
<1>4. ASSUME NEW w \in Workers, Abort(w), UNCHANGED <<investmentTables, repayments>>
      PROVE  RowsKept
  BY <1>4, IdleMoves DEF Abort, tables
<1> QED
  BY <1>1, <1>2, <1>3, <1>4 DEF RepayNext

LEMMA RepayStepKeepsInv == RepaymentsInv /\ [RepayNext]_repaymentVars => RepaymentsInv'
  BY RepayStepKeepsRows DEF RepaymentsInv, RowsKept

LEMMA RunStepKeepsInv == RepaymentsInv /\ [RunNext]_reconciliationVars => RepaymentsInv'
<1>1. Reconciling => UNCHANGED repaymentVars
  BY DEF Reconciling, NothingCommitted, StartReconciliation, ReadLedger, ListRows, ReadSubLedger,
         CreateRow, CreateItem, AbortReconciliation
<1>2. [RunNext]_reconciliationVars => [RepayNext]_repaymentVars
  BY <1>1 DEF RunNext, reconciliationVars
<1> QED
  BY <1>2, RepayStepKeepsInv

(* The tables' invariant, however accruals, recordings, disbursals, defaults *)
(* and a reconciliation overlap and wherever they are cut short.             *)
THEOREM InvHolds == RunSpec => []RepaymentsInv
<1>1. RunInit => RepaymentsInv
  BY InitInv DEF RunInit
<1>2. RepaymentsInv /\ [RunNext]_reconciliationVars => RepaymentsInv'
  BY RunStepKeepsInv
<1> QED
  BY <1>1, <1>2, PTL DEF RunSpec

(* A row shown as PAID has been paid, though the status is taken from a sum   *)
(* that other commits overtake (recordRepayment, repayments.service.ts).     *)
THEOREM StatusesEarned == RunSpec => []PaidIsPaid
<1>1. RepaymentsInv => PaidIsPaid
  BY DEF RepaymentsInv, RepaymentRowsInv
<1> QED
  BY <1>1, InvHolds, PTL

(* So is the status of an investment: one that is CLOSED has its principal    *)
(* repaid, however the requests that repaid it overlapped.                   *)
THEOREM ClosedIsEarned == RunSpec => []ClosedIsRepaid
<1>1. RepaymentsInv => ClosedIsRepaid
  BY DEF RepaymentsInv, RepaymentRowsInv
<1> QED
  BY <1>1, InvHolds, PTL

LEMMA InvDisbursedWhole == RepaymentRowsInv => DisbursedOnceAndWhole
<1> SUFFICES ASSUME RepaymentRowsInv, NEW r \in RepaymentIds,
                    NEW ref \in {RoiWalletRef(r), PrincipalRef(r)}
             PROVE  Len(journal[ref]) = IF /\ repayments[r].status = "DISBURSED"
                                           /\ ref \in {leg[1] : leg \in Legs(r)} THEN 1 ELSE 0
  BY DEF DisbursedOnceAndWhole
<1> DEFINE a == IF ref = PrincipalRef(r) THEN repayments[r].principal ELSE repayments[r].roi
<1>1. RoiWalletRef(r) # PrincipalRef(r)
  BY DEF RoiWalletRef, PrincipalRef
<1>2. LegDisbursed(r, ref, a)
  BY <1>1 DEF RepaymentRowsInv, RepaymentWellFormed
<1>3. ref \in {leg[1] : leg \in Legs(r)} <=> a > 0
  <2> DEFINE first == <<RoiWalletRef(r), repayments[r].roi>>
             second == <<PrincipalRef(r), repayments[r].principal>>
  <2>1. /\ Legs(r) = {leg \in {first, second} : leg[2] > 0}
        /\ first[1] = RoiWalletRef(r) /\ first[2] = repayments[r].roi
        /\ second[1] = PrincipalRef(r) /\ second[2] = repayments[r].principal
    BY DEF Legs
  <2> HIDE DEF first, second
  <2> QED
    BY <1>1, <2>1
<1> HIDE DEF a
<1>4. CASE repayments[r].status = "DISBURSED" /\ a > 0
  BY <1>2, <1>3, <1>4 DEF LegDisbursed
<1>5. CASE ~(repayments[r].status = "DISBURSED" /\ a > 0)
  BY <1>2, <1>3, <1>5 DEF LegDisbursed
<1> QED
  BY <1>4, <1>5

(* A repayment reaches the wallet once at most and whole, however disbursals *)
(* of it overlap, are batched or retried (disburseRepayments).               *)
THEOREM RepaymentsDisbursedWhole == RunSpec => []DisbursedOnceAndWhole
<1>1. RepaymentsInv => RepaymentRowsInv
  BY DEF RepaymentsInv
<1> QED
  BY <1>1, InvHolds, InvDisbursedWhole, PTL

(* The wallet's liability account agrees with its rows while investments are *)
(* repaid, too.                                                              *)
THEOREM LedgerAgrees == RunSpec => []LedgerAgreesWithWallet
<1>1. RepaymentsInv => LedgerAgreesWithWallet
  BY MirroredAgrees DEF RepaymentsInv, RepaymentRowsInv, RepaymentTypeOK, TypeOK
<1> QED
  BY <1>1, InvHolds, PTL
-----------------------------------------------------------------------------
(* The lines of an investor, and the references of each kind.                *)
LEMMA LinesOf ==
  ASSUME NEW i
  PROVE  /\ \A l \in Lines(i) : /\ l = <<l[1], l[2]>>
                                /\ l[1] \in References /\ l[2] \in DOMAIN journal[l[1]]
                                /\ journal[l[1]][l[2]].investor = i
         /\ \A r \in References : \A n \in DOMAIN journal[r] :
              journal[r][n].investor = i => <<r, n>> \in Lines(i)
<1>1. ASSUME NEW l \in Lines(i)
      PROVE  /\ l = <<l[1], l[2]>>
             /\ l[1] \in References /\ l[2] \in DOMAIN journal[l[1]]
             /\ journal[l[1]][l[2]].investor = i
  <2>1. PICK r \in References : l \in {r} \X DOMAIN journal[r]
    BY DEF Lines
  <2> QED
    BY <2>1 DEF Lines
<1>2. ASSUME NEW r \in References, NEW n \in DOMAIN journal[r], journal[r][n].investor = i
      PROVE  <<r, n>> \in Lines(i)
  <2>1. <<r, n>> \in {r} \X DOMAIN journal[r]
    OBVIOUS
  <2> QED
    BY <1>2, <2>1 DEF Lines
<1> QED
  BY <1>1, <1>2

LEMMA RefsOfKinds ==
  ASSUME NEW r \in References
  PROVE  /\ r[1] = "INVESTMENT" <=> \E v \in InvestmentIds : r = InvestmentRef(v)
         /\ r[1] = "ROI_ACCRUAL" <=>
              \E v \in InvestmentIds, k \in 1 .. MaxPeriods : r = AccrualRef(v, k)
         /\ r[1] = "REPAYMENT_ROI_WALLET" <=> \E x \in RepaymentIds : r = RoiWalletRef(x)
         /\ r[1] = "REPAYMENT_PRINCIPAL" <=> \E x \in RepaymentIds : r = PrincipalRef(x)
  BY DEF References, DepositRef, WithdrawalRef, InvestmentRef, AccrualRef, RoiCashRef,
         RoiWalletRef, PrincipalRef

DisbursedTo(i) == {r \in RepaymentIds : repayments[r].status = "DISBURSED" /\ InvestorOf(r) = i}

(* The lines of one kind of leg add up to what was disbursed of it.          *)
LEMMA LegsTotal ==
  ASSUME NEW i, NEW ref, \A r, x \in RepaymentIds : ref[r] = ref[x] => r = x,
         \A r \in RepaymentIds : ref[r] \in References,
         NEW a, \A r \in RepaymentIds : a[r] \in Nat /\ LegDisbursed(r, ref[r], a[r]),
         NEW L, L = {l \in Lines(i) : \E r \in RepaymentIds : l[1] = ref[r]}
  PROVE  SumLines(L) = Total([r \in DisbursedTo(i) |-> a[r]])
<1> DEFINE R == {r \in DisbursedTo(i) : a[r] > 0}
           amount == [r \in R |-> a[r]]
           all == [r \in DisbursedTo(i) |-> a[r]]
<1>1. \A r \in R : /\ r \in RepaymentIds
                   /\ journal[ref[r]] = <<[investor |-> i, amount |-> a[r]]>>
  BY DEF DisbursedTo, LegDisbursed
<1>2. ASSUME NEW r \in R PROVE <<ref[r], 1>> \in L /\ journal[ref[r]][1].amount = amount[r]
  <2>1. r \in RepaymentIds /\ journal[ref[r]] = <<[investor |-> i, amount |-> a[r]]>>
    BY <1>1
  <2>2. 1 \in DOMAIN journal[ref[r]] /\ journal[ref[r]][1].investor = i
        /\ journal[ref[r]][1].amount = a[r]
    BY <2>1
  <2>3. <<ref[r], 1>> \in Lines(i)
    BY <2>1, <2>2, LinesOf
  <2> QED
    BY <2>1, <2>2, <2>3
<1>3. ASSUME NEW l \in L PROVE \E r \in R : l = <<ref[r], 1>>
  <2>1. PICK r \in RepaymentIds : l[1] = ref[r]
    OBVIOUS
  <2>2. /\ l = <<l[1], l[2]>> /\ l[2] \in DOMAIN journal[ref[r]]
        /\ journal[ref[r]][l[2]].investor = i
    BY <2>1, LinesOf
  <2>3. journal[ref[r]] # <<>>
    BY <2>2
  <2>4. /\ repayments[r].status = "DISBURSED" /\ a[r] > 0
        /\ journal[ref[r]] = <<[investor |-> InvestorOf(r), amount |-> a[r]]>>
    BY <2>3 DEF LegDisbursed
  <2>5. l[2] = 1 /\ InvestorOf(r) = i
    BY <2>2, <2>4
  <2> QED
    BY <2>1, <2>2, <2>4, <2>5 DEF DisbursedTo
<1>4. L = {<<ref[r], 1>> : r \in R}
  <2>1. \A r \in R : <<ref[r], 1>> \in L
    BY <1>2
  <2>2. \A l \in L : \E r \in R : l = <<ref[r], 1>>
    BY <1>3
  <2> HIDE DEF R
  <2> QED
    BY ONLY <2>1, <2>2
<1>5. R \in SUBSET RepaymentIds /\ IsFiniteSet(R)
  <2>1. R \in SUBSET RepaymentIds
    BY DEF DisbursedTo
  <2> QED
    BY <2>1, FiniteRepayments, FS_Subset
<1>6. /\ DOMAIN amount = R /\ \A r \in R : amount[r] \in Nat /\ journal[ref[r]][1].amount = amount[r]
      /\ \A r, x \in R : ref[r] = ref[x] => r = x
  BY <1>2, <1>5
<1>7. SumLines(L) = Total(amount)
  <2> HIDE DEF R, amount
  <2> QED
    BY <1>4, <1>5, <1>6, SingleEntries
<1>8. /\ DOMAIN amount \subseteq DOMAIN all
      /\ \A r \in DOMAIN amount : amount[r] = all[r]
      /\ \A r \in DOMAIN all \ DOMAIN amount : all[r] = 0
  BY DEF DisbursedTo
<1>9. Total(all) = Total(amount)
  <2> HIDE DEF all, amount
  <2> QED
    BY <1>8, TotalDropsZeros
<1> QED
  BY <1>7, <1>9

(* What an investor has invested is what 2020 was credited with for them.    *)
LEMMA InvestedTotal ==
  ASSUME RepaymentRowsInv, NEW i \in Investors,
         NEW L, L = {l \in Lines(i) : CreditAccount(l[1][1]) = "2020"}
  PROVE  SumLines(L) = Principal(InvestedBy(i))
<1> DEFINE V == InvestedBy(i)
           ref == [v \in V |-> InvestmentRef(v)]
           amount == [v \in V |-> investments[v].principal]
<1>1. ASSUME NEW v \in InvestmentIds
      PROVE  /\ InvestmentRef(v) \in References
             /\ v \in V \/ journal[InvestmentRef(v)] # <<>> => v \in Invested
             /\ v \in Invested =>
                  journal[InvestmentRef(v)]
                    = <<[investor |-> investments[v].investor, amount |-> investments[v].principal]>>
  <2>1. InvestmentWellFormed(v)
    BY DEF RepaymentRowsInv
  <2>2. v \notin Invested => v \notin V
    BY <2>1, NoneIsNoInvestment DEF InvestmentWellFormed, InvestedBy, NoInvestment
  <2> QED
    BY <2>1, <2>2, RepaymentRefs DEF InvestmentWellFormed
<1>2. ASSUME NEW v \in V PROVE <<ref[v], 1>> \in L /\ journal[ref[v]][1].amount = amount[v]
  <2> DEFINE entry == [investor |-> i, amount |-> investments[v].principal]
  <2>1. ref[v] \in References /\ journal[ref[v]] = <<entry>>
    BY <1>1 DEF InvestedBy
  <2>2. 1 \in DOMAIN journal[ref[v]] /\ journal[ref[v]][1].investor = i
        /\ journal[ref[v]][1].amount = amount[v]
    BY <2>1
  <2>3. <<ref[v], 1>> \in Lines(i)
    BY <2>1, <2>2, LinesOf
  <2>4. CreditAccount(ref[v][1]) = "2020"
    BY DEF CreditAccount, InvestmentRef
  <2> QED
    BY <2>2, <2>3, <2>4
<1>3. ASSUME NEW l \in L PROVE \E v \in V : l = <<ref[v], 1>>
  <2>1. /\ l = <<l[1], l[2]>> /\ l[1] \in References /\ l[2] \in DOMAIN journal[l[1]]
        /\ journal[l[1]][l[2]].investor = i
    BY LinesOf
  <2>2. l[1][1] = "INVESTMENT"
    BY <2>1, ReferenceKinds, KindAccounts
  <2>3. PICK v \in InvestmentIds : l[1] = InvestmentRef(v)
    BY <2>1, <2>2, RefsOfKinds
  <2>4. l[2] = 1 /\ investments[v].investor = i
    <3>1. journal[l[1]] = <<[investor |-> investments[v].investor,
                             amount |-> investments[v].principal]>>
      <4>1. journal[InvestmentRef(v)] # <<>>
        BY <2>1, <2>3
      <4> QED
        BY <1>1, <2>3, <4>1
    <3> QED
      BY <2>1, <3>1
  <2>5. v \in V /\ ref[v] = l[1]
    BY <2>3, <2>4 DEF InvestedBy
  <2> HIDE DEF ref, V
  <2> QED
    BY <2>1, <2>4, <2>5
<1>4. L = {<<ref[v], 1>> : v \in V}
  <2>1. (\A v \in V : <<ref[v], 1>> \in L) /\ \A l \in L : \E v \in V : l = <<ref[v], 1>>
    BY <1>2, <1>3
  <2> HIDE DEF V, ref
  <2> QED
    BY ONLY <2>1
<1>5. V \in SUBSET InvestmentIds /\ IsFiniteSet(V)
  <2>1. V \in SUBSET InvestmentIds
    BY DEF InvestedBy
  <2> QED
    BY <2>1, FiniteRepayments, FS_Subset
<1>6. /\ DOMAIN amount = V
      /\ \A v \in V : amount[v] \in Nat /\ journal[ref[v]][1].amount = amount[v]
      /\ \A v, x \in V : ref[v] = ref[x] => v = x
  <2>1. \A v \in V : amount[v] \in Nat
    BY <1>5 DEF RepaymentRowsInv, RepaymentTypeOK, TypeOK, InvestmentRow
  <2>2. \A v, x \in V : ref[v] = ref[x] => v = x
    BY DEF InvestmentRef
  <2> QED
    BY <1>2, <2>1, <2>2
<1>7. SumLines(L) = Total(amount)
  <2>1. \A v \in V : journal[ref[v]][1].amount = amount[v]
    BY <1>6
  <2>2. DOMAIN amount = V /\ \A v \in V : amount[v] \in Nat
    BY <1>6
  <2> HIDE DEF V, ref, amount
  <2> QED
    BY <1>4, <1>5, <1>6, <2>1, <2>2, SingleEntries
<1> QED
  BY <1>7 DEF Principal

LEMMA PrincipalDisbursed ==
  ASSUME RepaymentRowsInv, NEW i \in Investors,
         NEW L, L = {l \in Lines(i) : DebitAccount(l[1][1]) = "2020"}
  PROVE  SumLines(L) = SumPrincipal(DisbursedTo(i))
<1> DEFINE ref == [r \in RepaymentIds |-> PrincipalRef(r)]
           a == [r \in RepaymentIds |-> repayments[r].principal]
<1>1. \A r, x \in RepaymentIds : ref[r] = ref[x] => r = x
  BY DEF PrincipalRef
<1>2. \A r \in RepaymentIds : ref[r] \in References
  BY RepaymentRefs
<1>3. \A r \in RepaymentIds : a[r] \in Nat /\ LegDisbursed(r, ref[r], a[r])
  BY DEF RepaymentRowsInv, RepaymentTypeOK, RepaymentRow, RepaymentWellFormed
<1>4. \A l \in Lines(i) :
        DebitAccount(l[1][1]) = "2020" <=> \E r \in RepaymentIds : l[1] = ref[r]
  BY LinesOf, ReferenceKinds, KindAccounts, RefsOfKinds
<1>5. L = {l \in Lines(i) : \E r \in RepaymentIds : l[1] = ref[r]}
  BY <1>4
<1>6. [r \in DisbursedTo(i) |-> a[r]] = [r \in DisbursedTo(i) |-> repayments[r].principal]
  BY DEF DisbursedTo
<1> HIDE DEF ref, a
<1>7. SumLines(L) = Total([r \in DisbursedTo(i) |-> a[r]])
  BY <1>1, <1>2, <1>3, <1>5, LegsTotal
<1> QED
  BY <1>6, <1>7 DEF SumPrincipal

LEMMA InvPayable == RepaymentRowsInv => InvestmentPayableAgrees
  BY InvestedTotal, PrincipalDisbursed
     DEF InvestmentPayableAgrees, GLBalance, InvestmentPayable, DisbursedTo

(* Account 2020 agrees, per investor, with what is invested less what was    *)
(* disbursed of it (investmentPayableSubledger, reconciliation.service.ts).  *)
THEOREM PayableAgrees == RunSpec => []InvestmentPayableAgrees
<1>1. RepaymentsInv => RepaymentRowsInv
  BY DEF RepaymentsInv
<1> QED
  BY <1>1, InvHolds, InvPayable, PTL
-----------------------------------------------------------------------------
(* Entries of one amount a[x] under each reference ref[x] of refs add up to  *)
(* their number times it.                                                    *)
OneAmountEach(X, ref, refs, a, all) ==
  /\ IsFiniteSet(X)
  /\ \A x \in X : ref[x] \in refs /\ ref[x] \in References
  /\ \A r \in refs : \E x \in X : r = ref[x]
  /\ \A x, y \in X : ref[x] = ref[y] => x = y
  /\ \A x \in X : /\ a[x] \in Nat
                  /\ \A n \in DOMAIN journal[ref[x]] : journal[ref[x]][n].amount = a[x]
  /\ DOMAIN all = X /\ \A x \in X : all[x] = Len(journal[ref[x]]) * a[x]

LEMMA GroupedEntries ==
  ASSUME journal \in [References -> Seq(Entry)],
         NEW X, NEW ref, NEW refs, NEW a, NEW all, OneAmountEach(X, ref, refs, a, all)
  PROVE  SumLines(PostedUnder(refs)) = Total(all)
<1>0. /\ IsFiniteSet(X)
      /\ \A x \in X : ref[x] \in refs /\ ref[x] \in References
      /\ \A r \in refs : \E x \in X : r = ref[x]
      /\ \A x, y \in X : ref[x] = ref[y] => x = y
      /\ \A x \in X : /\ a[x] \in Nat
                      /\ \A n \in DOMAIN journal[ref[x]] : journal[ref[x]][n].amount = a[x]
      /\ DOMAIN all = X /\ \A x \in X : all[x] = Len(journal[ref[x]]) * a[x]
  BY DEF OneAmountEach
<1> USE <1>0
<1> DEFINE L == PostedUnder(refs)
           n == [x \in X |-> Len(journal[ref[x]])]
           T == UNION {{x} \X (1 .. n[x]) : x \in X}
           f == [t \in T |-> a[t[1]]]
           g == [l \in L |-> journal[l[1]][l[2]].amount]
           b == [t \in T |-> <<ref[t[1]], t[2]>>]
<1>1. \A x \in X : n[x] \in Nat /\ 1 .. n[x] = DOMAIN journal[ref[x]]
  OBVIOUS
<1>2. \A t \in T : t = <<t[1], t[2]>> /\ t[1] \in X /\ t[2] \in DOMAIN journal[ref[t[1]]]
  <2> SUFFICES ASSUME NEW t \in T
               PROVE  t = <<t[1], t[2]>> /\ t[1] \in X /\ t[2] \in DOMAIN journal[ref[t[1]]]
    OBVIOUS
  <2>1. PICK x \in X : t \in {x} \X (1 .. n[x])
    OBVIOUS
  <2> HIDE DEF n
  <2> QED
    BY <1>1, <2>1
<1>3. ASSUME NEW x \in X, NEW k \in DOMAIN journal[ref[x]]
      PROVE  <<x, k>> \in T /\ <<ref[x], k>> \in L
  <2>1. <<x, k>> \in {x} \X (1 .. n[x])
    <3> HIDE DEF n
    <3> QED
      BY <1>1, <1>3
  <2>2. <<ref[x], k>> \in {ref[x]} \X DOMAIN journal[ref[x]]
    OBVIOUS
  <2> QED
    BY <2>1, <2>2 DEF PostedUnder
<1>4. \A l \in L : \E x \in X : \E k \in DOMAIN journal[ref[x]] : l = <<ref[x], k>>
  BY DEF PostedUnder
<1>5. DOMAIN f = T /\ \A t \in T : f[t] = a[t[1]]
  OBVIOUS
<1>6. DOMAIN g = L /\ DOMAIN b = T /\ \A t \in T : b[t] = <<ref[t[1]], t[2]>>
  OBVIOUS
<1>7. \A x \in X : \A k \in DOMAIN journal[ref[x]] : g[<<ref[x], k>>] = a[x]
  BY <1>3
<1>8. DOMAIN all = X /\ \A x \in X : all[x] = n[x] * a[x]
  OBVIOUS
<1> HIDE DEF f, g
<1>9. Total(f) = Total(all)
  <2>1. \A x \in X : n[x] \in Nat /\ a[x] \in Nat
    BY <1>1
  <2>2. /\ \A x \in X : \A k \in 1 .. n[x] : <<x, k>> \in DOMAIN f
        /\ \A t \in DOMAIN f : /\ t = <<t[1], t[2]>> /\ t[1] \in X /\ t[2] \in 1 .. n[t[1]]
                                /\ f[t] = a[t[1]]
    BY <1>1, <1>2, <1>3, <1>5
  <2>3. DOMAIN all = X /\ \A x \in X : all[x] = n[x] * a[x]
    BY <1>8
  <2> HIDE DEF n
  <2> QED
    BY ONLY IsFiniteSet(X), <2>1, <2>2, <2>3, TotalOfGroups
<1>10. b \in Bijection(T, L)
  <2> HIDE DEF T
  <2>1. \A t \in T : b[t] \in L
    BY <1>2, <1>3, <1>6
  <2>2. \A s, t \in T : b[s] = b[t] => s = t
    <3> SUFFICES ASSUME NEW s \in T, NEW t \in T, b[s] = b[t] PROVE s = t
      OBVIOUS
    <3>1. <<ref[s[1]], s[2]>> = <<ref[t[1]], t[2]>>
      BY <1>6
    <3>2. ref[s[1]] = ref[t[1]] /\ s[2] = t[2]
      BY <3>1
    <3> QED
      BY <1>2, <3>2
  <2>3. \A l \in L : \E t \in T : b[t] = l
    <3> SUFFICES ASSUME NEW l \in L PROVE \E t \in T : b[t] = l
      OBVIOUS
    <3>1. PICK x \in X : \E k \in DOMAIN journal[ref[x]] : l = <<ref[x], k>>
      BY <1>4
    <3>2. PICK k \in DOMAIN journal[ref[x]] : l = <<ref[x], k>>
      BY <3>1
    <3>3. <<x, k>> \in T /\ b[<<x, k>>] = l
      BY <1>3, <1>6, <3>2
    <3> QED
      BY <3>3
  <2>4. b \in [T -> L]
    BY <2>1
  <2> HIDE DEF b
  <2> QED
    BY ONLY <2>2, <2>3, <2>4 DEF Bijection, Injection, Surjection, IsInjective
<1>11. IsFiniteSet(T)
  <2> DEFINE Part == [x \in X |-> {x} \X (1 .. n[x])]
             Parts == {Part[x] : x \in X}
  <2>1. Part \in Surjection(X, Parts)
    BY DEF Surjection
  <2>2. IsFiniteSet(Parts)
    BY ONLY <2>1, IsFiniteSet(X), FS_Surjection
  <2>3. \A p \in Parts : IsFiniteSet(p)
    <3> SUFFICES ASSUME NEW x \in X PROVE IsFiniteSet({x} \X (1 .. n[x]))
      OBVIOUS
    <3>1. IsFiniteSet({x})
      BY FS_Singleton
    <3>2. n[x] \in Nat
      BY <1>1
    <3> HIDE DEF n
    <3>3. IsFiniteSet(1 .. n[x])
      BY <3>2, FS_Interval
    <3> QED
      BY <3>1, <3>3, FS_Product
  <2>4. IsFiniteSet(UNION Parts)
    BY ONLY <2>2, <2>3, FS_UNION
  <2>5. T = UNION Parts
    OBVIOUS
  <2> QED
    BY <2>4, <2>5
<1>12. \A t \in T : f[t] \in Nat /\ g[b[t]] = f[t]
  <2> HIDE DEF T, b, n
  <2> SUFFICES ASSUME NEW t \in T PROVE f[t] \in Nat /\ g[b[t]] = f[t]
    OBVIOUS
  <2>1. t[1] \in X /\ t[2] \in DOMAIN journal[ref[t[1]]] /\ b[t] = <<ref[t[1]], t[2]>>
    BY <1>2, <1>6
  <2> QED
    BY <1>5, <1>7, <2>1
<1>13. Total(f) = Total(g)
  <2> HIDE DEF T, b
  <2> QED
    BY <1>5, <1>6, <1>10, <1>11, <1>12, SameTotal
<1> QED
  BY <1>9, <1>13 DEF SumLines, g

(* The accrued rows of an investor, and the entries that accrued them.       *)
RowRef(vk) == AccrualRef(vk[1], vk[2])
RoiDue(vk) == schedules[vk[1]][vk[2]].roiDue

LEMMA AccruedRow ==
  ASSUME RepaymentsInv, NEW i \in Investors, NEW vk \in Of(i, AccruedRows)
  PROVE  /\ vk = <<vk[1], vk[2]>> /\ vk[1] \in InvestedBy(i) /\ vk[1] \in InvestmentIds
         /\ vk[2] \in 1 .. MaxPeriods
         /\ RowRef(vk) \in References /\ RoiDue(vk) \in Nat
         /\ Len(journal[RowRef(vk)]) \in Nat \ {0}
         /\ \A n \in DOMAIN journal[RowRef(vk)] :
              /\ journal[RowRef(vk)][n].investor = i
              /\ journal[RowRef(vk)][n].amount = RoiDue(vk)
<1>1. /\ vk = <<vk[1], vk[2]>> /\ vk[1] \in InvestedBy(i) /\ vk[1] \in InvestmentIds
      /\ vk[2] \in 1 .. MaxPeriods /\ RowAccrued(vk[1], vk[2])
  BY DEF Of, AccruedRows, InvestedBy, RowAccrued
<1>2. /\ RowRef(vk) \in References
      /\ journal[RowRef(vk)] # <<>>
      /\ \A n \in DOMAIN journal[RowRef(vk)] :
           journal[RowRef(vk)][n] = [investor |-> i, amount |-> RoiDue(vk)]
  <2>1. InvestmentWellFormed(vk[1])
    BY <1>1 DEF RepaymentsInv, RepaymentRowsInv
  <2> QED
    BY <1>1, <2>1, RepaymentRefs DEF InvestmentWellFormed, InvestedBy, RowRef, RoiDue
<1> DEFINE s == journal[RowRef(vk)]
<1>3. s \in Seq(Entry) /\ s # <<>>
  BY <1>2 DEF RepaymentsInv, RepaymentRowsInv, RepaymentTypeOK, TypeOK, StoreTypeOK
<1>4. \A n \in DOMAIN s : s[n].investor = i /\ s[n].amount = RoiDue(vk)
  BY <1>2
<1> HIDE DEF s
<1>5. Len(s) \in Nat \ {0} /\ 1 \in DOMAIN s /\ s[1] \in Entry
  BY <1>3, EmptySeq
<1>6. RoiDue(vk) \in Nat
  BY <1>4, <1>5 DEF Entry
<1> QED
  BY <1>1, <1>2, <1>4, <1>5, <1>6 DEF s

LEMMA AccruedFinite == ASSUME NEW i PROVE IsFiniteSet(Of(i, AccruedRows))
<1>1. IsFiniteSet(1 .. MaxPeriods)
  <2>1. MaxPeriods \in Int
    BY StoreAssumption DEF StoreAssumption
  <2> QED
    BY <2>1, FS_Interval
<1>2. IsFiniteSet(InvestmentIds \X (1 .. MaxPeriods))
  BY <1>1, FiniteRepayments, FS_Product
<1>3. Of(i, AccruedRows) \in SUBSET (InvestmentIds \X (1 .. MaxPeriods))
  BY DEF Of, AccruedRows
<1> QED
  BY <1>2, <1>3, FS_Subset

(* What an investor's rows were accrued for: what is due on them, and again  *)
(* for each time a row was accrued after the first.                          *)
LEMMA AccruedTotal ==
  ASSUME RepaymentsInv, NEW i \in Investors,
         NEW L, L = PostedUnder({RowRef(vk) : vk \in Of(i, AccruedRows)})
  PROVE  LET due == Total([vk \in Of(i, AccruedRows) |-> schedules[vk[1]][vk[2]].roiDue])
         IN  due \in Nat /\ AccruedAgain(i) \in Nat /\ SumLines(L) = due + AccruedAgain(i)
<1> DEFINE X == Of(i, AccruedRows)
           ref == [vk \in X |-> RowRef(vk)]
           refs == {RowRef(vk) : vk \in X}
           a == [vk \in X |-> RoiDue(vk)]
           again == [vk \in X |-> (Len(journal[AccrualRef(vk[1], vk[2])]) - 1)
                                    * schedules[vk[1]][vk[2]].roiDue]
           all == [vk \in X |-> Len(journal[ref[vk]]) * a[vk]]
<1>1. journal \in [References -> Seq(Entry)] /\ IsFiniteSet(X)
  BY AccruedFinite DEF RepaymentsInv, RepaymentRowsInv, RepaymentTypeOK, TypeOK, StoreTypeOK
<1>2. \A vk \in X : /\ ref[vk] \in References /\ a[vk] \in Nat
                    /\ \A n \in DOMAIN journal[ref[vk]] : journal[ref[vk]][n].amount = a[vk]
  BY AccruedRow
<1>3. \A x, y \in X : ref[x] = ref[y] => x = y
  <2> SUFFICES ASSUME NEW x \in X, NEW y \in X, ref[x] = ref[y] PROVE x = y
    OBVIOUS
  <2>1. x = <<x[1], x[2]>> /\ y = <<y[1], y[2]>>
    BY AccruedRow
  <2>2. <<"ROI_ACCRUAL", <<x[1], x[2]>>>> = <<"ROI_ACCRUAL", <<y[1], y[2]>>>>
    BY DEF RowRef, AccrualRef
  <2>3. <<x[1], x[2]>> = <<y[1], y[2]>>
    BY <2>2
  <2> QED
    BY <2>1, <2>3
<1>4. OneAmountEach(X, ref, refs, a, all)
  <2>1. (\A x \in X : ref[x] \in refs) /\ \A r \in refs : \E x \in X : r = ref[x]
    OBVIOUS
  <2>2. DOMAIN all = X /\ \A x \in X : all[x] = Len(journal[ref[x]]) * a[x]
    OBVIOUS
  <2> HIDE DEF X, ref, refs, a, all
  <2> QED
    BY <1>1, <1>2, <1>3, <2>1, <2>2 DEF OneAmountEach
<1>5. SumLines(L) = Total(all)
  <2>1. L = PostedUnder(refs)
    OBVIOUS
  <2> HIDE DEF X, ref, refs, a, all
  <2> QED
    BY <1>1, <1>4, <2>1, GroupedEntries
<1>6. ASSUME NEW vk \in X
      PROVE  /\ a[vk] \in Nat /\ again[vk] \in Nat /\ all[vk] = a[vk] + again[vk]
  <2> DEFINE n == Len(journal[RowRef(vk)])
             d == RoiDue(vk)
  <2>1. n \in Nat \ {0} /\ d \in Nat
    BY AccruedRow
  <2>2. a[vk] = d /\ all[vk] = n * d /\ again[vk] = (n - 1) * d
    BY DEF RowRef, RoiDue
  <2>3. (n - 1) * d \in Nat /\ n * d = d + (n - 1) * d
    <3> HIDE DEF n, d
    <3>1. n - 1 \in Nat
      BY <2>1
    <3> QED
      BY <2>1, <3>1
  <2> QED
    BY <2>1, <2>2, <2>3
<1>7. DOMAIN a = X /\ DOMAIN again = X /\ DOMAIN all = X
  OBVIOUS
<1>8. a = [vk \in X |-> schedules[vk[1]][vk[2]].roiDue]
  BY DEF RoiDue
<1>9. Total(all) = Total(a) + Total(again) /\ Total(a) \in Nat /\ Total(again) \in Nat
  <2> HIDE DEF X, a, again, all
  <2>1. Total(a) \in Nat /\ Total(again) \in Nat
    BY <1>1, <1>6, <1>7, TotalNat
  <2>2. \A x \in DOMAIN all : a[x] \in Nat /\ again[x] \in Nat /\ all[x] = a[x] + again[x]
    BY <1>6, <1>7
  <2>3. Total(all) = Total(a) + Total(again)
    BY ONLY <1>1, <1>7, <2>2, TotalOfSums
  <2> QED
    BY <2>1, <2>3
<1>10. AccruedAgain(i) = Total(again)
  BY DEF AccruedAgain
<1> HIDE DEF again, all
<1> QED
  BY <1>5, <1>8, <1>9, <1>10

(* The lines that credit 2030 for an investor are those that accrued a row,  *)
(* and so are those that debit 1030 for one of their investments.            *)
LEMMA RoiCredited ==
  ASSUME RepaymentsInv, NEW i \in Investors,
         NEW L, L = {l \in Lines(i) : CreditAccount(l[1][1]) = "2030"},
         NEW Q, Q = PostedUnder({AccrualRef(v, k) : v \in InvestedBy(i), k \in 1 .. MaxPeriods}),
         NEW P, P = PostedUnder({RowRef(vk) : vk \in Of(i, AccruedRows)})
  PROVE  L = P /\ Q = P
<1>1. ASSUME NEW v \in InvestmentIds, NEW k \in 1 .. MaxPeriods,
             NEW n \in DOMAIN journal[AccrualRef(v, k)],
             journal[AccrualRef(v, k)][n].investor = i \/ investments[v].investor = i
      PROVE  <<AccrualRef(v, k), n>> \in P
  <2>1. journal[AccrualRef(v, k)] # <<>>
    BY <1>1
  <2>2. RowAccrued(v, k) /\ investments[v].investor = i
    <3>1. /\ (journal[AccrualRef(v, k)] # <<>>) <=> RowAccrued(v, k)
          /\ \A m \in DOMAIN journal[AccrualRef(v, k)] :
               journal[AccrualRef(v, k)][m]
                 = [investor |-> investments[v].investor, amount |-> schedules[v][k].roiDue]
      BY DEF RepaymentsInv, RepaymentRowsInv, InvestmentWellFormed
    <3>2. journal[AccrualRef(v, k)][n].investor = investments[v].investor
      BY <3>1
    <3> QED
      BY <1>1, <2>1, <3>1, <3>2
  <2>3. <<v, k>> \in Of(i, AccruedRows)
    BY <2>2 DEF Of, AccruedRows, RowAccrued
  <2>4. RowRef(<<v, k>>) = AccrualRef(v, k)
    BY DEF RowRef
  <2> QED
    BY <2>3, <2>4 DEF PostedUnder
<1>2. ASSUME NEW l \in P PROVE l \in L /\ l \in Q
  <2>1. PICK vk \in Of(i, AccruedRows) : l \in {RowRef(vk)} \X DOMAIN journal[RowRef(vk)]
    BY DEF PostedUnder
  <2>2. l = <<l[1], l[2]>> /\ l[1] = RowRef(vk) /\ l[2] \in DOMAIN journal[RowRef(vk)]
    BY <2>1
  <2>3. RowRef(vk) \in References /\ journal[RowRef(vk)][l[2]].investor = i
    BY <2>2, AccruedRow
  <2>4. l \in Lines(i)
    BY <2>2, <2>3, LinesOf
  <2>5. CreditAccount(l[1][1]) = "2030"
    BY <2>2 DEF RowRef, AccrualRef, CreditAccount
  <2>6. l[1] \in {AccrualRef(v, k) : v \in InvestedBy(i), k \in 1 .. MaxPeriods}
    BY <2>2, AccruedRow DEF RowRef
  <2> QED
    BY <2>1, <2>2, <2>4, <2>5, <2>6 DEF PostedUnder
<1>3. ASSUME NEW l \in L PROVE l \in P
  <2>1. /\ l = <<l[1], l[2]>> /\ l[1] \in References /\ l[2] \in DOMAIN journal[l[1]]
        /\ journal[l[1]][l[2]].investor = i
    BY LinesOf
  <2>2. l[1][1] = "ROI_ACCRUAL"
    BY <2>1, ReferenceKinds, KindAccounts
  <2>3. PICK v \in InvestmentIds : \E k \in 1 .. MaxPeriods : l[1] = AccrualRef(v, k)
    BY <2>1, <2>2, RefsOfKinds
  <2>4. PICK k \in 1 .. MaxPeriods : l[1] = AccrualRef(v, k)
    BY <2>3
  <2>5. <<AccrualRef(v, k), l[2]>> \in P
    BY <1>1, <2>1, <2>4
  <2> QED
    BY <2>1, <2>4, <2>5
<1>4. ASSUME NEW l \in Q PROVE l \in P
  <2>1. PICK r \in {AccrualRef(v, k) : v \in InvestedBy(i), k \in 1 .. MaxPeriods} :
           l \in {r} \X DOMAIN journal[r]
    BY DEF PostedUnder
  <2>2. PICK v \in InvestedBy(i), k \in 1 .. MaxPeriods : r = AccrualRef(v, k)
    BY <2>1
  <2>3. l = <<AccrualRef(v, k), l[2]>> /\ l[2] \in DOMAIN journal[AccrualRef(v, k)]
    BY <2>1, <2>2
  <2>4. v \in InvestmentIds /\ investments[v].investor = i
    BY DEF InvestedBy
  <2>5. <<AccrualRef(v, k), l[2]>> \in P
    BY <1>1, <2>3, <2>4
  <2> QED
    BY <2>3, <2>5
<1> QED
  BY <1>2, <1>3, <1>4

(* What was disbursed of an investor's ROI: against their accrued rows, or    *)
(* against none.                                                             *)
LEMMA RoiDisbursed ==
  ASSUME RepaymentsInv, NEW i \in Investors,
         NEW L, L = {l \in Lines(i) : DebitAccount(l[1][1]) = "2030"}
  PROVE  LET against == Total([r \in DisbursedAgainst(Of(i, AccruedRows)) |-> repayments[r].roi])
         IN  /\ against \in Nat /\ Unscheduled(i) \in Nat
             /\ SumLines(L) = against + Unscheduled(i)
<1> DEFINE ref == [r \in RepaymentIds |-> RoiWalletRef(r)]
           a == [r \in RepaymentIds |-> repayments[r].roi]
           D == DisbursedTo(i)
           A == DisbursedAgainst(Of(i, AccruedRows))
           U == {x \in DisbursedOf(InvestedBy(i)) : repayments[x].period = 0}
           all == [r \in D |-> a[r]]
           some == [r \in A \cup U |-> a[r]]
           f == [r \in A |-> repayments[r].roi]
           g == [r \in U |-> repayments[r].roi]
<1>1. \A r, x \in RepaymentIds : ref[r] = ref[x] => r = x
  BY DEF RoiWalletRef
<1>2. \A r \in RepaymentIds : ref[r] \in References
  BY RepaymentRefs
<1>3. \A r \in RepaymentIds : a[r] \in Nat /\ LegDisbursed(r, ref[r], a[r])
  BY DEF RepaymentsInv, RepaymentRowsInv, RepaymentTypeOK, RepaymentRow, RepaymentWellFormed
<1>4. \A l \in Lines(i) :
        DebitAccount(l[1][1]) = "2030" <=> \E r \in RepaymentIds : l[1] = ref[r]
  BY LinesOf, ReferenceKinds, KindAccounts, RefsOfKinds
<1>5. L = {l \in Lines(i) : \E r \in RepaymentIds : l[1] = ref[r]}
  BY <1>4
<1>6. SumLines(L) = Total(all)
  <2> HIDE DEF ref, a
  <2> QED
    BY <1>1, <1>2, <1>3, <1>5, LegsTotal
<1>7. ASSUME NEW r \in RepaymentIds, repayments[r].status = "DISBURSED"
      PROVE  /\ repayments[r].investment \in InvestmentIds
             /\ repayments[r].period \in {0} \cup 1 .. MaxPeriods
             /\ \/ repayments[r].period = 0 \/ repayments[r].roi = 0
                \/ <<repayments[r].investment, repayments[r].period>> \in AccruedRows
  <2>1. RepaymentWellFormed(r) /\ repayments[r].status # "NONE"
    BY <1>7 DEF RepaymentsInv, RepaymentRowsInv
  <2>2. /\ repayments[r].investment \in InvestmentIds
        /\ repayments[r].period \in {0} \cup DOMAIN schedules[repayments[r].investment]
        /\ \/ repayments[r].period = 0 \/ repayments[r].roi = 0
           \/ RowAccrued(repayments[r].investment, repayments[r].period)
    BY <2>1 DEF RepaymentWellFormed, Invested
  <2>3. DOMAIN schedules[repayments[r].investment] \subseteq 1 .. MaxPeriods
    BY <2>2 DEF RepaymentsInv, RepaymentRowsInv, InvestmentWellFormed
  <2> QED
    BY <2>2, <2>3 DEF RowAccrued, AccruedRows
<1>8. A \subseteq D /\ U \subseteq D /\ A \cap U = {}
  <2>1. \A vk \in AccruedRows : vk[1] \in InvestmentIds /\ vk[2] \in 1 .. MaxPeriods
    BY DEF AccruedRows
  <2>2. ASSUME NEW r \in A
        PROVE  /\ r \in RepaymentIds /\ repayments[r].status = "DISBURSED"
               /\ InvestorOf(r) = i /\ repayments[r].period \in 1 .. MaxPeriods
    <3>1. /\ r \in RepaymentIds /\ repayments[r].status = "DISBURSED"
          /\ <<repayments[r].investment, repayments[r].period>> \in AccruedRows
          /\ investments[repayments[r].investment].investor = i
      BY DEF DisbursedAgainst, Of
    <3> QED
      BY <2>1, <3>1 DEF InvestorOf
  <2>3. ASSUME NEW r \in U
        PROVE  /\ r \in RepaymentIds /\ repayments[r].status = "DISBURSED"
               /\ InvestorOf(r) = i /\ repayments[r].period = 0
    BY DEF DisbursedOf, InvestedBy, InvestorOf
  <2> HIDE DEF A, U
  <2>4. A \subseteq D /\ U \subseteq D
    BY <2>2, <2>3 DEF DisbursedTo
  <2> QED
    BY <2>2, <2>3, <2>4
<1>9. \A r \in D \ (A \cup U) : a[r] = 0
  <2> SUFFICES ASSUME NEW r \in D, r \notin A, r \notin U PROVE repayments[r].roi = 0
    BY DEF DisbursedTo
  <2>1. r \in RepaymentIds /\ repayments[r].status = "DISBURSED" /\ InvestorOf(r) = i
    BY DEF DisbursedTo
  <2>2. repayments[r].period # 0
    BY <1>7, <2>1 DEF DisbursedOf, InvestedBy, InvestorOf
  <2>3. <<repayments[r].investment, repayments[r].period>> \notin AccruedRows
    BY <2>1 DEF DisbursedAgainst, Of, InvestorOf
  <2> QED
    BY <1>7, <2>1, <2>2, <2>3
<1>10. D \subseteq RepaymentIds /\ IsFiniteSet(A) /\ IsFiniteSet(U) /\ IsFiniteSet(A \cup U)
  <2>1. D \subseteq RepaymentIds
    BY DEF DisbursedTo
  <2> HIDE DEF A, U, D
  <2>2. A \in SUBSET RepaymentIds /\ U \in SUBSET RepaymentIds /\ (A \cup U) \in SUBSET RepaymentIds
    BY <1>8, <2>1
  <2> QED
    BY <2>1, <2>2, FiniteRepayments, FS_Subset
<1>11. /\ DOMAIN all = D /\ DOMAIN some = A \cup U /\ DOMAIN f = A /\ DOMAIN g = U
       /\ \A r \in D : all[r] = a[r]
       /\ \A r \in A \cup U : some[r] = a[r]
  OBVIOUS
<1>12. (\A r \in A : f[r] = a[r]) /\ \A r \in U : g[r] = a[r]
  BY <1>8, <1>10
<1> HIDE DEF all, some, f, g, A, U, D, a
<1>13. Total(all) = Total(some)
  <2>1. /\ DOMAIN some \subseteq DOMAIN all
        /\ \A r \in DOMAIN some : some[r] = all[r]
        /\ \A r \in DOMAIN all \ DOMAIN some : all[r] = 0
    BY <1>8, <1>9, <1>11
  <2> QED
    BY <2>1, TotalDropsZeros
<1>14. Total(some) = Total(f) + Total(g)
  <2>1. IsFiniteSet(DOMAIN some) /\ \A r \in DOMAIN some : some[r] \in Nat
    BY <1>3, <1>8, <1>10, <1>11
  <2>2. /\ DOMAIN some = DOMAIN f \cup DOMAIN g /\ DOMAIN f \cap DOMAIN g = {}
        /\ \A r \in DOMAIN f : f[r] = some[r]
        /\ \A r \in DOMAIN g : g[r] = some[r]
    BY <1>8, <1>11, <1>12
  <2> QED
    BY ONLY <2>1, <2>2, TotalSplits
<1>15. Total(f) \in Nat /\ Total(g) \in Nat
  <2>1. \A r \in A : f[r] \in Nat
    BY <1>3, <1>8, <1>10, <1>12
  <2>2. \A r \in U : g[r] \in Nat
    BY <1>3, <1>8, <1>10, <1>12
  <2> QED
    BY <1>10, <1>11, <2>1, <2>2, TotalNat
<1>16. Unscheduled(i) = Total(g)
  BY DEF Unscheduled, g, U
<1> QED
  BY <1>6, <1>13, <1>14, <1>15, <1>16 DEF f, A

(* Lines are finitely many, each of an amount, so that their sums are, too.   *)
LEMMA SumLinesNat ==
  ASSUME StoreTypeOK, NEW i, NEW L \in SUBSET Lines(i)
  PROVE  /\ IsFiniteSet(L) /\ \A l \in L : journal[l[1]][l[2]].amount \in Nat
         /\ SumLines(L) \in Nat
<1> DEFINE Part == [r \in References |-> {r} \X DOMAIN journal[r]]
           Parts == {Part[r] : r \in References}
           g == [l \in L |-> journal[l[1]][l[2]].amount]
<1>1. Part \in Surjection(References, Parts)
  BY DEF Surjection
<1>2. IsFiniteSet(Parts)
  BY ONLY <1>1, FiniteReferences, FS_Surjection
<1>3. \A p \in Parts : IsFiniteSet(p)
  <2> SUFFICES ASSUME NEW r \in References PROVE IsFiniteSet({r} \X DOMAIN journal[r])
    OBVIOUS
  <2> DEFINE n == Len(journal[r])
  <2>1. n \in Nat /\ DOMAIN journal[r] = 1 .. n
    BY DEF StoreTypeOK
  <2> HIDE DEF n
  <2>2. IsFiniteSet(DOMAIN journal[r])
    BY <2>1, FS_Interval
  <2>3. IsFiniteSet({r})
    BY FS_Singleton
  <2> QED
    BY <2>2, <2>3, FS_Product
<1>4. IsFiniteSet(UNION Parts)
  BY ONLY <1>2, <1>3, FS_UNION
<1>5. L \in SUBSET (UNION Parts)
  <2>1. \A l \in L : /\ l = <<l[1], l[2]>>
                     /\ l[1] \in References /\ l[2] \in DOMAIN journal[l[1]]
    BY LinesOf
  <2>2. \A l \in L : l \in Part[l[1]] /\ Part[l[1]] \in Parts
    BY <2>1
  <2> HIDE DEF Parts, Part
  <2> QED
    BY <2>2
<1>6. IsFiniteSet(L)
  BY ONLY <1>4, <1>5, FS_Subset
<1>7. \A l \in L : journal[l[1]][l[2]].amount \in Nat
  <2> SUFFICES ASSUME NEW l \in L PROVE journal[l[1]][l[2]].amount \in Nat
    OBVIOUS
  <2>1. l[1] \in References /\ l[2] \in DOMAIN journal[l[1]]
    BY LinesOf
  <2>2. journal[l[1]] \in Seq(Entry)
    BY <2>1 DEF StoreTypeOK
  <2>3. journal[l[1]][l[2]] \in Entry
    BY <2>1, <2>2
  <2> QED
    BY <2>3 DEF Entry
<1>8. DOMAIN g = L /\ \A l \in L : g[l] \in Nat
  BY <1>7
<1> HIDE DEF g
<1>9. Total(g) \in Nat
  BY <1>6, <1>8, TotalNat
<1> QED
  BY <1>6, <1>7, <1>9 DEF SumLines, g

LEMMA SumLinesSplits ==
  ASSUME StoreTypeOK, NEW i, NEW A \in SUBSET Lines(i), NEW B \in SUBSET Lines(i), A \cap B = {},
         NEW L, L = A \cup B
  PROVE  SumLines(L) = SumLines(A) + SumLines(B)
<1> DEFINE f == [l \in A |-> journal[l[1]][l[2]].amount]
           g == [l \in B |-> journal[l[1]][l[2]].amount]
           all == [l \in L |-> journal[l[1]][l[2]].amount]
<1>1. L \in SUBSET Lines(i)
  OBVIOUS
<1>2. IsFiniteSet(L) /\ \A l \in L : journal[l[1]][l[2]].amount \in Nat
  BY <1>1, SumLinesNat
<1>3. /\ IsFiniteSet(DOMAIN all) /\ \A l \in DOMAIN all : all[l] \in Nat
      /\ DOMAIN all = DOMAIN f \cup DOMAIN g /\ DOMAIN f \cap DOMAIN g = {}
      /\ \A l \in DOMAIN f : f[l] = all[l]
      /\ \A l \in DOMAIN g : g[l] = all[l]
  BY <1>2
<1> HIDE DEF f, g, all
<1>4. Total(all) = Total(f) + Total(g)
  BY ONLY <1>3, TotalSplits
<1> QED
  BY <1>4 DEF SumLines, f, g, all

(* At any one moment, each control account against its sub-ledger.           *)
LEMMA SubLedgersAgree ==
  ASSUME RepaymentsInv, NEW i \in Investors
  PROVE  /\ GLBalance("2010", i) \in Int /\ GLBalance("2020", i) \in Int
         /\ GLBalance("2030", i) \in Int
         /\ SubLedger("2010", ListedRows("2010"))[i] = GLBalance("2010", i)
         /\ SubLedger("2020", ListedRows("2020"))[i] = GLBalance("2020", i)
         /\ SubLedger("2030", ListedRows("2030"))[i]
              = GLBalance("2030", i) - AccruedAgain(i) + Unscheduled(i)
         /\ AccruedAgain(i) \in Nat /\ Unscheduled(i) \in Nat
<1>1. StoreTypeOK /\ Mirrored
  BY DEF RepaymentsInv, RepaymentRowsInv, RepaymentTypeOK, TypeOK
<1>2. \A a : GLBalance(a, i) \in Int
  <2> SUFFICES ASSUME NEW a PROVE GLBalance(a, i) \in Int
    OBVIOUS
  <2> DEFINE c == {l \in Lines(i) : CreditAccount(l[1][1]) = a}
             d == {l \in Lines(i) : DebitAccount(l[1][1]) = a}
  <2>1. c \in SUBSET Lines(i) /\ d \in SUBSET Lines(i)
    OBVIOUS
  <2>2. GLBalance(a, i) = SumLines(c) - SumLines(d)
    BY DEF GLBalance
  <2> HIDE DEF c, d
  <2>3. SumLines(c) \in Nat /\ SumLines(d) \in Nat
    BY <1>1, <2>1, SumLinesNat
  <2> QED
    BY <2>2, <2>3
<1>3. SubLedger("2010", ListedRows("2010"))[i] = GLBalance("2010", i)
  <2>1. GLBalance("2010", i) = AvailableBalance(i)
    BY <1>1, MirroredAgrees DEF LedgerAgreesWithWallet
  <2> QED
    BY <2>1 DEF SubLedger
<1>4. SubLedger("2020", ListedRows("2020"))[i] = GLBalance("2020", i)
  <2> DEFINE V == {vk[1] : vk \in Of(i, ListedRows("2020"))}
  <2>1. V = InvestedBy(i)
    <3>1. ListedRows("2020") = {<<v, 0>> : v \in {x \in InvestmentIds : investments[x] # NoInvestment}}
      BY DEF ListedRows
    <3>2. \A v \in InvestedBy(i) : investments[v] # NoInvestment
      BY NoneIsNoInvestment DEF InvestedBy, NoInvestment
    <3>3. ASSUME NEW v \in V PROVE v \in InvestedBy(i)
      <4>1. PICK vk \in Of(i, ListedRows("2020")) : v = vk[1]
        OBVIOUS
      <4> QED
        BY <3>1, <4>1 DEF Of, InvestedBy
    <3>4. ASSUME NEW v \in InvestedBy(i) PROVE v \in V
      <4>1. <<v, 0>> \in Of(i, ListedRows("2020"))
        BY <3>1, <3>2 DEF Of, InvestedBy
      <4>2. <<v, 0>>[1] = v
        OBVIOUS
      <4> QED
        BY <4>1, <4>2
    <3> HIDE DEF V
    <3> QED
      BY <3>3, <3>4
  <2>2. DisbursedOf(InvestedBy(i)) = DisbursedTo(i)
    <3>1. \A r \in RepaymentIds : repayments[r].status = "DISBURSED" =>
            repayments[r].investment \in InvestmentIds
      BY DEF RepaymentsInv, RepaymentRowsInv, RepaymentWellFormed, Invested
    <3> QED
      BY <3>1 DEF DisbursedOf, DisbursedTo, InvestedBy, InvestorOf
  <2>3. GLBalance("2020", i) = Principal(InvestedBy(i)) - SumPrincipal(DisbursedTo(i))
    BY InvestedTotal, PrincipalDisbursed DEF GLBalance, RepaymentsInv
  <2>4. SubLedger("2020", ListedRows("2020"))[i] = Principal(V) - SumPrincipal(DisbursedOf(V))
    BY DEF SubLedger
  <2> HIDE DEF V
  <2> QED
    BY <2>1, <2>2, <2>3, <2>4
<1>5. /\ SubLedger("2030", ListedRows("2030"))[i]
           = GLBalance("2030", i) - AccruedAgain(i) + Unscheduled(i)
      /\ AccruedAgain(i) \in Nat /\ Unscheduled(i) \in Nat
  <2> DEFINE due == Total([vk \in Of(i, AccruedRows) |-> schedules[vk[1]][vk[2]].roiDue])
             against == Total([r \in DisbursedAgainst(Of(i, AccruedRows)) |-> repayments[r].roi])
             c == {l \in Lines(i) : CreditAccount(l[1][1]) = "2030"}
             d == {l \in Lines(i) : DebitAccount(l[1][1]) = "2030"}
  <2>1. ListedRows("2030") = AccruedRows
    BY DEF ListedRows
  <2>2. SubLedger("2030", ListedRows("2030"))[i] = due - against
    BY <2>1 DEF SubLedger
  <2>3. GLBalance("2030", i) = SumLines(c) - SumLines(d)
    BY DEF GLBalance
  <2> DEFINE p == PostedUnder({RowRef(vk) : vk \in Of(i, AccruedRows)})
  <2>4. c = p
    <3> DEFINE q == PostedUnder({AccrualRef(v, k) : v \in InvestedBy(i), k \in 1 .. MaxPeriods})
    <3>1. \A L, Q, P : L = c /\ Q = q /\ P = p => L = P
      BY ONLY RepaymentsInv, i \in Investors, RoiCredited
    <3> HIDE DEF c, p, q
    <3> QED
      BY <3>1
  <2>5. due \in Nat /\ AccruedAgain(i) \in Nat /\ SumLines(c) = due + AccruedAgain(i)
    <3>1. \A L : L = p => due \in Nat /\ AccruedAgain(i) \in Nat /\ SumLines(L) = due + AccruedAgain(i)
      BY AccruedTotal
    <3> HIDE DEF c, p, due
    <3> QED
      BY <2>4, <3>1
  <2>6. against \in Nat /\ Unscheduled(i) \in Nat /\ SumLines(d) = against + Unscheduled(i)
    BY RoiDisbursed
  <2> HIDE DEF due, against, c, d
  <2> QED
    BY <2>2, <2>3, <2>5, <2>6
<1> QED
  BY <1>2, <1>3, <1>4, <1>5
-----------------------------------------------------------------------------
(* While the tables do not change, neither does what is read of them.        *)
View == <<walletTxn, journal, investments, schedules, repayments>>

LEMMA LedgerSame ==
  ASSUME journal' = journal
  PROVE  \A a : Ledger(a)' = Ledger(a)
<1>1. ASSUME NEW i PROVE Lines(i)' = Lines(i)
  BY DEF Lines
<1>2. ASSUME NEW L PROVE SumLines(L)' = SumLines(L)
  BY DEF SumLines
<1>3. ASSUME NEW a, NEW i PROVE GLBalance(a, i)' = GLBalance(a, i)
  <2> DEFINE c == {l \in Lines(i) : CreditAccount(l[1][1]) = a}
             d == {l \in Lines(i) : DebitAccount(l[1][1]) = a}
  <2>1. c' = c /\ d' = d
    BY <1>1
  <2>2. PICK C : C = c
    OBVIOUS
  <2>3. PICK D : D = d
    OBVIOUS
  <2>4. GLBalance(a, i) = SumLines(C) - SumLines(D)
    BY <2>2, <2>3 DEF GLBalance
  <2>5. GLBalance(a, i)' = SumLines(C)' - SumLines(D)'
    BY <2>1, <2>2, <2>3 DEF GLBalance
  <2> QED
    BY <1>2, <2>4, <2>5
<1> QED
  BY <1>3 DEF Ledger

LEMMA SubLedgerSame ==
  ASSUME UNCHANGED View
  PROVE  /\ \A a : ListedRows(a)' = ListedRows(a)
         /\ \A a \in ControlAccounts : \A rows : SubLedger(a, rows)' = SubLedger(a, rows)
         /\ \A i : AccruedAgain(i)' = AccruedAgain(i) /\ Unscheduled(i)' = Unscheduled(i)
<1> USE DEF View
<1>1. AccruedRows' = AccruedRows
  BY DEF AccruedRows
<1>2. ASSUME NEW a PROVE ListedRows(a)' = ListedRows(a)
  BY <1>1 DEF ListedRows
<1>3. ASSUME NEW i, NEW rows PROVE Of(i, rows)' = Of(i, rows)
  BY DEF Of
<1>4. ASSUME NEW i PROVE AvailableBalance(i)' = AvailableBalance(i)
  BY DEF AvailableBalance, PostedCredits, PostedDebits, SumTxns, Txns
<1>5. ASSUME NEW rows PROVE DisbursedAgainst(rows)' = DisbursedAgainst(rows)
  BY DEF DisbursedAgainst
<1>6. ASSUME NEW V PROVE DisbursedOf(V)' = DisbursedOf(V)
  BY DEF DisbursedOf
<1>7. ASSUME NEW V PROVE Principal(V)' = Principal(V) /\ SumPrincipal(V)' = SumPrincipal(V)
  BY DEF Principal, SumPrincipal
<1>8. ASSUME NEW i PROVE Of(i, AccruedRows)' = Of(i, AccruedRows)
  BY <1>1 DEF Of
<1>9. ASSUME NEW i PROVE AccruedAgain(i)' = AccruedAgain(i)
  BY <1>8 DEF AccruedAgain
<1>10. ASSUME NEW i PROVE Unscheduled(i)' = Unscheduled(i)
  BY DEF Unscheduled, DisbursedOf, InvestedBy
<1>11. ASSUME NEW rows
       PROVE  SubLedger("2010", rows)' = SubLedger("2010", rows)
  BY <1>4 DEF SubLedger
<1>12. ASSUME NEW rows
       PROVE  SubLedger("2020", rows)' = SubLedger("2020", rows)
  BY <1>3, <1>6, <1>7 DEF SubLedger
<1>13. ASSUME NEW rows
       PROVE  SubLedger("2030", rows)' = SubLedger("2030", rows)
  BY <1>3, <1>5 DEF SubLedger
<1> QED
  BY <1>2, <1>9, <1>10, <1>11, <1>12, <1>13 DEF ControlAccounts

(* QuietReads and QuietRunTellsTruth, of any run and of any row.             *)
ReadsTrue(rc) ==
  rc.quiet /\ rc.account # "none" =>
    /\ "gl" \notin rc.unread => rc.gl = Ledger(rc.account)
    /\ "listed" \notin rc.unread => rc.listed = ListedRows(rc.account)
    /\ "sub" \notin rc.unread => rc.sub = SubLedger(rc.account, rc.listed)

TellsTruth(wr) ==
  wr.quiet =>
    \A i \in Investors :
      wr.difference[i] = IF wr.account = "2030" THEN AccruedAgain(i) - Unscheduled(i) ELSE 0

LEMMA ReadsKept ==
  ASSUME UNCHANGED View, NEW rc, rc.account \in {"none"} \cup ControlAccounts, ReadsTrue(rc)
  PROVE  ReadsTrue(rc)'
<1> DEFINE a == rc.account
<1>1. ASSUME rc.quiet, a # "none"
      PROVE  /\ Ledger(a)' = Ledger(a) /\ ListedRows(a)' = ListedRows(a)
             /\ SubLedger(a, rc.listed)' = SubLedger(a, rc.listed)
  BY <1>1, LedgerSame, SubLedgerSame DEF View
<1> QED
  BY <1>1 DEF ReadsTrue

LEMMA TruthKept ==
  ASSUME UNCHANGED View, NEW wr, TellsTruth(wr)
  PROVE  TellsTruth(wr)'
  BY SubLedgerSame DEF TellsTruth

RunShape(rc) ==
  /\ rc \in [account : {"none"} \cup ControlAccounts, unread : SUBSET {"gl", "listed", "sub"},
             gl : {rc.gl}, listed : {rc.listed}, sub : {rc.sub},
             open : SUBSET Investors, quiet : BOOLEAN]
  /\ rc.account = "none" => rc.open = {} /\ rc.unread = {}
  /\ "listed" \in rc.unread => "sub" \in rc.unread

RowShape(wr) ==
  wr \in [account : {"none"} \cup ControlAccounts, difference : {wr.difference},
          status : {wr.status}, items : {wr.items}, quiet : BOOLEAN]

(* A step that leaves the tables alone keeps the invariant if what it leaves *)
(* of the run and of the row is so in the tables as they are.                *)
LEMMA QuietStep ==
  ASSUME UNCHANGED View,
         NEW rc, rc = recon', NEW wr, wr = written',
         RunShape(rc), RowShape(wr), ReadsTrue(rc), TellsTruth(wr)
  PROVE  ReconInv'
<1>1. ReadsTrue(rc)' /\ TellsTruth(wr)'
  BY ReadsKept, TruthKept DEF RunShape
<1>2. ReconShape'
  BY DEF ReconShape, RunShape, RowShape
<1>3. QuietReads'
  BY <1>1 DEF QuietReads, ReadsTrue
<1>4. QuietRunTellsTruth'
  BY <1>1 DEF QuietRunTellsTruth, TellsTruth
<1> QED
  BY <1>2, <1>3, <1>4 DEF ReconInv

LEMMA ReconParts ==
  ReconInv <=> RunShape(recon) /\ RowShape(written) /\ ReadsTrue(recon) /\ TellsTruth(written)
  BY DEF ReconInv, ReconShape, QuietReads, QuietRunTellsTruth, RunShape, RowShape, ReadsTrue,
         TellsTruth

(* An account's turn starts with nothing read of it, but the rows its        *)
(* sub-ledger does not list.                                                 *)
LEMMA FreshRun ==
  ASSUME NEW a \in {"none"} \cup ControlAccounts
  PROVE  RunShape(Reconcile(a)) /\ ReadsTrue(Reconcile(a))
<1> DEFINE rc == Reconcile(a)
<1>1. rc = [account |-> a, unread |-> Queries(a), gl |-> Unread, listed |-> {}, sub |-> Unread,
            open |-> {}, quiet |-> TRUE]
  <2>1. PICK q : q = Queries(a)
    OBVIOUS
  <2>2. rc = [NotRunning EXCEPT !.account = a, !.unread = q]
    BY <2>1 DEF Reconcile
  <2> QED
    BY <2>1, <2>2 DEF NotRunning
<1>2. /\ Queries(a) \in SUBSET {"gl", "listed", "sub"}
      /\ a = "none" => Queries(a) = {}
      /\ a # "none" => "gl" \in Queries(a) /\ "sub" \in Queries(a)
      /\ a # "none" /\ "listed" \notin Queries(a) => ListedRows(a) = {}
  BY DEF Queries, ListedRows, ControlAccounts
<1> HIDE DEF rc
<1>3. RunShape(rc)
  BY <1>1, <1>2 DEF RunShape
<1>4. ReadsTrue(rc)
  BY <1>1, <1>2 DEF ReadsTrue
<1> QED
  BY <1>3, <1>4 DEF rc

LEMMA AdvanceShape ==
  ASSUME RunShape(recon), ReadsTrue(recon), recon.account # "none",
         NEW items \in SUBSET Investors, Advance(items), NEW rc, rc = recon'
  PROVE  RunShape(rc) /\ ReadsTrue(rc)
<1>1. CASE items = {}
  <2>1. PICK a : a = NextAccount(recon.account)
    OBVIOUS
  <2>2. a \in {"none"} \cup ControlAccounts
    BY <2>1 DEF RunShape, NextAccount, ControlAccounts
  <2>3. rc = Reconcile(a)
    BY <1>1, <2>1 DEF Advance
  <2> QED
    BY <2>2, <2>3, FreshRun
<1>2. CASE items # {}
  <2>1. rc = [recon EXCEPT !.open = items]
    BY <1>2 DEF Advance
  <2>2. /\ rc.account = recon.account /\ rc.unread = recon.unread /\ rc.gl = recon.gl
        /\ rc.listed = recon.listed /\ rc.sub = recon.sub /\ rc.quiet = recon.quiet
        /\ RunShape(rc)
    BY <2>1 DEF RunShape
  <2> QED
    BY <2>2 DEF ReadsTrue
<1> QED
  BY <1>1, <1>2

LEMMA ReconStepInv ==
  RepaymentsInv /\ ReconInv /\ [RunNext]_reconciliationVars => ReconInv'
<1> SUFFICES ASSUME RepaymentsInv, ReconInv, [RunNext]_reconciliationVars PROVE ReconInv'
  OBVIOUS
<1>1. RunShape(recon) /\ RowShape(written) /\ ReadsTrue(recon) /\ TellsTruth(written)
  BY ReconParts
<1>2. NothingCommitted => UNCHANGED View
  BY DEF NothingCommitted, View, repaymentVars, investmentVars, investmentTables, storeVars
<1>3. PICK rc : rc = recon'
  OBVIOUS
<1>4. PICK wr : wr = written'
  OBVIOUS
<1>5. ASSUME UNCHANGED View, UNCHANGED <<recon, written>> PROVE ReconInv'
  BY <1>1, <1>3, <1>4, <1>5, QuietStep
<1>6. CASE UNCHANGED reconciliationVars
  BY <1>2, <1>5, <1>6 DEF reconciliationVars, NothingCommitted
<1>7. CASE RepayNext /\ Overlap
  <2>1. CASE UNCHANGED tables
    BY <1>5, <1>7, <2>1 DEF Overlap, tables, View, investmentTables
  <2>2. CASE ~UNCHANGED tables
    <3>1. PICK quiet \in BOOLEAN : quiet <=> recon.quiet /\ recon.account = "none"
      OBVIOUS
    <3>2. wr = NoRow /\ rc = [recon EXCEPT !.quiet = quiet]
      <4>1. recon' = [recon EXCEPT !.quiet = (recon.quiet /\ recon.account = "none")]
        BY <1>7, <2>2 DEF Overlap
      <4>2. (recon.quiet /\ recon.account = "none") = quiet
        BY <3>1
      <4> QED
        BY <1>3, <1>4, <1>7, <2>2, <4>1, <4>2 DEF Overlap
    <3>3. /\ rc.account = recon.account /\ rc.unread = recon.unread /\ rc.open = recon.open
          /\ rc.quiet = quiet /\ RunShape(rc)
      BY <1>1, <3>1, <3>2 DEF RunShape
    <3>4. RowShape(wr) /\ wr.quiet = FALSE
      BY <3>2 DEF RowShape, NoRow
    <3>5. ReadsTrue(rc)' /\ TellsTruth(wr)'
      BY <3>1, <3>3, <3>4 DEF ReadsTrue, TellsTruth
    <3> QED
      BY <1>3, <1>4, <3>3, <3>4, <3>5
         DEF ReconInv, ReconShape, QuietReads, QuietRunTellsTruth, RunShape, RowShape, ReadsTrue,
             TellsTruth
  <2> QED
    BY <2>1, <2>2
<1>8. CASE StartReconciliation
  <2>1. UNCHANGED View /\ rc = Reconcile("2010") /\ wr = written
    BY <1>2, <1>3, <1>4, <1>8 DEF StartReconciliation
  <2>2. RunShape(rc) /\ ReadsTrue(rc)
    BY <2>1, FreshRun DEF ControlAccounts
  <2> QED
    BY <1>1, <1>3, <1>4, <2>1, <2>2, QuietStep
<1>9. CASE ReadLedger
  <2>1. PICK gl : gl = Ledger(recon.account)
    OBVIOUS
  <2>2. /\ UNCHANGED View /\ wr = written /\ "gl" \in recon.unread
        /\ rc = [recon EXCEPT !.unread = recon.unread \ {"gl"}, !.gl = gl]
    BY <1>2, <1>3, <1>4, <1>9, <2>1 DEF ReadLedger
  <2>3. /\ rc.account = recon.account /\ rc.unread = recon.unread \ {"gl"} /\ rc.gl = gl
        /\ rc.listed = recon.listed /\ rc.sub = recon.sub /\ rc.quiet = recon.quiet
        /\ RunShape(rc)
    BY <1>1, <2>2 DEF RunShape
  <2>4. ReadsTrue(rc)
    BY <1>1, <2>1, <2>3 DEF ReadsTrue
  <2> QED
    BY <1>1, <1>3, <1>4, <2>2, <2>3, <2>4, QuietStep
<1>10. CASE ListRows
  <2>1. PICK rows : rows = ListedRows(recon.account)
    OBVIOUS
  <2>2. /\ UNCHANGED View /\ wr = written /\ "listed" \in recon.unread
        /\ rc = [recon EXCEPT !.unread = recon.unread \ {"listed"}, !.listed = rows]
    BY <1>2, <1>3, <1>4, <1>10, <2>1 DEF ListRows
  <2>3. /\ rc.account = recon.account /\ rc.unread = recon.unread \ {"listed"}
        /\ rc.gl = recon.gl /\ rc.listed = rows /\ rc.sub = recon.sub /\ rc.quiet = recon.quiet
        /\ RunShape(rc)
    BY <1>1, <2>2 DEF RunShape
  <2>4. ReadsTrue(rc)
    <3>1. "sub" \in rc.unread
      BY <1>1, <2>2, <2>3 DEF RunShape
    <3> QED
      BY <1>1, <2>1, <2>3, <3>1 DEF ReadsTrue
  <2> QED
    BY <1>1, <1>3, <1>4, <2>2, <2>3, <2>4, QuietStep
<1>11. CASE ReadSubLedger
  <2>1. PICK sub : sub = SubLedger(recon.account, recon.listed)
    OBVIOUS
  <2>2. /\ UNCHANGED View /\ wr = written /\ "listed" \notin recon.unread
        /\ rc = [recon EXCEPT !.unread = recon.unread \ {"sub"}, !.sub = sub]
    BY <1>2, <1>3, <1>4, <1>11, <2>1 DEF ReadSubLedger
  <2>3. /\ rc.account = recon.account /\ rc.unread = recon.unread \ {"sub"}
        /\ rc.gl = recon.gl /\ rc.listed = recon.listed /\ rc.sub = sub /\ rc.quiet = recon.quiet
        /\ RunShape(rc)
    BY <1>1, <2>2 DEF RunShape
  <2>4. ReadsTrue(rc)
    BY <1>1, <2>1, <2>3 DEF ReadsTrue
  <2> QED
    BY <1>1, <1>3, <1>4, <2>2, <2>3, <2>4, QuietStep
<1>12. CASE CreateRow
  <2>1. PICK items : items = {i \in Investors : Difference[i] # 0}
    OBVIOUS
  <2>2. PICK d : d = Difference
    OBVIOUS
  <2>3. /\ UNCHANGED View /\ Advance(items) /\ recon.account # "none" /\ recon.unread = {}
        /\ wr = [account |-> recon.account, difference |-> d, items |-> {},
                 status |-> wr.status, quiet |-> recon.quiet]
    BY <1>2, <1>4, <1>12, <2>1, <2>2 DEF CreateRow
  <2>4. RunShape(rc) /\ ReadsTrue(rc)
    BY <1>1, <1>3, <2>1, <2>3, AdvanceShape
  <2>5. RowShape(wr)
    BY <1>1, <2>3 DEF RowShape, RunShape
  <2>6. ASSUME recon.quiet, NEW i \in Investors
        PROVE  d[i] = IF recon.account = "2030" THEN AccruedAgain(i) - Unscheduled(i) ELSE 0
    <3> DEFINE a == recon.account
    <3>1. a \in ControlAccounts
      BY <1>1, <2>3 DEF RunShape
    <3>2. recon.gl = Ledger(a) /\ recon.sub = SubLedger(a, ListedRows(a))
      BY <1>1, <2>3, <2>6 DEF ReadsTrue
    <3>3. d[i] = GLBalance(a, i) - SubLedger(a, ListedRows(a))[i]
      BY <2>2, <3>2 DEF Difference, Ledger
    <3> QED
      BY <3>1, <3>3, SubLedgersAgree DEF ControlAccounts
  <2>7. TellsTruth(wr)
    BY <2>3, <2>6 DEF TellsTruth
  <2> QED
    BY <1>3, <1>4, <2>3, <2>4, <2>5, <2>7, QuietStep
<1>13. ASSUME NEW i \in Investors, CreateItem(i) PROVE ReconInv'
  <2>1. PICK items : items = recon.open \ {i}
    OBVIOUS
  <2>2. PICK done : done = written.items \cup {i}
    OBVIOUS
  <2>3. /\ UNCHANGED View /\ Advance(items) /\ i \in recon.open
        /\ wr = [written EXCEPT !.items = done]
    BY <1>2, <1>4, <1>13, <2>1, <2>2 DEF CreateItem
  <2>4. recon.account # "none" /\ items \subseteq Investors
    BY <1>1, <2>1, <2>3 DEF RunShape
  <2>5. RunShape(rc) /\ ReadsTrue(rc)
    BY <1>1, <1>3, <2>3, <2>4, AdvanceShape
  <2>6. RowShape(wr) /\ TellsTruth(wr)
    BY <1>1, <2>3 DEF RowShape, TellsTruth
  <2> QED
    BY <1>3, <1>4, <2>3, <2>5, <2>6, QuietStep
<1>14. CASE AbortReconciliation
  <2>1. UNCHANGED View /\ rc = NotRunning /\ wr = written
    BY <1>2, <1>3, <1>4, <1>14 DEF AbortReconciliation
  <2>2. RunShape(rc) /\ ReadsTrue(rc)
    BY <2>1 DEF NotRunning, RunShape, ReadsTrue
  <2> QED
    BY <1>1, <1>3, <1>4, <2>1, <2>2, QuietStep
<1> QED
  BY <1>6, <1>7, <1>8, <1>9, <1>10, <1>11, <1>12, <1>13, <1>14 DEF RunNext, Reconciling

LEMMA RunInvHolds == RunSpec => []ReconInv
<1>1. RunInit => ReconInv
  <2> SUFFICES ASSUME RunInit PROVE ReconInv
    OBVIOUS
  <2>1. recon = NotRunning /\ written = NoRow
    BY DEF RunInit
  <2>2. RunShape(recon) /\ ReadsTrue(recon)
    BY <2>1 DEF NotRunning, RunShape, ReadsTrue
  <2>3. RowShape(written) /\ TellsTruth(written)
    BY <2>1 DEF NoRow, RowShape, TellsTruth
  <2> QED
    BY <2>2, <2>3, ReconParts
<1>2. RepaymentsInv /\ ReconInv /\ [RunNext]_reconciliationVars => ReconInv'
  BY ReconStepInv
<1> QED
  BY <1>1, <1>2, InvHolds, PTL DEF RunSpec

(* A reconciliation nothing was committed during shows, per investor, no     *)
(* difference on 2010 and 2020 and on 2030 the ROI accrued again less the    *)
(* ROI disbursed without a schedule row: ReconciliationService.run reads     *)
(* each side in queries of their own (reconciliation.service.ts).            *)
THEOREM QuietRuns == RunSpec => []QuietRunTellsTruth
<1>1. ReconInv => QuietRunTellsTruth
  BY DEF ReconInv
<1> QED
  BY <1>1, RunInvHolds, PTL
-----------------------------------------------------------------------------
(* The lines of the three control accounts are those of each, side by side.  *)
LEMMA SplitByAccount ==
  ASSUME StoreTypeOK, NEW i, NEW L \in SUBSET Lines(i), NEW acc,
         NEW A, A = {l \in L : acc[l] = "2010"}, NEW B, B = {l \in L : acc[l] = "2020"},
         NEW C, C = {l \in L : acc[l] = "2030"},
         \A l \in L : acc[l] \in ControlAccounts
  PROVE  SumLines(L) = SumLines(A) + SumLines(B) + SumLines(C)
<1> DEFINE D == A \cup B
<1>1. /\ A \in SUBSET Lines(i) /\ B \in SUBSET Lines(i) /\ C \in SUBSET Lines(i)
      /\ D \in SUBSET Lines(i)
  OBVIOUS
<1>2. L = D \cup C /\ D \cap C = {} /\ A \cap B = {}
  BY DEF ControlAccounts
<1>3. SumLines(D) = SumLines(A) + SumLines(B)
  BY <1>1, <1>2, SumLinesSplits
<1>4. SumLines(L) = SumLines(D) + SumLines(C)
  <2> HIDE DEF D
  <2> QED
    BY <1>1, <1>2, SumLinesSplits
<1> QED
  BY <1>3, <1>4

LEMMA LiabilitiesSplit ==
  ASSUME StoreTypeOK, NEW i \in Investors
  PROVE  LiabilitiesOnLedger(i)
           = GLBalance("2010", i) + GLBalance("2020", i) + GLBalance("2030", i)
<1> DEFINE credits == [l \in Lines(i) |-> CreditAccount(l[1][1])]
           debits == [l \in Lines(i) |-> DebitAccount(l[1][1])]
           c == {l \in Lines(i) : CreditAccount(l[1][1]) \in ControlAccounts}
           c1 == {l \in Lines(i) : CreditAccount(l[1][1]) = "2010"}
           c2 == {l \in Lines(i) : CreditAccount(l[1][1]) = "2020"}
           c3 == {l \in Lines(i) : CreditAccount(l[1][1]) = "2030"}
           d == {l \in Lines(i) : DebitAccount(l[1][1]) \in ControlAccounts}
           d1 == {l \in Lines(i) : DebitAccount(l[1][1]) = "2010"}
           d2 == {l \in Lines(i) : DebitAccount(l[1][1]) = "2020"}
           d3 == {l \in Lines(i) : DebitAccount(l[1][1]) = "2030"}
<1>1. ASSUME NEW acc, DOMAIN acc = Lines(i),
             NEW L, L = {l \in Lines(i) : acc[l] \in ControlAccounts},
             NEW A, A = {l \in Lines(i) : acc[l] = "2010"},
             NEW B, B = {l \in Lines(i) : acc[l] = "2020"},
             NEW C, C = {l \in Lines(i) : acc[l] = "2030"}
      PROVE  /\ SumLines(L) = SumLines(A) + SumLines(B) + SumLines(C)
             /\ SumLines(A) \in Nat /\ SumLines(B) \in Nat /\ SumLines(C) \in Nat
  <2>1. /\ A = {l \in L : acc[l] = "2010"} /\ B = {l \in L : acc[l] = "2020"}
        /\ C = {l \in L : acc[l] = "2030"}
        /\ L \in SUBSET Lines(i) /\ \A l \in L : acc[l] \in ControlAccounts
    BY <1>1 DEF ControlAccounts
  <2>2. A \in SUBSET Lines(i) /\ B \in SUBSET Lines(i) /\ C \in SUBSET Lines(i)
    BY <1>1
  <2>3. SumLines(L) = SumLines(A) + SumLines(B) + SumLines(C)
    BY ONLY StoreTypeOK, <2>1, SplitByAccount
  <2> QED
    BY <2>2, <2>3, SumLinesNat
<1>2. /\ SumLines(c) = SumLines(c1) + SumLines(c2) + SumLines(c3)
      /\ SumLines(c1) \in Nat /\ SumLines(c2) \in Nat /\ SumLines(c3) \in Nat
  <2>1. /\ c = {l \in Lines(i) : credits[l] \in ControlAccounts}
        /\ c1 = {l \in Lines(i) : credits[l] = "2010"}
        /\ c2 = {l \in Lines(i) : credits[l] = "2020"}
        /\ c3 = {l \in Lines(i) : credits[l] = "2030"}
    OBVIOUS
  <2>2. DOMAIN credits = Lines(i)
    OBVIOUS
  <2> HIDE DEF c, c1, c2, c3, credits
  <2> QED
    BY <1>1, <2>1, <2>2
<1>3. /\ SumLines(d) = SumLines(d1) + SumLines(d2) + SumLines(d3)
      /\ SumLines(d1) \in Nat /\ SumLines(d2) \in Nat /\ SumLines(d3) \in Nat
  <2>1. /\ d = {l \in Lines(i) : debits[l] \in ControlAccounts}
        /\ d1 = {l \in Lines(i) : debits[l] = "2010"}
        /\ d2 = {l \in Lines(i) : debits[l] = "2020"}
        /\ d3 = {l \in Lines(i) : debits[l] = "2030"}
    OBVIOUS
  <2>2. DOMAIN debits = Lines(i)
    OBVIOUS
  <2> HIDE DEF d, d1, d2, d3, debits
  <2> QED
    BY <1>1, <2>1, <2>2
<1>4. /\ LiabilitiesOnLedger(i) = SumLines(c) - SumLines(d)
      /\ GLBalance("2010", i) = SumLines(c1) - SumLines(d1)
      /\ GLBalance("2020", i) = SumLines(c2) - SumLines(d2)
      /\ GLBalance("2030", i) = SumLines(c3) - SumLines(d3)
  BY DEF LiabilitiesOnLedger, GLBalance
<1> HIDE DEF c, c1, c2, c3, d, d1, d2, d3
<1> QED
  BY <1>2, <1>3, <1>4

(* The ROI recorded of an investor's repayments is what their entries hold.  *)
LEMMA RoiCollected ==
  ASSUME RepaymentsInv, NEW i \in Investors,
         NEW X, X = {x \in RepaymentIds : repayments[x].investment \in InvestedBy(i)},
         NEW L, L = PostedUnder({RoiCashRef(r) : r \in X})
  PROVE  LET received == Total([r \in X |-> repayments[r].roi])
         IN  received \in Nat /\ SumLines(L) = received
<1> DEFINE ref == [r \in X |-> RoiCashRef(r)]
           refs == {RoiCashRef(r) : r \in X}
           a == [r \in X |-> repayments[r].roi]
           all == [r \in X |-> Len(journal[ref[r]]) * a[r]]
<1>1. X \in SUBSET RepaymentIds /\ IsFiniteSet(X)
  BY FiniteRepayments, FS_Subset
<1>2. journal \in [References -> Seq(Entry)]
  BY DEF RepaymentsInv, RepaymentRowsInv, RepaymentTypeOK, TypeOK, StoreTypeOK
<1>3. \A r \in X : RoiCashRef(r) \in References /\ repayments[r].roi \in Nat /\ RoiReceived(r)
  BY <1>1, RepaymentRefs
     DEF RepaymentsInv, RepaymentRowsInv, RepaymentTypeOK, RepaymentRow, RepaymentWellFormed
<1>4. \A x, y \in X : ref[x] = ref[y] => x = y
  BY DEF RoiCashRef
<1>5. ASSUME NEW r \in X
      PROVE  /\ \A n \in DOMAIN journal[RoiCashRef(r)] :
                  journal[RoiCashRef(r)][n].amount = repayments[r].roi
             /\ Len(journal[RoiCashRef(r)]) * repayments[r].roi = repayments[r].roi
  <2>1. CASE repayments[r].roi = 0 /\ journal[RoiCashRef(r)] = <<>>
    BY <2>1
  <2>2. CASE journal[RoiCashRef(r)] = <<[investor |-> InvestorOf(r), amount |-> repayments[r].roi]>>
    <3> DEFINE e == [investor |-> InvestorOf(r), amount |-> repayments[r].roi]
    <3>1. journal[RoiCashRef(r)] = <<e>> /\ e.amount = repayments[r].roi
      BY <2>2
    <3> HIDE DEF e
    <3> QED
      BY <1>3, <3>1
  <2> QED
    BY <1>3, <2>1, <2>2 DEF RoiReceived
<1>6. OneAmountEach(X, ref, refs, a, all)
  <2>1. \A x \in X : ref[x] \in refs /\ ref[x] \in References
    BY <1>3
  <2>2. \A r \in refs : \E x \in X : r = ref[x]
    OBVIOUS
  <2>3. DOMAIN all = X /\ \A x \in X : all[x] = Len(journal[ref[x]]) * a[x]
    OBVIOUS
  <2>4. \A x \in X : /\ a[x] \in Nat
                     /\ \A n \in DOMAIN journal[ref[x]] : journal[ref[x]][n].amount = a[x]
    BY <1>3, <1>5
  <2> HIDE DEF ref, refs, a, all
  <2> QED
    BY <1>1, <1>4, <2>1, <2>2, <2>3, <2>4 DEF OneAmountEach
<1>7. SumLines(L) = Total(all)
  <2>1. L = PostedUnder(refs)
    OBVIOUS
  <2> HIDE DEF ref, refs, a, all
  <2> QED
    BY <1>2, <1>6, <2>1, GroupedEntries
<1>8. all = a
  BY <1>5
<1>9. Total(a) \in Nat
  <2>1. DOMAIN a = X /\ \A r \in X : a[r] \in Nat
    BY <1>3
  <2> HIDE DEF a
  <2> QED
    BY <1>1, <2>1, TotalNat
<1> HIDE DEF all
<1> QED
  BY <1>7, <1>8, <1>9

LEMMA InvReports == RepaymentsInv => RoiReportsExplained
<1> SUFFICES ASSUME RepaymentsInv, NEW i \in Investors
             PROVE  /\ Liabilities(i) = LiabilitiesOnLedger(i) - AccruedAgain(i) + Unscheduled(i)
                    /\ Receivable(InvestedBy(i)) = Outstanding(i) + AccruedAgain(i)
  BY DEF RoiReportsExplained
<1>1. Liabilities(i) = LiabilitiesOnLedger(i) - AccruedAgain(i) + Unscheduled(i)
  <2>1. StoreTypeOK
    BY DEF RepaymentsInv, RepaymentRowsInv, RepaymentTypeOK, TypeOK
  <2> QED
    BY <2>1, LiabilitiesSplit, SubLedgersAgree DEF Liabilities
<1>2. Receivable(InvestedBy(i)) = Outstanding(i) + AccruedAgain(i)
  <2> DEFINE q == PostedUnder({AccrualRef(v, k) : v \in InvestedBy(i), k \in 1 .. MaxPeriods})
             p == PostedUnder({RowRef(vk) : vk \in Of(i, AccruedRows)})
             c == {l \in Lines(i) : CreditAccount(l[1][1]) = "2030"}
             X == {x \in RepaymentIds : repayments[x].investment \in InvestedBy(i)}
             b == PostedUnder({RoiCashRef(r) : r \in X})
             due == Total([vk \in Of(i, AccruedRows) |-> schedules[vk[1]][vk[2]].roiDue])
             received == Total([r \in X |-> repayments[r].roi])
  <2>1. q = p
    <3>1. \A L, Q, P : L = c /\ Q = q /\ P = p => Q = P
      BY ONLY RepaymentsInv, i \in Investors, RoiCredited
    <3> HIDE DEF c, p, q
    <3> QED
      BY <3>1
  <2>2. due \in Nat /\ AccruedAgain(i) \in Nat /\ SumLines(q) = due + AccruedAgain(i)
    <3>1. \A L : L = p => due \in Nat /\ AccruedAgain(i) \in Nat /\ SumLines(L) = due + AccruedAgain(i)
      BY AccruedTotal
    <3> HIDE DEF p, q, due
    <3> QED
      BY <2>1, <3>1
  <2>3. received \in Nat /\ SumLines(b) = received
    BY RoiCollected
  <2>4. Outstanding(i) = due - received
    BY DEF Outstanding
  <2>5. Receivable(InvestedBy(i)) = SumLines(q) - SumLines(b)
    BY DEF Receivable
  <2> HIDE DEF q, b, due, received
  <2> QED
    BY <2>2, <2>3, <2>4, <2>5
<1> QED
  BY <1>1, <1>2

(* The reports that mix the ledger and the business tables, InvestorRoi,     *)
(* InvestmentReceivables and InvestorLiabilities, differ from the ledger by  *)
(* the ROI accrued again and the ROI disbursed without a schedule row, and by *)
(* nothing else (financial-reports.service.ts).                             *)
THEOREM ReportsExplained == RunSpec => []RoiReportsExplained
  BY InvHolds, InvReports, PTL
-----------------------------------------------------------------------------
(* Accruals: a row's entries are the request that accrued it first and those *)
(* that were being served by then; each that commits leaves one fewer.       *)
Accruing(v, k) ==
  {w \in Workers : call[w].next = "accrueRoi" /\ call[w].id = v /\ call[w].period = k}

AccrualAt(v, k) ==
  LET n == Len(journal[AccrualRef(v, k)])
  IN  n > 0 => n + Cardinality(Accruing(v, k)) <= Cardinality(Workers)

AccrualInv == \A v \in InvestmentIds, k \in 1 .. MaxPeriods : AccrualAt(v, k)

LEMMA AccrualEntries ==
  ASSUME RepaymentsInv, NEW v \in InvestmentIds, NEW k \in 1 .. MaxPeriods
  PROVE  /\ AccrualRef(v, k) \in References
         /\ journal[AccrualRef(v, k)] \in Seq(Entry)
         /\ Len(journal[AccrualRef(v, k)]) \in Nat
         /\ Len(journal[AccrualRef(v, k)]) > 0 <=> RowAccrued(v, k)
<1>1. AccrualRef(v, k) \in References
  BY RepaymentRefs
<1>2. journal[AccrualRef(v, k)] \in Seq(Entry)
  BY <1>1 DEF RepaymentsInv, RepaymentRowsInv, RepaymentTypeOK, TypeOK, StoreTypeOK
<1>3. journal[AccrualRef(v, k)] # <<>> <=> RowAccrued(v, k)
  BY DEF RepaymentsInv, RepaymentRowsInv, InvestmentWellFormed
<1> DEFINE s == journal[AccrualRef(v, k)]
<1> HIDE DEF s
<1>4. s \in Seq(Entry) => Len(s) \in Nat /\ (Len(s) > 0 <=> s # <<>>)
  BY EmptySeq
<1> QED
  BY <1>1, <1>2, <1>3, <1>4 DEF s

(* Nothing but an accrual posts under an accrual's reference, and only a      *)
(* request that begins on a row not accrued joins those accruing it.         *)
LEMMA OthersDoNotAccrue ==
  ASSUME RepaymentsInv, NEW w \in Workers, NEW v \in InvestmentIds, NEW k \in 1 .. MaxPeriods,
         \/ RepaymentNext(w) /\ ~AccrueRoi(w)
         \/ Defaulting(w)
         \/ Abort(w) /\ UNCHANGED <<investmentTables, repayments>>
  PROVE  /\ journal'[AccrualRef(v, k)] = journal[AccrualRef(v, k)]
         /\ RowAccrued(v, k) => Accruing(v, k)' \subseteq Accruing(v, k)
<1> DEFINE Same == journal'[AccrualRef(v, k)] = journal[AccrualRef(v, k)]
           Leaves == Accruing(v, k)' \subseteq Accruing(v, k)
<1>1. /\ call \in [Workers -> Calls]
      /\ journal \in [References -> Seq(Entry)]
      /\ AccrualRef(v, k) \in References
  BY RepaymentRefs DEF RepaymentsInv, RepaymentRowsInv, RepaymentTypeOK, TypeOK, StoreTypeOK
<1>2. ASSUME NEW c, call' = [call EXCEPT ![w] = c], c.next # "accrueRoi" PROVE Leaves
  BY <1>1, <1>2 DEF Accruing
<1>3. End(w) => Leaves
  <2>1. Idle.next # "accrueRoi"
    BY DEF Idle
  <2> QED
    BY <1>2, <2>1 DEF End
<1>4. ASSUME NEW x \in InvestmentIds, NEW n \in 1 .. MaxPeriods, StartAccrueRoi(w, x, n)
      PROVE  Same /\ (RowAccrued(v, k) => Leaves)
  <2>1. call' = [call EXCEPT ![w] = [Idle EXCEPT !.next = "accrueRoi", !.id = x, !.period = n]]
    BY <1>4 DEF StartAccrueRoi, Begin
  <2>2. call'[w].id = x /\ call'[w].period = n /\ \A y \in Workers \ {w} : call'[y] = call[y]
    BY <1>1, <2>1 DEF Idle
  <2>3. ~RowAccrued(x, n) /\ Same
    BY <1>4 DEF StartAccrueRoi, MayAccrue, RowAccrued
  <2>4. CASE x = v /\ n = k
    BY <2>3, <2>4
  <2>5. CASE ~(x = v /\ n = k)
    BY <2>2, <2>3, <2>5 DEF Accruing
  <2> QED
    BY <2>4, <2>5
<1>5. ASSUME NEW x \in InvestmentIds, NEW n \in 0 .. MaxPeriods, NEW payment \in Payments,
             StartRecordRepayment(w, x, n, payment)
      PROVE  Same /\ Leaves
  <2> DEFINE c == [Idle EXCEPT !.next = IF n = 0 THEN "sumRepaid" ELSE "checkSchedule",
                               !.id = x, !.period = n, !.amount = payment.principal,
                               !.roi = payment.roi, !.other = payment.other]
  <2>1. call' = [call EXCEPT ![w] = c] /\ Same
    BY <1>5 DEF StartRecordRepayment, Begin
  <2>2. c.next # "accrueRoi"
    BY DEF Idle
  <2> QED
    BY <1>2, <2>1, <2>2
<1>6. ASSUME NEW r \in RepaymentIds, StartDisburse(w, r) PROVE Same /\ Leaves
  <2>1. [Idle EXCEPT !.next = "disburse", !.id = r].next # "accrueRoi"
    BY DEF Idle
  <2> QED
    BY <1>2, <1>6, <2>1 DEF StartDisburse, Begin
<1>7. ASSUME NEW x \in InvestmentIds, StartMarkDefaulted(w, x) PROVE Same /\ Leaves
  <2>1. [Idle EXCEPT !.next = "markDefaulted", !.id = x].next # "accrueRoi"
    BY DEF Idle
  <2> QED
    BY <1>2, <1>7, <2>1 DEF StartMarkDefaulted, Begin
<1>8. CASE CheckSchedule(w) \/ SumSchedulePaid(w) \/ LockSchedule(w) \/ SumRepaid(w)
  <2>1. Same
    BY <1>8 DEF CheckSchedule, SumSchedulePaid, LockSchedule, SumRepaid
  <2>2. End(w) \/ (/\ call'[w].next # "accrueRoi"
                   /\ \A y \in Workers \ {w} : call'[y] = call[y])
    BY <1>1, <1>8 DEF CheckSchedule, SumSchedulePaid, LockSchedule, SumRepaid, Go, Calls
  <2> QED
    BY <1>3, <2>1, <2>2 DEF Accruing
<1>9. CASE AccrueRoiFails(w) \/ DisburseFails(w) \/ MarkDefaulted(w) \/ Abort(w)
  BY <1>3, <1>9 DEF AccrueRoiFails, DisburseFails, MarkDefaulted, Abort
<1>10. ASSUME NEW r \in RepaymentIds, CreateRepayment(w, r) PROVE Same /\ Leaves
  <2>1. AccrualRef(v, k) # RoiCashRef(r)
    BY DEF AccrualRef, RoiCashRef
  <2>2. Same
    BY <1>1, <1>10, <2>1 DEF CreateRepayment, PostJournal, Posted
  <2> QED
    BY <1>3, <1>10, <2>2 DEF CreateRepayment
<1>11. CASE Disburse(w)
  <2>1. \A ref \in {leg[1] : leg \in Legs(call[w].id)} : ref # AccrualRef(v, k)
    BY DEF Legs, AccrualRef, RoiWalletRef, PrincipalRef
  <2>2. Same
    BY <1>1, <1>11, <2>1 DEF Disburse
  <2> QED
    BY <1>3, <1>11, <2>2 DEF Disburse
<1>12. CASE RepaymentStep(w) /\ ~AccrueRoi(w)
  BY <1>8, <1>9, <1>10, <1>11, <1>12 DEF RepaymentStep
<1>13. CASE RepaymentNext(w) /\ ~AccrueRoi(w)
  BY <1>4, <1>5, <1>6, <1>12, <1>13 DEF RepaymentNext
<1> QED
  BY <1>7, <1>9, <1>13 DEF Defaulting

(* An accrual adds one entry to one row and is no longer accruing it.        *)
LEMMA AccrueCounts ==
  ASSUME RepaymentsInv, IsFiniteSet(Workers), NEW w \in Workers, AccrueRoi(w),
         NEW v \in InvestmentIds, NEW k \in 1 .. MaxPeriods, AccrualAt(v, k)
  PROVE  AccrualAt(v, k)'
<1>1. /\ call \in [Workers -> Calls]
      /\ journal \in [References -> Seq(Entry)]
      /\ AccrualRef(v, k) \in References
  BY RepaymentRefs DEF RepaymentsInv, RepaymentRowsInv, RepaymentTypeOK, TypeOK, StoreTypeOK
<1>2. call' = [call EXCEPT ![w] = Idle]
  BY DEF AccrueRoi, End
<1>3. Accruing(v, k)' = Accruing(v, k) \ {w}
  BY <1>1, <1>2 DEF Accruing, Idle
<1>4. /\ Accruing(v, k) \in SUBSET Workers /\ IsFiniteSet(Accruing(v, k))
      /\ Cardinality(Accruing(v, k)) \in Nat
  BY FS_Subset, FS_CardinalityType DEF Accruing
<1>5. Cardinality(Workers) \in Nat
  BY FS_CardinalityType
<1> DEFINE s == journal[AccrualRef(v, k)]
           A == Accruing(v, k)
<1>6. s \in Seq(Entry) /\ Len(s) \in Nat
  BY <1>1
<1>7. CASE w \in A
  <2>1. call[w].id = v /\ call[w].period = k
    BY <1>7 DEF Accruing
  <2> DEFINE e == [investor |-> investments[v].investor, amount |-> schedules[v][k].roiDue]
  <2>2. journal'[AccrualRef(v, k)] = Append(s, e)
    BY <1>1, <2>1 DEF AccrueRoi, PostJournal, Posted
  <2>3. Len(journal'[AccrualRef(v, k)]) = Len(s) + 1
    <3> HIDE DEF s, e
    <3> QED
      BY <1>6, <2>2
  <2>4. Cardinality(A \ {w}) = Cardinality(A) - 1
    BY <1>4, <1>7, FS_RemoveElement
  <2>5. Cardinality(A) <= Cardinality(Workers)
    BY <1>4, FS_Subset
  <2>6. Len(s) > 0 => Len(s) + Cardinality(A) <= Cardinality(Workers)
    BY DEF AccrualAt
  <2> HIDE DEF s, A
  <2>7. Len(s) + 1 + (Cardinality(A) - 1) <= Cardinality(Workers)
    <3>1. Cardinality(A) \in Nat
      BY <1>4 DEF A
    <3> QED
      BY <1>5, <1>6, <2>5, <2>6, <3>1
  <2> QED
    BY <1>3, <1>4, <1>6, <2>3, <2>4, <2>7 DEF AccrualAt, A
<1>8. CASE w \notin A
  <2>1. Accruing(v, k)' = Accruing(v, k)
    BY <1>3, <1>8
  <2>2. AccrualRef(v, k) # AccrualRef(call[w].id, call[w].period)
    BY <1>8 DEF Accruing, AccrueRoi, AccrualRef
  <2>3. journal'[AccrualRef(v, k)] = journal[AccrualRef(v, k)]
    BY <1>1, <2>2 DEF AccrueRoi, PostJournal, Posted
  <2> QED
    BY <2>1, <2>3 DEF AccrualAt
<1> QED
  BY <1>7, <1>8

LEMMA AccrualStep ==
  ASSUME IsFiniteSet(Workers), RepaymentsInv, AccrualInv, [RunNext]_reconciliationVars
  PROVE  AccrualInv'
<1> SUFFICES ASSUME NEW v \in InvestmentIds, NEW k \in 1 .. MaxPeriods PROVE AccrualAt(v, k)'
  BY DEF AccrualInv
<1>1. AccrualAt(v, k)
  BY DEF AccrualInv
<1>2. CASE UNCHANGED repaymentVars
  BY <1>1, <1>2 DEF repaymentVars, investmentVars, storeVars, AccrualAt, Accruing
<1>3. ASSUME NEW w \in Workers, AccrueRoi(w) PROVE AccrualAt(v, k)'
  BY <1>1, <1>3, AccrueCounts
<1>4. ASSUME NEW w \in Workers,
             \/ RepaymentNext(w) /\ ~AccrueRoi(w)
             \/ Defaulting(w)
             \/ Abort(w) /\ UNCHANGED <<investmentTables, repayments>>
      PROVE  AccrualAt(v, k)'
  <2> DEFINE s == journal[AccrualRef(v, k)]
             A == Accruing(v, k)
             B == Accruing(v, k)'
  <2>1. journal'[AccrualRef(v, k)] = s /\ (RowAccrued(v, k) => B \subseteq A)
    BY <1>4, OthersDoNotAccrue
  <2>2. Len(s) \in Nat /\ (Len(s) > 0 <=> RowAccrued(v, k))
    BY AccrualEntries
  <2>3. A \in SUBSET Workers /\ IsFiniteSet(A) /\ Cardinality(A) \in Nat
    BY FS_Subset, FS_CardinalityType DEF Accruing
  <2>4. Len(s) > 0 => Len(s) + Cardinality(A) <= Cardinality(Workers)
    BY <1>1 DEF AccrualAt
  <2>5. Cardinality(Workers) \in Nat
    BY FS_CardinalityType
  <2> HIDE DEF s, A, B
  <2>6. RowAccrued(v, k) => Cardinality(B) \in Nat /\ Cardinality(B) <= Cardinality(A)
    BY <2>1, <2>3, FS_Subset, FS_CardinalityType
  <2>7. Len(s) > 0 => Len(s) + Cardinality(B) <= Cardinality(Workers)
    BY <2>2, <2>3, <2>4, <2>5, <2>6
  <2> QED
    BY <2>1, <2>7 DEF AccrualAt, B, s
<1>5. Reconciling => UNCHANGED repaymentVars
  BY DEF Reconciling, NothingCommitted, StartReconciliation, ReadLedger, ListRows, ReadSubLedger,
         CreateRow, CreateItem, AbortReconciliation
<1> QED
  BY <1>2, <1>3, <1>4, <1>5 DEF RunNext, RepayNext, reconciliationVars

(* Of any number of requests to accrue a row, no more post its ROI than are   *)
(* served at a time: a request that begins once the row is accrued is turned *)
(* away, and only those that had read it before are not (accrueRoi,          *)
(* repayments.service.ts:28-73).                                             *)
THEOREM AccrualsAreBounded ==
  ASSUME IsFiniteSet(Workers) PROVE RunSpec => []AccrualsBounded
<1>1. RunInit => AccrualInv
  <2> SUFFICES ASSUME RunInit, NEW v \in InvestmentIds, NEW k \in 1 .. MaxPeriods
               PROVE  AccrualAt(v, k)
    BY DEF AccrualInv
  <2>1. RepaymentsInv
    BY InitInv DEF RunInit
  <2>2. \A n \in DOMAIN schedules[v] : ~schedules[v][n].accrued
    BY DEF RunInit, RepaymentInit, InvestedBefore, NewSchedule, NewRow
  <2> QED
    BY <2>1, <2>2, AccrualEntries DEF AccrualAt, RowAccrued
<1>2. RepaymentsInv /\ AccrualInv /\ [RunNext]_reconciliationVars => AccrualInv'
  BY AccrualStep
<1>3. RepaymentsInv /\ AccrualInv => AccrualsBounded
  <2> SUFFICES ASSUME RepaymentsInv, AccrualInv,
                      NEW v \in InvestmentIds, NEW k \in 1 .. MaxPeriods
               PROVE  Len(journal[AccrualRef(v, k)]) <= Cardinality(Workers)
    BY DEF AccrualsBounded
  <2> DEFINE n == Len(journal[AccrualRef(v, k)])
  <2>1. n \in Nat
    BY AccrualEntries
  <2>2. Cardinality(Accruing(v, k)) \in Nat /\ Cardinality(Workers) \in Nat
    BY FS_Subset, FS_CardinalityType DEF Accruing
  <2>3. n > 0 => n + Cardinality(Accruing(v, k)) <= Cardinality(Workers)
    BY DEF AccrualInv, AccrualAt
  <2> HIDE DEF n
  <2>4. n <= Cardinality(Workers)
    BY <2>1, <2>2, <2>3
  <2> QED
    BY <2>4 DEF n
<1> QED
  BY <1>1, <1>2, <1>3, InvHolds, PTL DEF RunSpec
=============================================================================
