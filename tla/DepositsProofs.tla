--------------------------- MODULE DepositsProofs ---------------------------
(***************************************************************************)
(* Proofs about the deposit workflow, for any number of requests served at *)
(* a time, users, deposits and amounts.  DepositsInv is the inductive      *)
(* invariant; the theorems follow from it.                                 *)
(***************************************************************************)
EXTENDS DepositsRefinement, StoreProofs

(* The reference of a deposit is one of the references.                     *)
LEMMA DepositRefs ==
  /\ \A d \in DepositIds : DepositRef(d) \in References
  /\ \A d, e \in DepositIds : DepositRef(d) = DepositRef(e) => d = e
  BY DEF DepositRef, References

LEMMA DecisionIsACall ==
  ASSUME NEW step \in Steps, NEW u \in Users, NEW d \in DepositIds
  PROVE  [Idle EXCEPT !.next = step, !.by = u, !.id = d] \in Calls
<1>1. u \in Users \cup {None} /\ d \in DocumentIds \cup {None}
  BY DEF DocumentIds
<1> QED
  BY <1>1, IdleIsACall DEF Calls

LEMMA RequestIsACall ==
  ASSUME NEW u \in Users, NEW i \in Investors, NEW p \in PaymentReferences, NEW a \in Amounts
  PROVE  [Idle EXCEPT !.next = "createDeposit", !.by = u, !.investor = i,
                      !.key = p, !.amount = a] \in Calls
<1>1. "createDeposit" \in Steps /\ a \in Nat
  BY StoreAssumption DEF Steps, StoreAssumption
<1>2. u \in Users \cup {None} /\ i \in Investors \cup {None}
  OBVIOUS
<1>3. p \in PaymentReferences \cup Opportunities \cup {None}
  OBVIOUS
<1> QED
  BY <1>1, <1>2, <1>3, IdleIsACall DEF Calls

(* The deposit tables start empty.                                          *)
LEMMA InitInv == Init => DepositsInv
<1> SUFFICES ASSUME Init PROVE DepositsInv
  OBVIOUS
<1>1. TypeOK
  BY IdleIsACall DEF Init, StoreInit, DepositTablesInit, TypeOK, StoreTypeOK, NoTxn, Txn,
       TxnStatus, NoDeposit, DepositRow
<1>2. RowsWellFormed
  BY DepositRefs DEF Init, StoreInit, DepositTablesInit, RowsWellFormed, Uncredited, NoDeposit
<1>3. CallsWellFormed
  BY DEF Init, StoreInit, CallsWellFormed, CallWellFormed, Idle
<1> QED
  BY <1>1, <1>2, <1>3 DEF DepositsInv

-----------------------------------------------------------------------------
(* A step that only moves a request on keeps the invariant, if where it     *)
(* moves to is well formed; Idle always is.                                 *)
LEMMA CallMoves ==
  ASSUME DepositsInv, NEW w \in Workers, NEW c \in Calls, CallWellFormed(c),
         call' = [call EXCEPT ![w] = c],
         UNCHANGED <<investorStatus, walletTxn, journal, deposits>>
  PROVE  DepositsInv'
<1>1. TypeOK'
  BY DEF DepositsInv, TypeOK, StoreTypeOK
<1>2. RowsWellFormed'
  BY DEF DepositsInv, RowsWellFormed, Uncredited, CreditedByChecker
<1>3. CallsWellFormed'
  <2> SUFFICES ASSUME NEW x \in Workers PROVE CallWellFormed(call[x])'
    BY DEF CallsWellFormed
  <2>1. call'[x] = IF x = w THEN c ELSE call[x]
    BY DEF DepositsInv, TypeOK, StoreTypeOK
  <2>2. CallWellFormed(call[x])
    BY DEF DepositsInv, CallsWellFormed
  <2> QED
    BY <2>1, <2>2 DEF CallWellFormed
<1> QED
  BY <1>1, <1>2, <1>3 DEF DepositsInv

LEMMA IdleWellFormed == Idle \in Calls /\ CallWellFormed(Idle)
  BY IdleIsACall DEF Idle, CallWellFormed

LEMMA RequestKeepsInv ==
  ASSUME DepositsInv, NEW w \in Workers, NEW u \in Users, NEW i \in Investors,
         NEW p \in PaymentReferences, NEW a \in Amounts, RequestDeposit(w, u, i, p, a)
  PROVE  DepositsInv'
<1> DEFINE c == [Idle EXCEPT !.next = "createDeposit", !.by = u, !.investor = i,
                             !.key = p, !.amount = a]
<1>1. c \in Calls
  BY RequestIsACall
<1>2. CallWellFormed(c)
  BY DEF CallWellFormed, Idle
<1>3. CASE UNCHANGED call
  BY <1>3 DEF RequestDeposit, DepositsInv, TypeOK, StoreTypeOK, RowsWellFormed, Uncredited,
       CreditedByChecker, CallsWellFormed, CallWellFormed
<1>4. CASE call' = [call EXCEPT ![w] = c]
  BY <1>1, <1>2, <1>4, CallMoves DEF RequestDeposit
<1> QED
  BY <1>3, <1>4 DEF RequestDeposit, Begin

LEMMA StartApproveKeepsInv ==
  ASSUME DepositsInv, NEW w \in Workers, NEW u \in Users, NEW d \in DepositIds,
         StartApproveDeposit(w, u, d)
  PROVE  DepositsInv'
<1> DEFINE c == [Idle EXCEPT !.next = "approveDeposit", !.by = u, !.id = d]
<1>1. c \in Calls
  BY DecisionIsACall DEF Steps
<1>2. CallWellFormed(c)
  BY DEF CallWellFormed, Idle, StartApproveDeposit, MayApproveDeposit, NoDeposit
<1> QED
  BY <1>1, <1>2, CallMoves DEF StartApproveDeposit, Begin

LEMMA StartRejectKeepsInv ==
  ASSUME DepositsInv, NEW w \in Workers, NEW u \in Users, NEW d \in DepositIds,
         StartRejectDeposit(w, u, d)
  PROVE  DepositsInv'
<1> DEFINE c == [Idle EXCEPT !.next = "rejectDeposit", !.by = u, !.id = d]
<1>1. c \in Calls
  BY DecisionIsACall DEF Steps
<1>2. CallWellFormed(c)
  BY DEF CallWellFormed, Idle, StartRejectDeposit, MayRejectDeposit, NoDeposit
<1> QED
  BY <1>1, <1>2, CallMoves DEF StartRejectDeposit, Begin

(* The requests that end without a write: a raced reference, a failed       *)
(* approval, an aborted handler.                                            *)
LEMMA EndsKeepInv ==
  ASSUME DepositsInv, NEW w \in Workers,
         \/ ReturnRacedDeposit(w)
         \/ ApproveDepositFails(w)
         \/ Abort(w) /\ UNCHANGED deposits
  PROVE  DepositsInv'
<1>1. /\ call' = [call EXCEPT ![w] = Idle]
      /\ UNCHANGED <<investorStatus, walletTxn, journal, deposits>>
  BY DEF ReturnRacedDeposit, ApproveDepositFails, Abort, End
<1> QED
  BY <1>1, IdleWellFormed, CallMoves
-----------------------------------------------------------------------------
(* The three commits.  Creating a row takes an id no request in flight      *)
(* names, since those name rows that exist.                                 *)
LEMMA CreateKeepsInv ==
  ASSUME DepositsInv, NEW w \in Workers, NEW d \in DepositIds, CreateDeposit(w, d)
  PROVE  DepositsInv'
<1> DEFINE row == [status |-> "PENDING", investor |-> call[w].investor,
                   amount |-> Column(call[w].amount), paymentReference |-> call[w].key,
                   requestedBy |-> call[w].by, approvedBy |-> None]
<1>1. /\ deposits[d] = NoDeposit
      /\ deposits' = [deposits EXCEPT ![d] = row]
      /\ call' = [call EXCEPT ![w] = Idle]
      /\ UNCHANGED <<investorStatus, walletTxn, journal>>
  BY DEF CreateDeposit, MayInsert, End
<1>2. /\ call[w] \in Calls
      /\ call[w].investor \in Investors
      /\ call[w].by \in Users
      /\ call[w].key \in PaymentReferences
  BY DEF CreateDeposit, DepositsInv, TypeOK, StoreTypeOK, CallsWellFormed, CallWellFormed
<1>3. row \in DepositRow
  <2>1. Column(call[w].amount) \in Nat
    BY <1>2, ColumnNat DEF Calls
  <2> QED
    BY <1>2, <2>1 DEF DepositRow
<1>4. TypeOK'
  BY <1>1, <1>3, IdleIsACall DEF DepositsInv, TypeOK, StoreTypeOK
<1>5. RowsWellFormed'
  <2> SUFFICES ASSUME NEW e \in DepositIds
               PROVE  /\ deposits'[e] # NoDeposit => Owned(deposits'[e])
                      /\ deposits'[e].status = "APPROVED" => CreditedByChecker(e)'
                      /\ Uncredited(e)' \/ CreditedByChecker(e)'
    BY DEF RowsWellFormed
  <2>1. /\ deposits[e] # NoDeposit => Owned(deposits[e])
        /\ deposits[e].status = "APPROVED" => CreditedByChecker(e)
        /\ Uncredited(e) \/ CreditedByChecker(e)
    BY DEF DepositsInv, RowsWellFormed
  <2>2. CASE e = d
    <3>1. Uncredited(e)
      BY <1>1, <2>1, <2>2 DEF CreditedByChecker, NoDeposit
    <3>2. deposits'[e] = row
      BY <1>1, <2>2 DEF DepositsInv, TypeOK
    <3> QED
      BY <1>1, <1>2, <3>1, <3>2 DEF Uncredited, Owned
  <2>3. CASE e # d
    <3>1. deposits'[e] = deposits[e]
      BY <1>1, <2>3 DEF DepositsInv, TypeOK
    <3> QED
      BY <1>1, <2>1, <3>1 DEF Uncredited, CreditedByChecker
  <2> QED
    BY <2>2, <2>3
<1>6. CallsWellFormed'
  <2> SUFFICES ASSUME NEW x \in Workers PROVE CallWellFormed(call[x])'
    BY DEF CallsWellFormed
  <2>1. call'[x] = IF x = w THEN Idle ELSE call[x]
    BY <1>1 DEF DepositsInv, TypeOK, StoreTypeOK
  <2>2. CallWellFormed(call[x])
    BY DEF DepositsInv, CallsWellFormed
  <2>3. \A e \in DepositIds : deposits[e] # NoDeposit => deposits'[e] = deposits[e]
    BY <1>1 DEF DepositsInv, TypeOK
  <2>4. CASE x = w
    BY <2>1, <2>4 DEF CallWellFormed, Idle
  <2>5. CASE x # w
    BY <2>1, <2>2, <2>3, <2>5 DEF CallWellFormed
  <2> QED
    BY <2>4, <2>5
<1> QED
  BY <1>4, <1>5, <1>6 DEF DepositsInv

(* A posting extends the entries of one reference, and those of no other.   *)
LEMMA PostedOnce ==
  ASSUME StoreTypeOK, NEW ref \in References, NEW i \in Investors, NEW a \in Nat,
         PostJournal(ref, i, a), CreateTxn(ref, i, a, "POSTED")
  PROVE  /\ journal' \in [References -> Seq(Entry)]
         /\ walletTxn' \in [References -> Txn]
         /\ journal'[ref] = Append(journal[ref], [investor |-> i, amount |-> a])
         /\ walletTxn'[ref] = [status |-> "POSTED", investor |-> i, amount |-> a]
         /\ \A other \in References \ {ref} :
              journal'[other] = journal[other] /\ walletTxn'[other] = walletTxn[other]
<1>1. [investor |-> i, amount |-> a] \in Entry
  BY DEF Entry
<1>2. [status |-> "POSTED", investor |-> i, amount |-> a] \in Txn
  BY DEF Txn, TxnStatus
<1>3. Append(journal[ref], [investor |-> i, amount |-> a]) \in Seq(Entry)
  BY <1>1 DEF StoreTypeOK
<1> QED
  BY <1>2, <1>3 DEF StoreTypeOK, PostJournal, Posted, CreateTxn, WithTxn

LEMMA ApproveKeepsInv ==
  ASSUME DepositsInv, NEW w \in Workers, ApproveDeposit(w)
  PROVE  DepositsInv'
<1>a. /\ call[w].id \in DepositIds
      /\ call[w].by \in Users
      /\ call[w].by # deposits[call[w].id].requestedBy
      /\ deposits[call[w].id] # NoDeposit
  BY DEF ApproveDeposit, DepositsInv, CallsWellFormed, CallWellFormed
<1>b. PICK d \in DepositIds, u \in Users : d = call[w].id /\ u = call[w].by
  BY <1>a
<1>1. /\ walletTxn[DepositRef(d)] = NoTxn
      /\ PostJournal(DepositRef(d), deposits[d].investor, deposits[d].amount)
      /\ CreateTxn(DepositRef(d), deposits[d].investor, deposits[d].amount, "POSTED")
      /\ deposits' = [deposits EXCEPT ![d].status = "APPROVED", ![d].approvedBy = u]
      /\ call' = [call EXCEPT ![w] = Idle]
      /\ UNCHANGED investorStatus
  BY <1>b DEF ApproveDeposit, CanCredit, End
<1>2. u # deposits[d].requestedBy /\ deposits[d] # NoDeposit
  BY <1>a, <1>b
<1>3. deposits[d] \in DepositRow /\ deposits[d].investor \in Investors
  BY <1>2 DEF DepositsInv, TypeOK, RowsWellFormed, Owned
<1>4. /\ journal' \in [References -> Seq(Entry)]
      /\ walletTxn' \in [References -> Txn]
      /\ journal'[DepositRef(d)] = Append(journal[DepositRef(d)],
           [investor |-> deposits[d].investor, amount |-> deposits[d].amount])
      /\ walletTxn'[DepositRef(d)].status = "POSTED"
      /\ \A other \in References \ {DepositRef(d)} :
           journal'[other] = journal[other] /\ walletTxn'[other] = walletTxn[other]
  <2>1. deposits[d].amount \in Nat
    BY <1>3 DEF DepositRow
  <2>2. StoreTypeOK /\ DepositRef(d) \in References
    BY DepositRefs DEF DepositsInv, TypeOK
  <2>3. walletTxn'[DepositRef(d)] =
          [status |-> "POSTED", investor |-> deposits[d].investor, amount |-> deposits[d].amount]
    BY <1>1, <1>3, <2>1, <2>2, PostedOnce
  <2> QED
    BY <1>1, <1>3, <2>1, <2>2, <2>3, PostedOnce
<1>5. /\ deposits' \in [DepositIds -> DepositRow]
      /\ deposits'[d] = [deposits[d] EXCEPT !.status = "APPROVED", !.approvedBy = u]
      /\ \A e \in DepositIds \ {d} : deposits'[e] = deposits[e]
  <2>1. [deposits[d] EXCEPT !.status = "APPROVED", !.approvedBy = u] \in DepositRow
    BY <1>2, <1>3 DEF DepositRow
  <2> QED
    BY <1>1, <1>2, <2>1 DEF DepositsInv, TypeOK
<1>6. TypeOK'
  BY <1>1, <1>4, <1>5, IdleIsACall DEF DepositsInv, TypeOK, StoreTypeOK
<1>7. CreditedByChecker(d)'
  <2>1. journal[DepositRef(d)] = <<>>
    <3>1. walletTxn[DepositRef(d)].status # "POSTED"
      BY <1>1 DEF NoTxn
    <3> QED
      BY <1>2, <3>1 DEF DepositsInv, RowsWellFormed, Uncredited, CreditedByChecker
  <2>2. Len(journal'[DepositRef(d)]) = 1
    BY <1>4, <2>1
  <2>3. deposits'[d].approvedBy = u /\ deposits'[d].requestedBy = deposits[d].requestedBy
    BY <1>3, <1>5 DEF DepositRow
  <2> QED
    BY <1>2, <1>4, <2>2, <2>3, NoneIsNobody DEF CreditedByChecker
<1>8. RowsWellFormed'
  <2> SUFFICES ASSUME NEW e \in DepositIds
               PROVE  /\ deposits'[e] # NoDeposit => Owned(deposits'[e])
                      /\ deposits'[e].status = "APPROVED" => CreditedByChecker(e)'
                      /\ Uncredited(e)' \/ CreditedByChecker(e)'
    BY DEF RowsWellFormed
  <2>1. CASE e = d
    <3>1. /\ deposits'[e].investor = deposits[d].investor
          /\ deposits'[e].requestedBy = deposits[d].requestedBy
      BY <1>3, <1>5, <2>1 DEF DepositRow
    <3>2. Owned(deposits'[e])
      BY <1>2, <3>1 DEF DepositsInv, RowsWellFormed, Owned
    <3> QED
      BY <1>7, <2>1, <3>2
  <2>2. CASE e # d
    <3>1. DepositRef(e) \in References \ {DepositRef(d)}
      BY <1>2, <2>2, DepositRefs
    <3>2. /\ deposits[e] # NoDeposit => Owned(deposits[e])
          /\ deposits[e].status = "APPROVED" => CreditedByChecker(e)
          /\ Uncredited(e) \/ CreditedByChecker(e)
      BY DEF DepositsInv, RowsWellFormed
    <3> QED
      BY <1>4, <1>5, <2>2, <3>1, <3>2 DEF Uncredited, CreditedByChecker
  <2> QED
    BY <2>1, <2>2
<1>9. CallsWellFormed'
  <2> SUFFICES ASSUME NEW x \in Workers PROVE CallWellFormed(call[x])'
    BY DEF CallsWellFormed
  <2>1. call'[x] = IF x = w THEN Idle ELSE call[x]
    BY <1>1 DEF DepositsInv, TypeOK, StoreTypeOK
  <2>2. CallWellFormed(call[x])
    BY DEF DepositsInv, CallsWellFormed
  <2>3. \A e \in DepositIds :
          /\ deposits'[e].requestedBy = deposits[e].requestedBy
          /\ deposits[e] # NoDeposit => deposits'[e] # NoDeposit
    <3>1. /\ deposits'[d].requestedBy = deposits[d].requestedBy
          /\ deposits'[d].status = "APPROVED"
      BY <1>3, <1>5 DEF DepositRow
    <3>2. deposits'[d] # NoDeposit
      BY <3>1 DEF NoDeposit
    <3> QED
      BY <1>5, <3>1, <3>2
  <2>4. CASE x = w
    BY <2>1, <2>4 DEF CallWellFormed, Idle
  <2>5. CASE x # w
    BY <2>1, <2>2, <2>3, <2>5 DEF CallWellFormed
  <2> QED
    BY <2>4, <2>5
<1> QED
  BY <1>6, <1>8, <1>9 DEF DepositsInv

LEMMA RejectKeepsInv ==
  ASSUME DepositsInv, NEW w \in Workers, RejectDeposit(w)
  PROVE  DepositsInv'
<1>a. call[w].id \in DepositIds /\ deposits[call[w].id] # NoDeposit
  BY DEF RejectDeposit, DepositsInv, CallsWellFormed, CallWellFormed
<1>b. PICK d \in DepositIds : d = call[w].id
  BY <1>a
<1>1. /\ deposits' = [deposits EXCEPT ![d].status = "REJECTED"]
      /\ call' = [call EXCEPT ![w] = Idle]
      /\ UNCHANGED <<investorStatus, walletTxn, journal>>
  BY <1>b DEF RejectDeposit, End
<1>2. deposits[d] # NoDeposit
  BY <1>a, <1>b
<1>3. deposits[d] \in DepositRow
  BY <1>2 DEF DepositsInv, TypeOK
<1>4. /\ deposits' \in [DepositIds -> DepositRow]
      /\ deposits'[d] = [deposits[d] EXCEPT !.status = "REJECTED"]
      /\ \A e \in DepositIds \ {d} : deposits'[e] = deposits[e]
  <2>1. [deposits[d] EXCEPT !.status = "REJECTED"] \in DepositRow
    BY <1>3 DEF DepositRow
  <2> QED
    BY <1>1, <1>2, <2>1 DEF DepositsInv, TypeOK
<1>5. TypeOK'
  BY <1>1, <1>4, IdleIsACall DEF DepositsInv, TypeOK, StoreTypeOK
<1>6. \A e \in DepositIds :
        /\ deposits'[e].requestedBy = deposits[e].requestedBy
        /\ deposits'[e].approvedBy = deposits[e].approvedBy
        /\ deposits'[e].investor = deposits[e].investor
        /\ deposits'[e].status = "APPROVED" => deposits[e].status = "APPROVED"
        /\ deposits[e] # NoDeposit => deposits'[e] # NoDeposit
        /\ deposits'[e] # NoDeposit => deposits[e] # NoDeposit
  BY <1>2, <1>3, <1>4 DEF DepositRow, NoDeposit
<1>7. RowsWellFormed'
  BY <1>1, <1>6 DEF DepositsInv, RowsWellFormed, Uncredited, CreditedByChecker, Owned
<1>8. CallsWellFormed'
  <2> SUFFICES ASSUME NEW x \in Workers PROVE CallWellFormed(call[x])'
    BY DEF CallsWellFormed
  <2>1. call'[x] = IF x = w THEN Idle ELSE call[x]
    BY <1>1 DEF DepositsInv, TypeOK, StoreTypeOK
  <2>2. CallWellFormed(call[x])
    BY DEF DepositsInv, CallsWellFormed
  <2>3. CASE x = w
    BY <2>1, <2>3 DEF CallWellFormed, Idle
  <2>4. CASE x # w
    BY <1>6, <2>1, <2>2, <2>4 DEF CallWellFormed
  <2> QED
    BY <2>3, <2>4
<1> QED
  BY <1>5, <1>7, <1>8 DEF DepositsInv

-----------------------------------------------------------------------------
(* Every step keeps the invariant.                                          *)
LEMMA StepInv == DepositsInv /\ [Next]_depositVars => DepositsInv'
<1> SUFFICES ASSUME DepositsInv, [Next]_depositVars PROVE DepositsInv'
  OBVIOUS
<1>1. CASE UNCHANGED depositVars
  BY <1>1 DEF depositVars, storeVars, DepositsInv, TypeOK, StoreTypeOK, RowsWellFormed,
       Uncredited, CreditedByChecker, CallsWellFormed, CallWellFormed
<1>2. CASE Next
  <2>1. PICK w \in Workers : DepositNext(w) \/ (Abort(w) /\ UNCHANGED deposits)
    BY <1>2 DEF Next
  <2>2. ASSUME NEW u \in Users, NEW i \in Investors, NEW p \in PaymentReferences,
               NEW a \in Amounts, RequestDeposit(w, u, i, p, a)
        PROVE  DepositsInv'
    BY <2>2, RequestKeepsInv
  <2>3. ASSUME NEW u \in Users, NEW d \in DepositIds, StartApproveDeposit(w, u, d)
        PROVE  DepositsInv'
    BY <2>3, StartApproveKeepsInv
  <2>4. ASSUME NEW u \in Users, NEW d \in DepositIds, StartRejectDeposit(w, u, d)
        PROVE  DepositsInv'
    BY <2>4, StartRejectKeepsInv
  <2>5. CASE \/ ReturnRacedDeposit(w)
             \/ ApproveDepositFails(w)
             \/ Abort(w) /\ UNCHANGED deposits
    BY <2>5, EndsKeepInv
  <2>6. ASSUME NEW d \in DepositIds, CreateDeposit(w, d)
        PROVE  DepositsInv'
    BY <2>6, CreateKeepsInv
  <2>7. CASE ApproveDeposit(w)
    BY <2>7, ApproveKeepsInv
  <2>8. CASE RejectDeposit(w)
    BY <2>8, RejectKeepsInv
  <2> QED
    BY <2>1, <2>2, <2>3, <2>4, <2>5, <2>6, <2>7, <2>8 DEF DepositNext, DepositStep
<1> QED
  BY <1>1, <1>2

(* The inductive invariant holds throughout: rows are uncredited or credited *)
(* once by a checker, and a request in flight still names a row that exists  *)
(* and, if it approves, a row some other user made.                          *)
THEOREM InvHolds == Spec => []DepositsInv
<1> QED
  BY InitInv, StepInv, PTL DEF Spec

(* Type correctness: the columns, the journal and the requests in flight keep*)
(* the types the schema and the handlers give them, overflow of DECIMAL aside.*)
THEOREM TypeCorrect == Spec => []TypeOK
<1>1. DepositsInv => TypeOK
  BY DEF DepositsInv
<1> QED
  BY <1>1, InvHolds, PTL

(* However many requests overlap, and however often an approval is retried,  *)
(* fails or is cut short, a deposit is posted and credited once at most.     *)
THEOREM SingleCredit == Spec => []CreditedAtMostOnce
<1>1. DepositsInv => CreditedAtMostOnce
  <2> SUFFICES ASSUME DepositsInv, NEW d \in DepositIds
               PROVE  Len(journal[DepositRef(d)]) <= 1
    BY DEF CreditedAtMostOnce
  <2>1. CASE Uncredited(d)
    <3>1. journal[DepositRef(d)] = <<>>
      BY <2>1 DEF Uncredited
    <3> QED
      BY <3>1
  <2>2. CASE CreditedByChecker(d)
    BY <2>2 DEF CreditedByChecker
  <2> QED
    BY <2>1, <2>2 DEF DepositsInv, RowsWellFormed
<1> QED
  BY <1>1, InvHolds, PTL

(* Money is credited only on the decision of a user who did not request it:  *)
(* the check reads the row before the transaction, and is still right when   *)
(* it commits because the maker of a row never changes.                      *)
THEOREM MakerIsNotChecker == Spec => []CreditNeedsChecker
<1>1. DepositsInv => CreditNeedsChecker
  BY DEF DepositsInv, RowsWellFormed, CreditNeedsChecker, Credited, Uncredited, CreditedByChecker
<1> QED
  BY <1>1, InvHolds, PTL

(* A deposit with status APPROVED has its money in the ledger and the wallet:*)
(* the status, the journal and the wallet transaction commit together.       *)
THEOREM ApprovalIsWhole == Spec => []ApprovedIsCredited
<1>1. DepositsInv => ApprovedIsCredited
  <2> SUFFICES ASSUME DepositsInv, NEW d \in DepositIds, deposits[d].status = "APPROVED"
               PROVE  Credited(d) /\ walletTxn[DepositRef(d)].status = "POSTED"
    BY DEF ApprovedIsCredited
  <2>1. CreditedByChecker(d)
    BY DEF DepositsInv, RowsWellFormed
  <2>2. journal[DepositRef(d)] # <<>>
    <3>1. Len(journal[DepositRef(d)]) = 1
      BY <2>1 DEF CreditedByChecker
    <3> QED
      BY <3>1
  <2> QED
    BY <2>1, <2>2 DEF Credited, CreditedByChecker
<1> QED
  BY <1>1, InvHolds, PTL
-----------------------------------------------------------------------------
(* The refinement.  Under the mapping, CreateDeposit is the promise's        *)
(* Request, ApproveDeposit its Credit, and every other step stutters.        *)
LEMMA InitMaps == Init => Promise!Init
<1> SUFFICES ASSUME Init PROVE Promise!Init
  OBVIOUS
<1>1. \A d \in DepositIds : /\ deposits[d].requestedBy = None
                            /\ deposits[d].approvedBy = None
                            /\ journal[DepositRef(d)] = <<>>
  BY DepositRefs DEF Init, StoreInit, DepositTablesInit, NoDeposit
<1>2. \A d \in DepositIds : Len(journal[DepositRef(d)]) = 0
  BY <1>1
<1> QED
  BY <1>1, <1>2 DEF Promise!Init

(* What a step must leave alone to be a stutter of the promise.              *)
LEMMA Stutters ==
  ASSUME UNCHANGED journal,
         \A d \in DepositIds : /\ deposits'[d].requestedBy = deposits[d].requestedBy
                               /\ deposits'[d].approvedBy = deposits[d].approvedBy
  PROVE  UNCHANGED Promise!vars
  BY DEF Promise!vars

LEMMA CreateMaps ==
  ASSUME DepositsInv, NEW w \in Workers, NEW d \in DepositIds, CreateDeposit(w, d)
  PROVE  Promise!Next
<1>1. PICK u \in Users : u = call[w].by
  BY DEF CreateDeposit, DepositsInv, CallsWellFormed, CallWellFormed
<1>2. /\ deposits[d].requestedBy = None /\ deposits[d].approvedBy = None
      /\ deposits'[d].requestedBy = u /\ deposits'[d].approvedBy = None
      /\ \A e \in DepositIds \ {d} : deposits'[e] = deposits[e]
      /\ UNCHANGED journal
  BY <1>1 DEF CreateDeposit, MayInsert, NoDeposit, DepositsInv, TypeOK
<1>3. Promise!Request(d, u)
  BY <1>2 DEF Promise!Request
<1> QED
  BY <1>3 DEF Promise!Next

LEMMA ApproveMaps ==
  ASSUME DepositsInv, NEW w \in Workers, ApproveDeposit(w)
  PROVE  Promise!Next
<1>1. /\ call[w].id \in DepositIds
      /\ call[w].by \in Users
      /\ call[w].by # deposits[call[w].id].requestedBy
  BY DEF ApproveDeposit, DepositsInv, CallsWellFormed, CallWellFormed
<1>2. PICK d \in DepositIds, u \in Users : d = call[w].id /\ u = call[w].by
  BY <1>1
<1>3. /\ walletTxn[DepositRef(d)] = NoTxn
      /\ PostJournal(DepositRef(d), deposits[d].investor, deposits[d].amount)
      /\ deposits' = [deposits EXCEPT ![d].status = "APPROVED", ![d].approvedBy = u]
  BY <1>2 DEF ApproveDeposit, CanCredit
<1>4. /\ deposits[d].requestedBy \notin {None, u}
      /\ \A e \in DepositIds : deposits'[e].requestedBy = deposits[e].requestedBy
      /\ deposits'[d].approvedBy = u
      /\ \A e \in DepositIds \ {d} : deposits'[e].approvedBy = deposits[e].approvedBy
  <2>1. deposits[d] \in DepositRow /\ deposits[d].requestedBy \in Users \ {u}
    BY <1>1, <1>2 DEF ApproveDeposit, DepositsInv, TypeOK, RowsWellFormed, Owned,
         CallsWellFormed, CallWellFormed
  <2>2. None \notin Users
    BY StoreAssumption DEF StoreAssumption
  <2> QED
    BY <1>3, <2>1, <2>2 DEF DepositsInv, TypeOK, DepositRow
<1>5. /\ Len(journal[DepositRef(d)]) = 0
      /\ Len(journal'[DepositRef(d)]) = 1
      /\ \A e \in DepositIds \ {d} : journal'[DepositRef(e)] = journal[DepositRef(e)]
  <2>1. journal[DepositRef(d)] = <<>>
    <3>1. walletTxn[DepositRef(d)].status # "POSTED"
      BY <1>3 DEF NoTxn
    <3> QED
      BY <3>1 DEF DepositsInv, RowsWellFormed, Uncredited, CreditedByChecker
  <2>2. journal'[DepositRef(d)] =
          <<[investor |-> deposits[d].investor, amount |-> deposits[d].amount]>>
    BY <1>3, <2>1, DepositRefs DEF PostJournal, Posted, DepositsInv, TypeOK, StoreTypeOK
  <2> QED
    BY <1>3, <2>1, <2>2, DepositRefs DEF PostJournal, Posted, DepositsInv, TypeOK, StoreTypeOK
<1>6. Promise!Credit(d, u)
  BY <1>4, <1>5 DEF Promise!Credit
<1> QED
  BY <1>6 DEF Promise!Next

LEMMA RejectStutters ==
  ASSUME DepositsInv, NEW w \in Workers, RejectDeposit(w)
  PROVE  UNCHANGED Promise!vars
<1>1. PICK d \in DepositIds : d = call[w].id
  BY DEF RejectDeposit, DepositsInv, CallsWellFormed, CallWellFormed
<1>2. deposits[d] \in DepositRow
  BY DEF DepositsInv, TypeOK
<1>3. \A e \in DepositIds : /\ deposits'[e].requestedBy = deposits[e].requestedBy
                            /\ deposits'[e].approvedBy = deposits[e].approvedBy
  BY <1>1, <1>2 DEF RejectDeposit, DepositsInv, TypeOK, DepositRow
<1> QED
  BY <1>3, Stutters DEF RejectDeposit

LEMMA StepMaps == DepositsInv /\ [Next]_depositVars => [Promise!Next]_(Promise!vars)
<1> SUFFICES ASSUME DepositsInv, [Next]_depositVars
             PROVE  Promise!Next \/ UNCHANGED Promise!vars
  OBVIOUS
<1>1. CASE UNCHANGED <<journal, deposits>>
  BY <1>1, Stutters
<1>2. ASSUME NEW w \in Workers, NEW d \in DepositIds, CreateDeposit(w, d)
      PROVE  Promise!Next
  BY <1>2, CreateMaps
<1>3. ASSUME NEW w \in Workers, ApproveDeposit(w)
      PROVE  Promise!Next
  BY <1>3, ApproveMaps
<1>4. ASSUME NEW w \in Workers, RejectDeposit(w)
      PROVE  UNCHANGED Promise!vars
  BY <1>4, RejectStutters
<1> QED
  BY <1>1, <1>2, <1>3, <1>4 DEF Next, DepositNext, DepositStep, RequestDeposit,
       StartApproveDeposit, StartRejectDeposit, ReturnRacedDeposit, ApproveDepositFails,
       Abort, depositVars, storeVars

(* The deposit workflow, requests overlapping, failing and aborting as they  *)
(* may, implements its abstract specification for every value of the         *)
(* constants.                                                                *)
THEOREM Refinement == Spec => ImplementsPromise
<1> QED
  BY InvHolds, InitMaps, StepMaps, PTL DEF Spec, ImplementsPromise, Promise!Spec
-----------------------------------------------------------------------------
(* Payment references.  Only CreateDeposit writes one, and only if no row    *)
(* has it; a decision keeps the reference of its row.                        *)
LEMMA ReferencesKept ==
  ASSUME DepositsInv, NEW w \in Workers, ApproveDeposit(w) \/ RejectDeposit(w)
  PROVE  \A e \in DepositIds : deposits'[e].paymentReference = deposits[e].paymentReference
<1>1. PICK d \in DepositIds : d = call[w].id
  BY DEF ApproveDeposit, RejectDeposit, DepositsInv, CallsWellFormed, CallWellFormed
<1>2. deposits[d] \in DepositRow
  BY DEF DepositsInv, TypeOK
<1> QED
  BY <1>1, <1>2 DEF ApproveDeposit, RejectDeposit, DepositsInv, TypeOK, DepositRow

LEMMA ReferenceStep ==
  DepositsInv /\ OneDepositPerReference /\ [Next]_depositVars => OneDepositPerReference'
<1> SUFFICES ASSUME DepositsInv, OneDepositPerReference, [Next]_depositVars
             PROVE  OneDepositPerReference'
  OBVIOUS
<1>1. CASE UNCHANGED deposits
  BY <1>1 DEF OneDepositPerReference
<1>2. ASSUME NEW w \in Workers, NEW d \in DepositIds, CreateDeposit(w, d)
      PROVE  OneDepositPerReference'
  <2>1. /\ \A e \in DepositIds : deposits[e].paymentReference # call[w].key
        /\ deposits'[d].paymentReference = call[w].key
        /\ \A e \in DepositIds \ {d} : deposits'[e] = deposits[e]
    BY <1>2 DEF CreateDeposit, MayInsert, HasDeposit, DepositsInv, TypeOK
  <2> QED
    BY <2>1 DEF OneDepositPerReference
<1>3. ASSUME NEW w \in Workers, ApproveDeposit(w) \/ RejectDeposit(w)
      PROVE  OneDepositPerReference'
  BY <1>3, ReferencesKept DEF OneDepositPerReference
<1> QED
  BY <1>1, <1>2, <1>3 DEF Next, DepositNext, DepositStep, RequestDeposit,
       StartApproveDeposit, StartRejectDeposit, ReturnRacedDeposit, ApproveDepositFails,
       Abort, depositVars

(* A payment reference names one deposit at most, however many requests      *)
(* carry it at once: the idempotency key of DepositsService.request.         *)
THEOREM ReferenceIsKey == Spec => []OneDepositPerReference
<1>1. Init => OneDepositPerReference
  BY DEF Init, DepositTablesInit, OneDepositPerReference, NoDeposit
<1> QED
  BY <1>1, InvHolds, ReferenceStep, PTL DEF Spec
-----------------------------------------------------------------------------
(* The control account agrees with the sub-ledger, for overlapping deposits  *)
(* too.  This one is about sums, and rests on the one to one correspondence  *)
(* of wallet transactions and ledger lines, which Mirrored keeps.            *)

(* Before the first request there is nothing on either side.                 *)
LEMMA InitMirrored == Init => Mirrored
  BY DEF Init, StoreInit, Mirrored, MirroredAt, NoTxn

(* The only step that writes either side writes both, where neither was.     *)
LEMMA ApproveMirrors ==
  ASSUME DepositsInv, Mirrored, NEW w \in Workers, ApproveDeposit(w)
  PROVE  Mirrored'
<1>1. PICK d \in DepositIds : d = call[w].id
  BY DEF ApproveDeposit, DepositsInv, CallsWellFormed, CallWellFormed
<1> DEFINE ref == DepositRef(d)
           entry == [investor |-> deposits[d].investor, amount |-> deposits[d].amount]
<1>2. /\ walletTxn[ref] = NoTxn
      /\ journal' = [journal EXCEPT ![ref] = Append(@, entry)]
      /\ walletTxn' = [walletTxn EXCEPT ![ref] =
           [status |-> "POSTED", investor |-> deposits[d].investor, amount |-> deposits[d].amount]]
  BY <1>1 DEF ApproveDeposit, CanCredit, PostJournal, Posted, CreateTxn, WithTxn
<1>3. journal[ref] = <<>>
  <2>1. walletTxn[ref].status # "POSTED"
    BY <1>2 DEF NoTxn
  <2>2. MirroredAt(ref)
    BY DepositRefs DEF Mirrored
  <2>3. ref[1] \in WalletKinds
    BY DEF DepositRef, WalletKinds
  <2> QED
    BY <2>1, <2>2, <2>3 DEF MirroredAt
<1>4. /\ walletTxn' = [walletTxn EXCEPT ![ref] =
           [status |-> "POSTED", investor |-> deposits[d].investor, amount |-> deposits[d].amount]]
      /\ journal'[ref] = <<entry>>
      /\ \A r \in References \ {ref} : journal'[r] = journal[r]
  BY <1>2, <1>3, DepositRefs DEF DepositsInv, TypeOK, StoreTypeOK
<1> SUFFICES ASSUME NEW r \in References PROVE MirroredAt(r)'
  BY DEF Mirrored
<1>5. CASE r = ref
  <2>1. walletTxn'[r] =
          [status |-> "POSTED", investor |-> deposits[d].investor, amount |-> deposits[d].amount]
    BY <1>4, <1>5 DEF DepositsInv, TypeOK, StoreTypeOK
  <2>2. r[1] \in WalletKinds
    BY <1>5 DEF DepositRef, WalletKinds
  <2> QED
    BY <1>4, <1>5, <2>1, <2>2 DEF MirroredAt
<1>6. CASE r # ref
  BY <1>4, <1>6 DEF Mirrored, MirroredAt, DepositsInv, TypeOK, StoreTypeOK
<1> QED
  BY <1>5, <1>6

LEMMA StepMirrors == DepositsInv /\ Mirrored /\ [Next]_depositVars => Mirrored'
<1> SUFFICES ASSUME DepositsInv, Mirrored, [Next]_depositVars PROVE Mirrored'
  OBVIOUS
<1>1. CASE UNCHANGED <<walletTxn, journal>>
  BY <1>1 DEF Mirrored, MirroredAt
<1>2. ASSUME NEW w \in Workers, ApproveDeposit(w) PROVE Mirrored'
  BY <1>2, ApproveMirrors
<1> QED
  BY <1>1, <1>2 DEF Next, DepositNext, DepositStep, RequestDeposit, StartApproveDeposit,
       StartRejectDeposit, ReturnRacedDeposit, CreateDeposit, ApproveDepositFails,
       RejectDeposit, Abort, depositVars, storeVars

(* The wallet liability of the ledger equals the posted wallet transactions  *)
(* of every investor after every commit of the deposit workflow, for any     *)
(* number of deposits and of requests served at a time: what reconciling     *)
(* account 2010 checks.                                                      *)
THEOREM LedgerAgrees == Spec => []LedgerAgreesWithWallet
<1>1. DepositsInv => StoreTypeOK
  BY DEF DepositsInv, TypeOK
<1> QED
  BY <1>1, InvHolds, InitMirrored, StepMirrors, MirroredAgrees, PTL DEF Spec
=============================================================================
