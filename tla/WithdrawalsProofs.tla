-------------------------- MODULE WithdrawalsProofs --------------------------
(***************************************************************************)
(* Proofs about the withdrawal workflow, for any number of requests served *)
(* at a time, users, withdrawals and amounts.  WithdrawalsInv is the       *)
(* inductive invariant.                                                    *)
(***************************************************************************)
EXTENDS Withdrawals, StoreProofs

LEMMA WithdrawalRefs ==
  /\ \A d \in WithdrawalIds : WithdrawalRef(d) \in References
  /\ \A d, e \in WithdrawalIds : WithdrawalRef(d) = WithdrawalRef(e) => d = e
  /\ \A d \in WithdrawalIds, e \in DepositIds : WithdrawalRef(d) # DepositRef(e)
  BY DEF WithdrawalRef, DepositRef, References

LEMMA ApprovalIsACall ==
  ASSUME NEW u \in Users, NEW d \in WithdrawalIds
  PROVE  [Idle EXCEPT !.next = "approveWithdrawal", !.by = u, !.id = d] \in Calls
<1>1. "approveWithdrawal" \in Steps /\ d \in DocumentIds \cup {None}
  BY DEF Steps, DocumentIds
<1> QED
  BY <1>1, IdleIsACall DEF Calls

LEMMA DecisionIsACall ==
  ASSUME NEW step \in Steps, NEW d \in WithdrawalIds
  PROVE  [Idle EXCEPT !.next = step, !.id = d] \in Calls
<1>1. d \in DocumentIds \cup {None}
  BY DEF DocumentIds
<1> QED
  BY <1>1, IdleIsACall DEF Calls

LEMMA RequestIsACall ==
  ASSUME NEW u \in Users, NEW i \in Investors, NEW a \in Amounts
  PROVE  [Idle EXCEPT !.next = "sumCredits", !.by = u, !.investor = i, !.amount = a] \in Calls
<1>1. "sumCredits" \in Steps /\ a \in Nat
  BY StoreAssumption DEF Steps, StoreAssumption
<1> QED
  BY <1>1, IdleIsACall DEF Calls
-----------------------------------------------------------------------------
(* A step that only moves a request on keeps the invariant, if where it     *)
(* moves to is well formed; Idle always is.                                 *)
LEMMA CallMoves ==
  ASSUME WithdrawalsInv, NEW w \in Workers, NEW c \in Calls, CallWellFormed(c),
         call' = [call EXCEPT ![w] = c],
         UNCHANGED <<investorStatus, walletTxn, journal, withdrawals>>
  PROVE  WithdrawalsInv'
<1>1. TypeOK'
  BY DEF WithdrawalsInv, TypeOK, StoreTypeOK
<1>2. ASSUME NEW d \in WithdrawalIds PROVE RowWellFormed(d)'
  BY DEF WithdrawalsInv, RowWellFormed, PaidOut, Checked
<1>3. ASSUME NEW x \in Workers PROVE CallWellFormed(call[x])'
  <2>1. call'[x] = IF x = w THEN c ELSE call[x]
    BY DEF WithdrawalsInv, TypeOK, StoreTypeOK
  <2>2. CallWellFormed(call[x])
    BY DEF WithdrawalsInv
  <2> QED
    BY <2>1, <2>2 DEF CallWellFormed, Checked
<1> QED
  BY <1>1, <1>2, <1>3 DEF WithdrawalsInv

LEMMA IdleWellFormed == Idle \in Calls /\ CallWellFormed(Idle)
  BY IdleIsACall DEF Idle, CallWellFormed

LEMMA RequestKeepsInv ==
  ASSUME WithdrawalsInv, NEW w \in Workers, NEW u \in Users, NEW i \in Investors,
         NEW a \in Amounts, RequestWithdrawal(w, u, i, a)
  PROVE  WithdrawalsInv'
<1> DEFINE c == [Idle EXCEPT !.next = "sumCredits", !.by = u, !.investor = i, !.amount = a]
<1>1. c \in Calls
  BY RequestIsACall
<1>2. CallWellFormed(c)
  BY DEF CallWellFormed, Idle
<1> QED
  BY <1>1, <1>2, CallMoves DEF RequestWithdrawal, Begin

LEMMA StartApproveKeepsInv ==
  ASSUME WithdrawalsInv, NEW w \in Workers, NEW u \in Users, NEW d \in WithdrawalIds,
         StartApproveWithdrawal(w, u, d)
  PROVE  WithdrawalsInv'
<1> DEFINE approve == [Idle EXCEPT !.next = "approveWithdrawal", !.by = u, !.id = d]
<1>1. approve \in Calls
  BY ApprovalIsACall
<1>2. CallWellFormed(approve)
  BY DEF StartApproveWithdrawal, MayApproveWithdrawal, CallWellFormed, Idle, NoWithdrawal
<1> QED
  BY <1>1, <1>2, CallMoves DEF StartApproveWithdrawal, Begin

LEMMA StartOthersKeepInv ==
  ASSUME WithdrawalsInv, NEW w \in Workers, NEW d \in WithdrawalIds,
         StartCompleteWithdrawal(w, d) \/ StartRejectWithdrawal(w, d)
  PROVE  WithdrawalsInv'
<1> DEFINE complete == [Idle EXCEPT !.next = "completeWithdrawal", !.id = d]
           reject   == [Idle EXCEPT !.next = "rejectWithdrawal", !.id = d]
<1>1. complete \in Calls /\ reject \in Calls
  BY DecisionIsACall DEF Steps
<1>2. CASE StartCompleteWithdrawal(w, d)
  <2>1. withdrawals[d].status = "APPROVED" /\ RowWellFormed(d)
    BY <1>2 DEF StartCompleteWithdrawal, MayComplete, WithdrawalsInv
  <2>2. CallWellFormed(complete)
    BY <2>1 DEF RowWellFormed, CallWellFormed, Idle, NoWithdrawal
  <2> QED
    BY <1>1, <1>2, <2>2, CallMoves DEF StartCompleteWithdrawal, Begin
<1>3. CASE StartRejectWithdrawal(w, d)
  <2>1. CallWellFormed(reject)
    BY <1>3 DEF StartRejectWithdrawal, MayRejectWithdrawal, CallWellFormed, Idle, NoWithdrawal
  <2> QED
    BY <1>1, <1>3, <2>1, CallMoves DEF StartRejectWithdrawal, Begin
<1> QED
  BY <1>2, <1>3

(* The three sums a request takes are integers, so what it carries on is.   *)
LEMMA SumsKeepInv ==
  ASSUME WithdrawalsInv, NEW w \in Workers,
         SumCredits(w) \/ SumDebits(w) \/ SumReserved(w)
  PROVE  WithdrawalsInv'
<1>1. call[w] \in Calls /\ CallWellFormed(call[w])
  BY DEF WithdrawalsInv, TypeOK, StoreTypeOK
<1>2. \A status, direction : SumTxns(call[w].investor, status, direction) \in Nat
  BY SumTxnsNat DEF WithdrawalsInv, TypeOK, StoreTypeOK
<1>3. ASSUME NEW step \in {"sumDebits", "sumReserved", "createWithdrawal"}, NEW s \in Int,
             call[w].next \in {"sumCredits", "sumDebits", "sumReserved"},
             Go(w, step, s),
             UNCHANGED <<investorStatus, walletTxn, journal, withdrawals>>
      PROVE  WithdrawalsInv'
  <2> DEFINE c == [call[w] EXCEPT !.next = step, !.seen = s]
  <2>1. step \in Steps
    BY DEF Steps
  <2>2. c \in Calls
    BY <1>1, <2>1 DEF Calls
  <2>3. c.next = step /\ c.investor = call[w].investor
    BY <1>1 DEF Calls
  <2>4. CallWellFormed(c)
    BY <1>1, <1>3, <2>3 DEF CallWellFormed
  <2>5. call' = [call EXCEPT ![w] = c]
    BY <1>3 DEF Go, WithdrawalsInv, TypeOK, StoreTypeOK
  <2> QED
    BY <1>3, <2>2, <2>4, <2>5, CallMoves
<1>4. ASSUME End(w), UNCHANGED <<investorStatus, walletTxn, journal, withdrawals>>
      PROVE  WithdrawalsInv'
  BY <1>4, IdleWellFormed, CallMoves DEF End
<1>5. /\ call[w].seen \in Int
      /\ PostedCredits(call[w].investor) \in Int
      /\ call[w].seen - PostedDebits(call[w].investor) \in Int
      /\ Withdrawable(w) \in Int
  BY <1>1, <1>2 DEF Calls, PostedCredits, PostedDebits, Withdrawable, Reserved
<1> QED
  BY <1>3, <1>4, <1>5 DEF SumCredits, SumDebits, SumReserved

(* The requests that end without a write: a completion the ledger refuses,  *)
(* an aborted handler.                                                      *)
LEMMA EndsKeepInv ==
  ASSUME WithdrawalsInv, NEW w \in Workers,
         CompleteWithdrawalFails(w) \/ (Abort(w) /\ UNCHANGED withdrawals)
  PROVE  WithdrawalsInv'
  BY IdleWellFormed, CallMoves DEF CompleteWithdrawalFails, Abort, End
-----------------------------------------------------------------------------
(* What the four commits share: one row is written, keeping its requester   *)
(* and leaving it decided by a checker if it was; the requests in flight    *)
(* stay right about the rows they name.                                     *)
LEMMA CommitKeepsCalls ==
  ASSUME WithdrawalsInv, NEW w \in Workers, call' = [call EXCEPT ![w] = Idle],
         \A e \in WithdrawalIds :
           withdrawals[e] # NoWithdrawal =>
             /\ withdrawals'[e] # NoWithdrawal
             /\ withdrawals'[e].requestedBy = withdrawals[e].requestedBy
             /\ Checked(withdrawals[e]) => Checked(withdrawals[e])'
  PROVE  \A x \in Workers : CallWellFormed(call[x])'
<1> SUFFICES ASSUME NEW x \in Workers PROVE CallWellFormed(call[x])'
  OBVIOUS
<1>1. call'[x] = IF x = w THEN Idle ELSE call[x]
  BY DEF WithdrawalsInv, TypeOK, StoreTypeOK
<1>2. CallWellFormed(call[x])
  BY DEF WithdrawalsInv
<1>3. CASE x = w
  BY <1>1, <1>3 DEF CallWellFormed, Idle
<1>4. CASE x # w
  BY <1>1, <1>2, <1>4 DEF CallWellFormed
<1> QED
  BY <1>3, <1>4

(* A new row takes an id that was never paid out: one that was names its    *)
(* checker, and a row not yet created names nobody.                         *)
LEMMA CreateKeepsInv ==
  ASSUME WithdrawalsInv, NEW w \in Workers, NEW d \in WithdrawalIds, CreateWithdrawal(w, d)
  PROVE  WithdrawalsInv'
<1> DEFINE c == call[w]
           row == [status |-> "PENDING", investor |-> c.investor, amount |-> Column(c.amount),
                   requestedBy |-> c.by, approvedBy |-> None]
           txn == [status |-> "PENDING", investor |-> c.investor, amount |-> Column(c.amount)]
<1>1. /\ withdrawals[d] = NoWithdrawal
      /\ withdrawals' = [withdrawals EXCEPT ![d] = row]
      /\ walletTxn' = [walletTxn EXCEPT ![WithdrawalRef(d)] = txn]
      /\ call' = [call EXCEPT ![w] = Idle]
      /\ UNCHANGED <<investorStatus, journal>>
  BY DEF CreateWithdrawal, CreateTxn, WithTxn, End
<1>2. c \in Calls /\ c.investor \in Investors
  BY DEF CreateWithdrawal, WithdrawalsInv, CallWellFormed, TypeOK, StoreTypeOK
<1>3. row \in WithdrawalRow /\ txn \in Txn
  BY <1>2, ColumnNat DEF Calls, WithdrawalRow, Txn, TxnStatus
<1>4. TypeOK'
  BY <1>1, <1>3, IdleIsACall DEF WithdrawalsInv, TypeOK, StoreTypeOK
<1>5. /\ withdrawals'[d] = row
      /\ \A e \in WithdrawalIds \ {d} : withdrawals'[e] = withdrawals[e]
      /\ walletTxn'[WithdrawalRef(d)] = txn
      /\ \A e \in WithdrawalIds \ {d} : walletTxn'[WithdrawalRef(e)] = walletTxn[WithdrawalRef(e)]
  BY <1>1, WithdrawalRefs DEF WithdrawalsInv, TypeOK, StoreTypeOK
<1>6. ~PaidOut(d)
  <2>1. ~Checked(withdrawals[d])
    BY <1>1, NoneIsNobody DEF Checked, NoWithdrawal
  <2> QED
    BY <2>1 DEF WithdrawalsInv, RowWellFormed
<1>7. ASSUME NEW e \in WithdrawalIds PROVE RowWellFormed(e)'
  <2>1. CASE e = d
    BY <1>1, <1>2, <1>5, <1>6, <2>1 DEF RowWellFormed, PaidOut
  <2>2. CASE e # d
    BY <1>1, <1>5, <2>2 DEF WithdrawalsInv, RowWellFormed, PaidOut, Checked
  <2> QED
    BY <2>1, <2>2
<1>8. \A e \in WithdrawalIds : withdrawals[e] # NoWithdrawal => withdrawals'[e] = withdrawals[e]
  BY <1>1, <1>5
<1>9. \A x \in Workers : CallWellFormed(call[x])'
  BY <1>1, <1>8, CommitKeepsCalls DEF Checked
<1> QED
  BY <1>4, <1>7, <1>9 DEF WithdrawalsInv

(* An approval that commits late replaces a checker by another.             *)
LEMMA ApproveKeepsInv ==
  ASSUME WithdrawalsInv, NEW w \in Workers, ApproveWithdrawal(w)
  PROVE  WithdrawalsInv'
<1>1. /\ call[w].id \in WithdrawalIds
      /\ withdrawals[call[w].id] # NoWithdrawal
      /\ call[w].by \in Users \ {withdrawals[call[w].id].requestedBy}
  BY DEF ApproveWithdrawal, WithdrawalsInv, CallWellFormed
<1>2. PICK d \in WithdrawalIds, u \in Users : d = call[w].id /\ u = call[w].by
  BY <1>1
<1> DEFINE row == [withdrawals[d] EXCEPT !.status = "APPROVED", !.approvedBy = u]
<1>3. /\ withdrawals' = [withdrawals EXCEPT ![d] = row]
      /\ call' = [call EXCEPT ![w] = Idle]
      /\ UNCHANGED <<investorStatus, walletTxn, journal>>
  BY <1>2 DEF ApproveWithdrawal, End, WithdrawalsInv, TypeOK
<1>4. withdrawals[d] \in WithdrawalRow
  BY DEF WithdrawalsInv, TypeOK
<1>5. /\ row \in WithdrawalRow
      /\ row.status = "APPROVED" /\ row.approvedBy = u
      /\ row.requestedBy = withdrawals[d].requestedBy /\ row.investor = withdrawals[d].investor
  BY <1>4 DEF WithdrawalRow
<1>6. /\ withdrawals'[d] = row
      /\ \A e \in WithdrawalIds \ {d} : withdrawals'[e] = withdrawals[e]
  BY <1>3 DEF WithdrawalsInv, TypeOK
<1> HIDE DEF row
<1>7. TypeOK'
  BY <1>3, <1>5, IdleIsACall DEF WithdrawalsInv, TypeOK, StoreTypeOK
<1>8. Checked(withdrawals[d])' /\ withdrawals'[d] # NoWithdrawal
  BY <1>1, <1>2, <1>5, <1>6 DEF Checked, NoWithdrawal
<1>9. ASSUME NEW e \in WithdrawalIds PROVE RowWellFormed(e)'
  <2>1. RowWellFormed(e)
    BY DEF WithdrawalsInv
  <2>2. CASE e = d
    BY <1>1, <1>2, <1>3, <1>5, <1>6, <1>8, <2>1, <2>2 DEF RowWellFormed, PaidOut
  <2>3. CASE e # d
    BY <1>3, <1>6, <2>1, <2>3 DEF RowWellFormed, PaidOut, Checked
  <2> QED
    BY <2>2, <2>3
<1>10. \A x \in Workers : CallWellFormed(call[x])'
  BY <1>3, <1>5, <1>6, <1>8, CommitKeepsCalls DEF Checked
<1> QED
  BY <1>7, <1>9, <1>10 DEF WithdrawalsInv
(* A completion posts for a row whose checker was named when it started and *)
(* has only been replaced by another since.                                 *)
LEMMA CompleteKeepsInv ==
  ASSUME WithdrawalsInv, NEW w \in Workers, CompleteWithdrawal(w)
  PROVE  WithdrawalsInv'
<1>1. /\ call[w].id \in WithdrawalIds
      /\ withdrawals[call[w].id] # NoWithdrawal
      /\ Checked(withdrawals[call[w].id])
  BY DEF CompleteWithdrawal, WithdrawalsInv, CallWellFormed
<1>2. PICK d \in WithdrawalIds : d = call[w].id
  BY <1>1
<1> DEFINE ref == WithdrawalRef(d)
           row == [withdrawals[d] EXCEPT !.status = "COMPLETED"]
           txn == [walletTxn[ref] EXCEPT !.status = "POSTED"]
           entry == [investor |-> withdrawals[d].investor, amount |-> withdrawals[d].amount]
<1>3. /\ withdrawals' = [withdrawals EXCEPT ![d] = row]
      /\ walletTxn' = [walletTxn EXCEPT ![ref] = txn]
      /\ journal' = [journal EXCEPT ![ref] = Append(journal[ref], entry)]
      /\ call' = [call EXCEPT ![w] = Idle]
      /\ UNCHANGED investorStatus
  BY <1>2, WithdrawalRefs DEF CompleteWithdrawal, PostJournal, Posted, End, WithdrawalsInv,
       TypeOK, StoreTypeOK
<1>4. /\ withdrawals[d] \in WithdrawalRow /\ withdrawals[d].investor \in Investors
      /\ walletTxn[ref] \in Txn /\ journal[ref] \in Seq(Entry)
  BY <1>1, <1>2, WithdrawalRefs DEF WithdrawalsInv, RowWellFormed, TypeOK, StoreTypeOK
<1>5. /\ row \in WithdrawalRow /\ row.status = "COMPLETED"
      /\ row.approvedBy = withdrawals[d].approvedBy
      /\ row.requestedBy = withdrawals[d].requestedBy /\ row.investor = withdrawals[d].investor
  BY <1>4 DEF WithdrawalRow
<1>6. txn \in Txn
  BY <1>4 DEF Txn, TxnStatus
<1>7. entry \in Entry /\ Append(journal[ref], entry) \in Seq(Entry)
      /\ Append(journal[ref], entry) # <<>>
  <2>1. entry \in Entry
    BY <1>4 DEF Entry, WithdrawalRow
  <2> HIDE DEF entry
  <2> QED
    BY <1>4, <2>1
<1>8. /\ withdrawals'[d] = row
      /\ \A e \in WithdrawalIds \ {d} : withdrawals'[e] = withdrawals[e]
      /\ journal'[ref] # <<>>
      /\ \A e \in WithdrawalIds \ {d} :
           /\ journal'[WithdrawalRef(e)] = journal[WithdrawalRef(e)]
           /\ walletTxn'[WithdrawalRef(e)] = walletTxn[WithdrawalRef(e)]
  <2> HIDE DEF row, txn, entry
  <2> QED
    BY <1>3, <1>7, WithdrawalRefs DEF WithdrawalsInv, TypeOK, StoreTypeOK
<1> HIDE DEF row, txn, entry
<1>9. TypeOK'
  BY <1>3, <1>5, <1>6, <1>7, WithdrawalRefs, IdleIsACall DEF WithdrawalsInv, TypeOK, StoreTypeOK
<1>10. Checked(withdrawals[d])' /\ withdrawals'[d] # NoWithdrawal
  BY <1>1, <1>2, <1>5, <1>8 DEF Checked, NoWithdrawal
<1>11. ASSUME NEW e \in WithdrawalIds PROVE RowWellFormed(e)'
  <2>1. CASE e = d
    BY <1>4, <1>5, <1>8, <1>10, <2>1 DEF RowWellFormed, PaidOut
  <2>2. CASE e # d
    BY <1>8, <2>2 DEF WithdrawalsInv, RowWellFormed, PaidOut, Checked
  <2> QED
    BY <2>1, <2>2
<1>12. \A x \in Workers : CallWellFormed(call[x])'
  BY <1>3, <1>5, <1>8, <1>10, CommitKeepsCalls DEF Checked
<1> QED
  BY <1>9, <1>11, <1>12 DEF WithdrawalsInv

(* A rejection that commits late keeps the approver of what was paid out.   *)
LEMMA RejectKeepsInv ==
  ASSUME WithdrawalsInv, NEW w \in Workers, RejectWithdrawal(w)
  PROVE  WithdrawalsInv'
<1>1. /\ call[w].id \in WithdrawalIds
      /\ withdrawals[call[w].id] # NoWithdrawal
  BY DEF RejectWithdrawal, WithdrawalsInv, CallWellFormed
<1>2. PICK d \in WithdrawalIds : d = call[w].id
  BY <1>1
<1> DEFINE ref == WithdrawalRef(d)
           row == [withdrawals[d] EXCEPT !.status = "REJECTED"]
           txn == [walletTxn[ref] EXCEPT !.status = "CANCELLED"]
<1>3. /\ withdrawals' = [withdrawals EXCEPT ![d] = row]
      /\ walletTxn' = [walletTxn EXCEPT ![ref] = txn]
      /\ call' = [call EXCEPT ![w] = Idle]
      /\ UNCHANGED <<investorStatus, journal>>
  BY <1>2, WithdrawalRefs DEF RejectWithdrawal, End, WithdrawalsInv, TypeOK, StoreTypeOK
<1>4. withdrawals[d] \in WithdrawalRow /\ walletTxn[ref] \in Txn
  BY WithdrawalRefs DEF WithdrawalsInv, TypeOK, StoreTypeOK
<1>5. /\ row \in WithdrawalRow /\ row.status = "REJECTED"
      /\ row.approvedBy = withdrawals[d].approvedBy
      /\ row.requestedBy = withdrawals[d].requestedBy /\ row.investor = withdrawals[d].investor
  BY <1>4 DEF WithdrawalRow
<1>6. txn \in Txn /\ txn.status = "CANCELLED"
  BY <1>4 DEF Txn, TxnStatus
<1> HIDE DEF row, txn
<1>7. /\ withdrawals'[d] = row
      /\ walletTxn'[ref] = txn
      /\ \A e \in WithdrawalIds \ {d} :
           /\ withdrawals'[e] = withdrawals[e]
           /\ walletTxn'[WithdrawalRef(e)] = walletTxn[WithdrawalRef(e)]
  BY <1>3, WithdrawalRefs DEF WithdrawalsInv, TypeOK, StoreTypeOK
<1>8. TypeOK'
  BY <1>3, <1>5, <1>6, WithdrawalRefs, IdleIsACall DEF WithdrawalsInv, TypeOK, StoreTypeOK
<1>9. withdrawals'[d] # NoWithdrawal
  BY <1>5, <1>7 DEF NoWithdrawal
<1>10. ASSUME NEW e \in WithdrawalIds PROVE RowWellFormed(e)'
  <2>1. RowWellFormed(e)
    BY DEF WithdrawalsInv
  <2>2. CASE e = d
    BY <1>1, <1>2, <1>3, <1>5, <1>6, <1>7, <2>1, <2>2 DEF RowWellFormed, PaidOut, Checked
  <2>3. CASE e # d
    BY <1>3, <1>7, <2>1, <2>3 DEF RowWellFormed, PaidOut, Checked
  <2> QED
    BY <2>2, <2>3
<1>11. \A x \in Workers : CallWellFormed(call[x])'
  BY <1>3, <1>5, <1>7, <1>9, CommitKeepsCalls DEF Checked
<1> QED
  BY <1>8, <1>10, <1>11 DEF WithdrawalsInv
-----------------------------------------------------------------------------
(* Every step of a withdrawal request, served to its end or cut short,      *)
(* keeps the invariant.                                                     *)
LEMMA StepInv ==
  ASSUME WithdrawalsInv, NEW w \in Workers,
         WithdrawalNext(w) \/ (Abort(w) /\ UNCHANGED withdrawals)
  PROVE  WithdrawalsInv'
<1>1. ASSUME NEW u \in Users, NEW i \in Investors, NEW a \in Amounts,
             RequestWithdrawal(w, u, i, a)
      PROVE  WithdrawalsInv'
  BY <1>1, RequestKeepsInv
<1>2. ASSUME NEW u \in Users, NEW d \in WithdrawalIds, StartApproveWithdrawal(w, u, d)
      PROVE  WithdrawalsInv'
  BY <1>2, StartApproveKeepsInv
<1>3. ASSUME NEW d \in WithdrawalIds, StartCompleteWithdrawal(w, d) \/ StartRejectWithdrawal(w, d)
      PROVE  WithdrawalsInv'
  BY <1>3, StartOthersKeepInv
<1>4. CASE SumCredits(w) \/ SumDebits(w) \/ SumReserved(w)
  BY <1>4, SumsKeepInv
<1>5. ASSUME NEW d \in WithdrawalIds, CreateWithdrawal(w, d) PROVE WithdrawalsInv'
  BY <1>5, CreateKeepsInv
<1>6. CASE ApproveWithdrawal(w)
  BY <1>6, ApproveKeepsInv
<1>7. CASE CompleteWithdrawal(w)
  BY <1>7, CompleteKeepsInv
<1>8. CASE RejectWithdrawal(w)
  BY <1>8, RejectKeepsInv
<1>9. CASE CompleteWithdrawalFails(w) \/ (Abort(w) /\ UNCHANGED withdrawals)
  BY <1>9, EndsKeepInv
<1> QED
  BY <1>1, <1>2, <1>3, <1>4, <1>5, <1>6, <1>7, <1>8, <1>9 DEF WithdrawalNext, WithdrawalStep

(* What it says of payouts: a checker, other than the requester, approved,  *)
(* and a debit or COMPLETED has its entry.                                  *)
LEMMA PayoutsAreChecked == WithdrawalsInv => PayoutNeedsChecker /\ DebitHasEntry
  BY NoneIsNobody DEF WithdrawalsInv, RowWellFormed, PaidOut, Checked, PayoutNeedsChecker,
     DebitHasEntry
=============================================================================
