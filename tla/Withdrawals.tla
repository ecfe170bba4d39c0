---------------------------- MODULE Withdrawals ----------------------------
(***************************************************************************)
(* WithdrawalsService: a request reserves the amount with a PENDING wallet *)
(* transaction, an approver approves it, a finance officer completes it    *)
(* once the bank transfer is made (the posting), and either may reject it. *)
(***************************************************************************)
EXTENDS Store

VARIABLE withdrawals

withdrawalVars == <<storeVars, withdrawals>>

WithdrawalRow == [status : {"NONE", "PENDING", "APPROVED", "COMPLETED", "REJECTED"},
                  investor : Investors \cup {None}, amount : Nat,
                  requestedBy : Users \cup {None}, approvedBy : Users \cup {None}]

NoWithdrawal == [status |-> "NONE", investor |-> None, amount |-> 0,
                 requestedBy |-> None, approvedBy |-> None]
-----------------------------------------------------------------------------
(* request: after the checks, one transaction takes three sums, each its own *)
(* statement, and creates the withdrawal and its reservation.               *)
RequestWithdrawal(w, u, i, a) ==
  /\ MayTransact(i)
  /\ Begin(w, [Idle EXCEPT !.next = "sumCredits", !.by = u, !.investor = i, !.amount = a])
  /\ UNCHANGED <<investorStatus, walletTxn, journal, withdrawals>>

SumCredits(w) ==
  /\ call[w].next = "sumCredits"
  /\ Go(w, "sumDebits", PostedCredits(call[w].investor))
  /\ UNCHANGED <<investorStatus, walletTxn, journal, withdrawals>>

SumDebits(w) ==
  /\ call[w].next = "sumDebits"
  /\ Go(w, "sumReserved", call[w].seen - PostedDebits(call[w].investor))
  /\ UNCHANGED <<investorStatus, walletTxn, journal, withdrawals>>

Withdrawable(w) == call[w].seen - Reserved(call[w].investor)

SumReserved(w) ==
  /\ call[w].next = "sumReserved"
  /\ IF 10 * Withdrawable(w) < call[w].amount
     THEN End(w)
     ELSE Go(w, "createWithdrawal", Withdrawable(w))
  /\ UNCHANGED <<investorStatus, walletTxn, journal, withdrawals>>

CreateWithdrawal(w, d) ==
  LET c == call[w] IN
  /\ c.next = "createWithdrawal"
  /\ withdrawals[d] = NoWithdrawal
  /\ withdrawals' = [withdrawals EXCEPT ![d] =
       [status |-> "PENDING", investor |-> c.investor, amount |-> Column(c.amount),
        requestedBy |-> c.by, approvedBy |-> None]]
  /\ CreateTxn(WithdrawalRef(d), c.investor, Column(c.amount), "PENDING")
  /\ End(w)
  /\ UNCHANGED <<investorStatus, journal>>
-----------------------------------------------------------------------------
(* approve, complete and reject read the row once; their updates then name  *)
(* the row by its id alone.                                                 *)
(* Mutant: the requester may approve.                                       *)
MayApproveOwnWithdrawal(u, d) == withdrawals[d].status = "PENDING"

MayApproveWithdrawal(u, d) ==
  /\ withdrawals[d].status = "PENDING"
  /\ withdrawals[d].requestedBy # u

StartApproveWithdrawal(w, u, d) ==
  /\ MayApproveWithdrawal(u, d)
  /\ Begin(w, [Idle EXCEPT !.next = "approveWithdrawal", !.by = u, !.id = d])
  /\ UNCHANGED <<investorStatus, walletTxn, journal, withdrawals>>

ApproveWithdrawal(w) ==
  LET d == call[w].id IN
  /\ call[w].next = "approveWithdrawal"
  /\ withdrawals' = [withdrawals EXCEPT ![d].status = "APPROVED", ![d].approvedBy = call[w].by]
  /\ End(w)
  /\ UNCHANGED <<investorStatus, walletTxn, journal>>

(* Mutant: a completed withdrawal may be completed again.                   *)
MayCompleteAgain(d) == withdrawals[d].status \in {"APPROVED", "COMPLETED"}

MayComplete(d) == withdrawals[d].status = "APPROVED"

StartCompleteWithdrawal(w, d) ==
  /\ MayComplete(d)
  /\ Begin(w, [Idle EXCEPT !.next = "completeWithdrawal", !.id = d])
  /\ UNCHANGED <<investorStatus, walletTxn, journal, withdrawals>>

(* No balance is read again, and no index bounds the entries of a reference. *)
CompleteWithdrawal(w) ==
  LET d == call[w].id
      row == withdrawals[d] IN
  /\ call[w].next = "completeWithdrawal"
  /\ ValidLines(row.amount)
  /\ PostJournal(WithdrawalRef(d), row.investor, row.amount)
  /\ walletTxn' = [walletTxn EXCEPT ![WithdrawalRef(d)].status = "POSTED"]
  /\ withdrawals' = [withdrawals EXCEPT ![d].status = "COMPLETED"]
  /\ End(w)
  /\ UNCHANGED investorStatus

(* Mutant: the status is written outside the transaction.                   *)
CompleteWithdrawalFailsCompleted(w) ==
  LET d == call[w].id IN
  /\ call[w].next = "completeWithdrawal"
  /\ ~ValidLines(withdrawals[d].amount)
  /\ withdrawals' = [withdrawals EXCEPT ![d].status = "COMPLETED"]
  /\ End(w)
  /\ UNCHANGED <<investorStatus, walletTxn, journal>>

CompleteWithdrawalFails(w) ==
  /\ call[w].next = "completeWithdrawal"
  /\ ~ValidLines(withdrawals[call[w].id].amount)
  /\ End(w)
  /\ UNCHANGED <<investorStatus, walletTxn, journal, withdrawals>>

MayRejectWithdrawal(d) == withdrawals[d].status \in {"PENDING", "APPROVED"}

StartRejectWithdrawal(w, d) ==
  /\ MayRejectWithdrawal(d)
  /\ Begin(w, [Idle EXCEPT !.next = "rejectWithdrawal", !.id = d])
  /\ UNCHANGED <<investorStatus, walletTxn, journal, withdrawals>>

(* Mutant: the reservation stays.                                           *)
RejectWithdrawalReserved(w) ==
  /\ call[w].next = "rejectWithdrawal"
  /\ withdrawals' = [withdrawals EXCEPT ![call[w].id].status = "REJECTED"]
  /\ End(w)
  /\ UNCHANGED <<investorStatus, walletTxn, journal>>

RejectWithdrawal(w) ==
  LET d == call[w].id IN
  /\ call[w].next = "rejectWithdrawal"
  /\ walletTxn' = [walletTxn EXCEPT ![WithdrawalRef(d)].status = "CANCELLED"]
  /\ withdrawals' = [withdrawals EXCEPT ![d].status = "REJECTED"]
  /\ End(w)
  /\ UNCHANGED <<investorStatus, journal>>
-----------------------------------------------------------------------------
(* The steps of a withdrawal request already being served.                  *)
WithdrawalStep(w) ==
  \/ SumCredits(w)
  \/ SumDebits(w)
  \/ SumReserved(w)
  \/ \E d \in WithdrawalIds : CreateWithdrawal(w, d)
  \/ ApproveWithdrawal(w)
  \/ CompleteWithdrawal(w)
  \/ CompleteWithdrawalFails(w)
  \/ RejectWithdrawal(w)

WithdrawalNext(w) ==
  \/ \E u \in Users, i \in Investors, a \in Amounts : RequestWithdrawal(w, u, i, a)
  \/ \E u \in Users, d \in WithdrawalIds : StartApproveWithdrawal(w, u, d)
  \/ \E d \in WithdrawalIds : StartCompleteWithdrawal(w, d) \/ StartRejectWithdrawal(w, d)
  \/ WithdrawalStep(w)

WithdrawalTablesInit == withdrawals = [d \in WithdrawalIds |-> NoWithdrawal]
-----------------------------------------------------------------------------
TypeOK == StoreTypeOK /\ withdrawals \in [WithdrawalIds -> WithdrawalRow]

PaidOut(d) == journal[WithdrawalRef(d)] # <<>>

(* What every step of a withdrawal relies on.  A row that was paid out, or    *)
(* may be, names an approver other than its requester, and a completion in    *)
(* flight names such a row: approvals that commit meanwhile only put another  *)
(* checker in its place.                                                      *)
Checked(row) == row.approvedBy \in Users \ {row.requestedBy}

RowWellFormed(d) ==
  /\ withdrawals[d] # NoWithdrawal => withdrawals[d].investor \in Investors
  /\ withdrawals[d].status \in {"APPROVED", "COMPLETED"} \/ PaidOut(d) => Checked(withdrawals[d])
  /\ walletTxn[WithdrawalRef(d)].status = "POSTED" \/ withdrawals[d].status = "COMPLETED"
       => PaidOut(d)

CallWellFormed(c) ==
  /\ c.next \in {"sumCredits", "sumDebits", "sumReserved", "createWithdrawal"} =>
       c.investor \in Investors
  /\ c.next \in {"approveWithdrawal", "completeWithdrawal", "rejectWithdrawal"} =>
       c.id \in WithdrawalIds /\ withdrawals[c.id] # NoWithdrawal
  /\ c.next = "approveWithdrawal" => c.by \in Users \ {withdrawals[c.id].requestedBy}
  /\ c.next = "completeWithdrawal" => Checked(withdrawals[c.id])

WithdrawalsInv ==
  /\ TypeOK
  /\ \A d \in WithdrawalIds : RowWellFormed(d)
  /\ \A w \in Workers : CallWellFormed(call[w])

(* Money leaves the bank only on the decision of someone other than the user *)
(* who requested it, however approvals, rejections and completions overlap.  *)
PayoutNeedsChecker ==
  \A d \in WithdrawalIds :
    PaidOut(d) => withdrawals[d].approvedBy \notin {None, withdrawals[d].requestedBy}

(* A wallet is never debited without an entry in the ledger, and a withdrawal *)
(* is COMPLETED only with one.                                                *)
DebitHasEntry ==
  \A d \in WithdrawalIds :
    (walletTxn[WithdrawalRef(d)].status = "POSTED" \/ withdrawals[d].status = "COMPLETED")
      => PaidOut(d)

(* The reservation follows the withdrawal: PENDING while undecided, POSTED    *)
(* exactly when completed, CANCELLED exactly when rejected.                   *)
ReservationFollowsStatus ==
  \A d \in WithdrawalIds :
    walletTxn[WithdrawalRef(d)].status =
      CASE withdrawals[d].status = "NONE" -> "NONE"
        [] withdrawals[d].status \in {"PENDING", "APPROVED"} -> "PENDING"
        [] withdrawals[d].status = "COMPLETED" -> "POSTED"
        [] withdrawals[d].status = "REJECTED" -> "CANCELLED"

(* Entries of a withdrawal beyond the one its posted debit stands for.       *)
PaidBeyondDebit(d) ==
  Len(journal[WithdrawalRef(d)]) - IF walletTxn[WithdrawalRef(d)].status = "POSTED" THEN 1 ELSE 0

(* Completions that overlap each other, an approval or a rejection may post  *)
(* an entry the wallet does not show, and then the ledger owes less on 2010; *)
(* no other request, of any service, makes wallet and ledger differ.         *)
LedgerExplained ==
  \A i \in Investors :
    AvailableBalance(i) - GLBalance("2010", i) =
      Total([d \in {x \in WithdrawalIds : withdrawals[x].investor = i} |->
               PaidBeyondDebit(d) * withdrawals[d].amount])
=============================================================================
