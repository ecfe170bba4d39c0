------------------------------ MODULE Deposits ------------------------------
(***************************************************************************)
(* DepositsService: an investor (or an admin for one) requests a deposit,  *)
(* a finance officer approves it, which posts the journal and credits the  *)
(* wallet, or rejects it.                                                  *)
(***************************************************************************)
EXTENDS Store

VARIABLE deposits

depositVars == <<storeVars, deposits>>

DepositRow == [status : {"NONE", "PENDING", "APPROVED", "REJECTED"},
               investor : Investors \cup {None}, amount : Nat,
               paymentReference : PaymentReferences \cup {None},
               requestedBy : Users \cup {None}, approvedBy : Users \cup {None}]

NoDeposit == [status |-> "NONE", investor |-> None, amount |-> 0,
              paymentReference |-> None, requestedBy |-> None, approvedBy |-> None]

HasDeposit(p) == \E d \in DepositIds : deposits[d].paymentReference = p
-----------------------------------------------------------------------------
(* request: the checks run outside any transaction, then the row is created *)
(* in one; a replayed reference returns the deposit it already has.         *)
RequestDeposit(w, u, i, p, a) ==
  /\ MayTransact(i)
  /\ IF HasDeposit(p)
     THEN call[w] = Idle /\ UNCHANGED call
     ELSE Begin(w, [Idle EXCEPT !.next = "createDeposit", !.by = u, !.investor = i,
                                !.key = p, !.amount = a])
  /\ UNCHANGED <<investorStatus, walletTxn, journal, deposits>>

(* A concurrent request with the same payment reference got there first:    *)
(* the unique index refuses the row and the raced deposit is returned.      *)
ReturnRacedDeposit(w) ==
  /\ call[w].next = "createDeposit"
  /\ HasDeposit(call[w].key)
  /\ End(w)
  /\ UNCHANGED <<investorStatus, walletTxn, journal, deposits>>

(* Mutant: no unique index on payment_reference.                            *)
MayInsertAnyReference(d, p) == deposits[d] = NoDeposit

MayInsert(d, p) == deposits[d] = NoDeposit /\ ~HasDeposit(p)

CreateDeposit(w, d) ==
  /\ call[w].next = "createDeposit"
  /\ MayInsert(d, call[w].key)
  /\ deposits' = [deposits EXCEPT ![d] =
       [status |-> "PENDING", investor |-> call[w].investor,
        amount |-> Column(call[w].amount), paymentReference |-> call[w].key,
        requestedBy |-> call[w].by, approvedBy |-> None]]
  /\ End(w)
  /\ UNCHANGED <<investorStatus, walletTxn, journal>>
-----------------------------------------------------------------------------
(* approve: the status and the maker are checked on the row as first read.  *)
(* Mutant: the requester may approve.                                       *)
MayApproveOwnDeposit(u, d) == deposits[d].status = "PENDING"

MayApproveDeposit(u, d) ==
  /\ deposits[d].status = "PENDING"
  /\ deposits[d].requestedBy # u

StartApproveDeposit(w, u, d) ==
  /\ MayApproveDeposit(u, d)
  /\ Begin(w, [Idle EXCEPT !.next = "approveDeposit", !.by = u, !.id = d])
  /\ UNCHANGED <<investorStatus, walletTxn, journal, deposits>>

(* The commit fails when the journal lines are refused (a stored amount of  *)
(* zero) or the wallet already has a transaction for this deposit.          *)
CanCredit(d) ==
  /\ ValidLines(deposits[d].amount)
  /\ walletTxn[DepositRef(d)] = NoTxn

(* Mutants: the status, or the journal, is written outside the transaction. *)
ApproveDepositFailsApproved(w) ==
  /\ call[w].next = "approveDeposit"
  /\ ~CanCredit(call[w].id)
  /\ deposits' = [deposits EXCEPT ![call[w].id].status = "APPROVED"]
  /\ End(w)
  /\ UNCHANGED <<investorStatus, walletTxn, journal>>

ApproveDepositFailsPosted(w) ==
  LET d == call[w].id IN
  /\ call[w].next = "approveDeposit"
  /\ ~CanCredit(d)
  /\ PostJournal(DepositRef(d), deposits[d].investor, deposits[d].amount)
  /\ End(w)
  /\ UNCHANGED <<investorStatus, walletTxn, deposits>>

ApproveDepositFails(w) ==
  /\ call[w].next = "approveDeposit"
  /\ ~CanCredit(call[w].id)
  /\ End(w)
  /\ UNCHANGED <<investorStatus, walletTxn, journal, deposits>>

ApproveDeposit(w) ==
  LET d == call[w].id IN
  /\ call[w].next = "approveDeposit"
  /\ CanCredit(d)
  /\ PostJournal(DepositRef(d), deposits[d].investor, deposits[d].amount)
  /\ CreateTxn(DepositRef(d), deposits[d].investor, deposits[d].amount, "POSTED")
  /\ deposits' = [deposits EXCEPT ![d].status = "APPROVED", ![d].approvedBy = call[w].by]
  /\ End(w)
  /\ UNCHANGED investorStatus
-----------------------------------------------------------------------------
MayRejectDeposit(d) == deposits[d].status = "PENDING"

StartRejectDeposit(w, u, d) ==
  /\ MayRejectDeposit(d)
  /\ Begin(w, [Idle EXCEPT !.next = "rejectDeposit", !.by = u, !.id = d])
  /\ UNCHANGED <<investorStatus, walletTxn, journal, deposits>>

(* Mutant: the approver is cleared.                                         *)
RejectDepositUnapproves(w) ==
  LET d == call[w].id IN
  /\ call[w].next = "rejectDeposit"
  /\ deposits' = [deposits EXCEPT ![d].status = "REJECTED", ![d].approvedBy = None]
  /\ End(w)
  /\ UNCHANGED <<investorStatus, walletTxn, journal>>

(* The update names the row by its id alone, whatever its status is by now. *)
RejectDeposit(w) ==
  /\ call[w].next = "rejectDeposit"
  /\ deposits' = [deposits EXCEPT ![call[w].id].status = "REJECTED"]
  /\ End(w)
  /\ UNCHANGED <<investorStatus, walletTxn, journal>>
-----------------------------------------------------------------------------
(* The steps of a deposit request already being served.                     *)
DepositStep(w) ==
  \/ ReturnRacedDeposit(w)
  \/ \E d \in DepositIds : CreateDeposit(w, d)
  \/ ApproveDepositFails(w)
  \/ ApproveDeposit(w)
  \/ RejectDeposit(w)

DepositNext(w) ==
  \/ \E u \in Users, i \in Investors, p \in PaymentReferences, a \in Amounts :
        RequestDeposit(w, u, i, p, a)
  \/ \E u \in Users, d \in DepositIds :
        StartApproveDeposit(w, u, d) \/ StartRejectDeposit(w, u, d)
  \/ DepositStep(w)

DepositTablesInit == deposits = [d \in DepositIds |-> NoDeposit]

Init ==
  /\ StoreInit
  /\ DepositTablesInit
  /\ investorStatus \in [Investors -> {"PENDING_ACTIVATION", "ACTIVE"}]
  /\ \E i \in Investors : investorStatus[i] = "ACTIVE"

Next == \E w \in Workers : DepositNext(w) \/ (Abort(w) /\ UNCHANGED deposits)

Spec == Init /\ [][Next]_depositVars
-----------------------------------------------------------------------------
TypeOK == StoreTypeOK /\ deposits \in [DepositIds -> DepositRow]

Credited(d) == journal[DepositRef(d)] # <<>>

(* What every step of a deposit request relies on.  A deposit is either not  *)
(* credited at all or credited once, posted in the wallet and decided by a   *)
(* checker; an approval in flight is still by someone other than the maker,  *)
(* since the row it names is never created again.                            *)
Uncredited(d) == walletTxn[DepositRef(d)] = NoTxn /\ journal[DepositRef(d)] = <<>>

CreditedByChecker(d) ==
  /\ walletTxn[DepositRef(d)].status = "POSTED"
  /\ Len(journal[DepositRef(d)]) = 1
  /\ deposits[d].approvedBy \notin {None, deposits[d].requestedBy}

Owned(row) == row.investor \in Investors /\ row.requestedBy \in Users

RowsWellFormed ==
  \A d \in DepositIds :
    /\ deposits[d] # NoDeposit => Owned(deposits[d])
    /\ deposits[d].status = "APPROVED" => CreditedByChecker(d)
    /\ Uncredited(d) \/ CreditedByChecker(d)

CallWellFormed(c) ==
  /\ c.next = "createDeposit" =>
       c.investor \in Investors /\ c.by \in Users /\ c.key \in PaymentReferences
  /\ c.next \in {"approveDeposit", "rejectDeposit"} =>
       c.id \in DepositIds /\ deposits[c.id] # NoDeposit
  /\ c.next = "approveDeposit" =>
       c.by \in Users /\ c.by # deposits[c.id].requestedBy

CallsWellFormed == \A w \in Workers : CallWellFormed(call[w])

DepositsInv == TypeOK /\ RowsWellFormed /\ CallsWellFormed

(* However approvals overlap or are retried, a deposit is posted and credited *)
(* once at most (the journal alone would not stop a second entry: the wallet  *)
(* transaction's unique index does).                                          *)
CreditedAtMostOnce ==
  \A d \in DepositIds : Len(journal[DepositRef(d)]) <= 1

(* A deposit takes effect only on the decision of someone other than the user *)
(* who requested it, and the row names that approver even after a later write.*)
CreditNeedsChecker ==
  \A d \in DepositIds :
    Credited(d) => deposits[d].approvedBy \notin {None, deposits[d].requestedBy}

(* An APPROVED deposit has its money in the wallet: no failed, aborted or      *)
(* overlapping approval leaves the status without the posting.                 *)
ApprovedIsCredited ==
  \A d \in DepositIds :
    deposits[d].status = "APPROVED" =>
      Credited(d) /\ walletTxn[DepositRef(d)].status = "POSTED"

(* The payment reference is an idempotency key also for requests that overlap. *)
OneDepositPerReference ==
  \A d, e \in DepositIds :
    /\ deposits[d].paymentReference = deposits[e].paymentReference
    /\ deposits[d].paymentReference # None
    => d = e

(* What the class comment promises: a rejected deposit is never effective.     *)
RejectedNeverEffective ==
  \A d \in DepositIds : deposits[d].status = "REJECTED" => ~Credited(d)
=============================================================================
