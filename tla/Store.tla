------------------------------- MODULE Store -------------------------------
(***************************************************************************)
(* The PostgreSQL tables the money-moving services share, the journal they *)
(* post through, and the requests the application is serving.              *)
(*                                                                         *)
(* Transactions run at READ COMMITTED, the default nothing overrides.  A   *)
(* handler is modelled as its reads, each a step that sees what has been   *)
(* committed by then, followed by one step for its commit.  Writes of a    *)
(* transaction are invisible to the others until it commits, a second      *)
(* writer of the same row waits for the first to end, and a unique index   *)
(* makes the second inserter wait and then fail; so committing the writes  *)
(* in one step, the last committer winning a row, loses no behaviour of a  *)
(* handler whose reads all precede its writes.                             *)
(***************************************************************************)
EXTENDS Integers, Sequences, FiniteSets, Totals, Postings

CONSTANTS Workers,        \* requests the application can serve at a time
          Users,          \* authenticated callers
          Investors,
          DepositIds, WithdrawalIds, InvestmentIds, RepaymentIds,
          MaxPeriods,     \* most rows a repayment schedule has
          PaymentReferences, Opportunities,
          Amounts,        \* amounts callers ask for, in tenths of a paisa
          None            \* SQL NULL

DocumentIds == DepositIds \cup WithdrawalIds \cup InvestmentIds \cup RepaymentIds

ASSUME StoreAssumption ==
  /\ Amounts \subseteq Nat \ {0}
  /\ MaxPeriods \in Nat
  /\ None \notin Users \cup Investors \cup DocumentIds
                   \cup PaymentReferences \cup Opportunities

(* Tables are finite; only what is said of sums needs it.                   *)
ASSUME FiniteAssumption == IsFiniteSet(DocumentIds)

VARIABLES investorStatus, \* the status column of investors
          walletTxn,      \* wallet_transactions, by (reference_type, reference_id)
          journal,        \* journal_entries, by (reference_type, reference_id)
          call            \* what each worker's handler will do next

storeVars == <<investorStatus, walletTxn, journal, call>>
-----------------------------------------------------------------------------
(* The reference a journal entry or a wallet transaction is created for.    *)
DepositRef(d)    == <<"DEPOSIT", d>>
WithdrawalRef(d) == <<"WITHDRAWAL", d>>
InvestmentRef(d) == <<"INVESTMENT", d>>
AccrualRef(v, k) == <<"ROI_ACCRUAL", <<v, k>>>>   \* row k of v's schedule
RoiCashRef(r)    == <<"REPAYMENT_ROI_CASH", r>>
RoiWalletRef(r)  == <<"REPAYMENT_ROI_WALLET", r>>
PrincipalRef(r)  == <<"REPAYMENT_PRINCIPAL", r>>

References == {DepositRef(d) : d \in DepositIds}
                \cup {WithdrawalRef(d) : d \in WithdrawalIds}
                \cup {InvestmentRef(d) : d \in InvestmentIds}
                \cup {AccrualRef(v, k) : v \in InvestmentIds, k \in 1 .. MaxPeriods}
                \cup {RoiCashRef(r) : r \in RepaymentIds}
                \cup {RoiWalletRef(r) : r \in RepaymentIds}
                \cup {PrincipalRef(r) : r \in RepaymentIds}

(* What DECIMAL(18,2) keeps of a request's amount: rounded half up to paise.*)
Column(a) == (a + 5) \div 10

(* Wallet transactions: a row per reference at most, by the unique index.   *)
TxnStatus == {"NONE", "PENDING", "POSTED", "CANCELLED"}
Txn       == [status : TxnStatus, investor : Investors \cup {None}, amount : Nat]
NoTxn     == [status |-> "NONE", investor |-> None, amount |-> 0]

Direction(kind) == IF kind \in {"WITHDRAWAL", "INVESTMENT"} THEN "DEBIT" ELSE "CREDIT"

(* Posted journal entries: nothing makes a reference unique here, so each   *)
(* reference has the sequence of the entries posted under it.               *)
Entry == [investor : Investors, amount : Nat]

Posted(entries, ref, i, amount) ==
  [entries EXCEPT ![ref] = Append(@, [investor |-> i, amount |-> amount])]

PostJournal(ref, i, amount) == journal' = Posted(journal, ref, i, amount)

WithTxn(txns, ref, i, amount, status) ==
  [txns EXCEPT ![ref] = [status |-> status, investor |-> i, amount |-> amount]]

CreateTxn(ref, i, amount, status) ==
  walletTxn' = WithTxn(walletTxn, ref, i, amount, status)
-----------------------------------------------------------------------------
(* Requests in flight.                                                      *)
Steps == {"idle",
          "activate", "auditActivation",
          "createDeposit", "approveDeposit", "rejectDeposit",
          "sumCredits", "sumDebits", "sumReserved", "createWithdrawal",
          "approveWithdrawal", "completeWithdrawal", "rejectWithdrawal",
          "lockOpportunity", "sumInvestorCredits", "sumInvestorDebits", "createInvestment",
          "markDefaulted", "accrueRoi", "checkSchedule", "sumSchedulePaid",
          "lockSchedule", "sumRepaid", "createRepayment", "disburse"}

Calls == [next     : Steps,
          id       : DocumentIds \cup {None},
          by       : Users \cup {None},
          investor : Investors \cup {None},
          key      : PaymentReferences \cup Opportunities \cup {None},
          amount   : Nat,     \* what the request asks for
          roi      : Nat,     \* a repayment's ROI and other amounts
          other    : Nat,
          period   : Nat,     \* the schedule row it names, 0 for none
          seen     : Int,     \* the balance, or the paid total, read so far
          total    : Nat]     \* the second total the handler reads

Idle == [next |-> "idle", id |-> None, by |-> None, investor |-> None, key |-> None,
         amount |-> 0, roi |-> 0, other |-> 0, period |-> 0, seen |-> 0, total |-> 0]

Begin(w, c) == call[w] = Idle /\ call' = [call EXCEPT ![w] = c]
Go(w, step, balance) == call' = [call EXCEPT ![w].next = step, ![w].seen = balance]
End(w) == call' = [call EXCEPT ![w] = Idle]

(* The process dies, the connection drops, or the interactive transaction   *)
(* outlives its time limit: PostgreSQL rolls the transaction back.          *)
Abort(w) ==
  /\ call[w] # Idle
  /\ End(w)
  /\ UNCHANGED <<investorStatus, walletTxn, journal>>
-----------------------------------------------------------------------------
(* Balances: WalletService and the reconciliation's two sides.              *)
Txns(i, status, direction) ==
  {r \in References : /\ walletTxn[r].status = status
                      /\ walletTxn[r].investor = i
                      /\ Direction(r[1]) = direction}

SumTxns(i, status, direction) ==
  Total([r \in Txns(i, status, direction) |-> walletTxn[r].amount])

PostedCredits(i)    == SumTxns(i, "POSTED", "CREDIT")
PostedDebits(i)     == SumTxns(i, "POSTED", "DEBIT")
Reserved(i)         == SumTxns(i, "PENDING", "DEBIT")
AvailableBalance(i) == PostedCredits(i) - PostedDebits(i)

(* Mutant: a registered investor need not be activated.                     *)
MayTransactOnceRegistered(i) == investorStatus[i] # "NONE"

(* The guard of every request made for an investor.                         *)
MayTransact(i) == investorStatus[i] = "ACTIVE"

(* Net credit of a control account for an investor, over the posted lines.  *)
Lines(i) == {l \in UNION {{r} \X DOMAIN journal[r] : r \in References} :
               journal[l[1]][l[2]].investor = i}

SumLines(lines) == Total([l \in lines |-> journal[l[1]][l[2]].amount])

GLBalance(account, i) ==
  SumLines({l \in Lines(i) : CreditAccount(l[1][1]) = account})
    - SumLines({l \in Lines(i) : DebitAccount(l[1][1]) = account})
-----------------------------------------------------------------------------
(* The GL wallet liability of each investor equals the posted wallet        *)
(* transactions, after every commit, whichever requests failed, overlapped  *)
(* or were cut short: the control the reconciliation of 2010 checks.        *)
LedgerAgreesWithWallet ==
  \A i \in Investors : GLBalance("2010", i) = AvailableBalance(i)

(* What makes them equal: of each reference the wallet has to do with, a     *)
(* posted transaction has one entry, with its investor and amount, and any   *)
(* other none; and only a withdrawal's is pending.                           *)
WalletKinds == {"DEPOSIT", "WITHDRAWAL", "INVESTMENT", "REPAYMENT_ROI_WALLET",
                "REPAYMENT_PRINCIPAL"}

MirroredAt(r) ==
  IF walletTxn[r].status = "POSTED"
  THEN /\ r[1] \in WalletKinds
       /\ journal[r] = <<[investor |-> walletTxn[r].investor, amount |-> walletTxn[r].amount]>>
  ELSE /\ r[1] \in WalletKinds => journal[r] = <<>>
       /\ walletTxn[r].status = "PENDING" => r[1] = "WITHDRAWAL"

Mirrored == \A r \in References : MirroredAt(r)

(* What a wallet has paid out or invested, it had.                          *)
WalletNeverOverdrawn ==
  \A i \in Investors : AvailableBalance(i) >= 0
-----------------------------------------------------------------------------
StoreTypeOK ==
  /\ investorStatus \in [Investors -> {"NONE", "PENDING_ACTIVATION", "ACTIVE"}]
  /\ walletTxn \in [References -> Txn]
  /\ journal \in [References -> Seq(Entry)]
  /\ call \in [Workers -> Calls]

(* Everything in `opening', a function from references to entries, has been *)
(* posted to the journal and to the wallet; nothing else has, and nothing is*)
(* being served.                                                            *)
OpenWith(opening) ==
  /\ walletTxn = [r \in References |->
       IF r \in DOMAIN opening
       THEN [status |-> "POSTED", investor |-> opening[r].investor, amount |-> opening[r].amount]
       ELSE NoTxn]
  /\ journal = [r \in References |-> IF r \in DOMAIN opening THEN <<opening[r]>> ELSE <<>>]
  /\ call = [w \in Workers |-> Idle]

(* Each id of DepositIds is a deposit of `amount' approved before the start.*)
DepositedBefore(owner, amount) ==
  [r \in {DepositRef(d) : d \in DepositIds} |-> [investor |-> owner[r[2]], amount |-> amount]]

StoreInit ==
  /\ walletTxn = [r \in References |-> NoTxn]
  /\ journal = [r \in References |-> <<>>]
  /\ call = [w \in Workers |-> Idle]
=============================================================================
