--------------------------- MODULE Reconciliation ---------------------------
(***************************************************************************)
(* ReconciliationService over the tables of investing and repaying: for    *)
(* each control account in turn it reads the ledger and the sub-ledger, in *)
(* queries that see different moments, and commits what it found row by    *)
(* row, outside any transaction.  The reports that are built from the same *)
(* sub-ledgers follow.                                                     *)
(***************************************************************************)
EXTENDS Repayments, FiniteSetsExt

VARIABLES recon,    \* the run being served
          written   \* the last reconciliation row and its items, until something else
                    \* commits: no handler reads them

reconciliationVars == <<repaymentVars, recon, written>>

Unread == [i \in Investors |-> 0]

NotRunning == [account |-> "none", unread |-> {}, gl |-> Unread, listed |-> {},
               sub |-> Unread, open |-> {}, quiet |-> TRUE]

NoRow == [account |-> "none", difference |-> Unread, status |-> "NONE", items |-> {},
          quiet |-> FALSE]

(* CONTROL_ACCOUNT_CODES, in the order they are reconciled.                  *)
NextAccount(account) ==
  CASE account = "2010" -> "2020" [] account = "2020" -> "2030" [] account = "2030" -> "none"

(* The queries of an account: the ledger's, and those of its sub-ledger.     *)
Queries(account) ==
  CASE account = "none" -> {}
    [] account = "2010" -> {"gl", "sub"}
    [] OTHER            -> {"gl", "listed", "sub"}

Reconcile(account) == [NotRunning EXCEPT !.account = account, !.unread = Queries(account)]

tables == <<investorStatus, walletTxn, journal, investmentTables, repayments>>

(* A request's commit makes what the run has read so far a picture of no     *)
(* single moment.                                                            *)
Overlap ==
  IF UNCHANGED tables
  THEN UNCHANGED <<recon, written>>
  ELSE /\ recon' = [recon EXCEPT !.quiet = (@ /\ recon.account = "none")]
       /\ written' = NoRow

NothingCommitted == UNCHANGED repaymentVars
-----------------------------------------------------------------------------
(* glBalancesByInvestor.                                                     *)
Ledger(account) == [i \in Investors |-> GLBalance(account, i)]

(* The first query of a sub-ledger: the investments that are not written off,*)
(* or the accrued rows.  What they are due does not change afterwards.       *)
AccruedRows ==
  {vk \in InvestmentIds \X (1 .. MaxPeriods) :
     vk[2] \in DOMAIN schedules[vk[1]] /\ schedules[vk[1]][vk[2]].accrued}

ListedRows(account) ==
  CASE account = "2020" -> {<<v, 0>> : v \in {x \in InvestmentIds : investments[x] # NoInvestment}}
    [] account = "2030" -> AccruedRows
    [] OTHER            -> {}

Of(i, rows) == {vk \in rows : investments[vk[1]].investor = i}

(* Mutant: what was recorded counts, disbursed or not.                      *)
RecordedAgainst(rows) ==
  {r \in RepaymentIds : /\ repayments[r].status # "NONE"
                        /\ <<repayments[r].investment, repayments[r].period>> \in rows}

(* The second: what has been disbursed against them.                         *)
DisbursedAgainst(rows) ==
  {r \in RepaymentIds : /\ repayments[r].status = "DISBURSED"
                        /\ <<repayments[r].investment, repayments[r].period>> \in rows}

DisbursedOf(V) == {r \in RepaymentIds : /\ repayments[r].status = "DISBURSED"
                                        /\ repayments[r].investment \in V}

SubLedger(account, rows) ==
  CASE account = "2010" -> [i \in Investors |-> AvailableBalance(i)]
    [] account = "2020" -> [i \in Investors |->
         LET V == {vk[1] : vk \in Of(i, rows)} IN Principal(V) - SumPrincipal(DisbursedOf(V))]
    [] account = "2030" -> [i \in Investors |->
         Total([vk \in Of(i, rows) |-> schedules[vk[1]][vk[2]].roiDue])
           - Total([r \in DisbursedAgainst(Of(i, rows)) |-> repayments[r].roi])]
-----------------------------------------------------------------------------
StartReconciliation ==
  /\ recon.account = "none"
  /\ recon' = Reconcile("2010")
  /\ UNCHANGED written
  /\ NothingCommitted

ReadLedger ==
  /\ "gl" \in recon.unread
  /\ recon' = [recon EXCEPT !.unread = @ \ {"gl"}, !.gl = Ledger(recon.account)]
  /\ UNCHANGED written
  /\ NothingCommitted

ListRows ==
  /\ "listed" \in recon.unread
  /\ recon' = [recon EXCEPT !.unread = @ \ {"listed"}, !.listed = ListedRows(recon.account)]
  /\ UNCHANGED written
  /\ NothingCommitted

ReadSubLedger ==
  /\ "sub" \in recon.unread
  /\ "listed" \notin recon.unread
  /\ recon' = [recon EXCEPT !.unread = @ \ {"sub"},
                            !.sub = SubLedger(recon.account, recon.listed)]
  /\ UNCHANGED written
  /\ NothingCommitted

Difference == [i \in Investors |-> recon.gl[i] - recon.sub[i]]

InTotal(f) == MapThenSumSet(LAMBDA i : f[i], Investors)

(* Once the last item is committed, the next account's turn.                 *)
Advance(items) ==
  recon' = IF items = {} THEN Reconcile(NextAccount(recon.account))
                         ELSE [recon EXCEPT !.open = items]

Status(difference) == IF difference = 0 THEN "RECONCILED" ELSE "EXCEPTION"

CreateRow ==
  /\ recon.account # "none" /\ recon.unread = {} /\ recon.open = {}
  /\ written' = [account |-> recon.account, difference |-> Difference, items |-> {},
                 status |-> Status(InTotal(Difference)), quiet |-> recon.quiet]
  /\ Advance({i \in Investors : Difference[i] # 0})
  /\ NothingCommitted

CreateItem(i) ==
  /\ i \in recon.open
  /\ written' = [written EXCEPT !.items = @ \cup {i}]
  /\ Advance(recon.open \ {i})
  /\ NothingCommitted

(* The request dies: the rows and items committed so far stay.               *)
AbortReconciliation ==
  /\ recon.account # "none"
  /\ recon' = NotRunning
  /\ UNCHANGED written
  /\ NothingCommitted

Reconciling ==
  \/ StartReconciliation
  \/ ReadLedger
  \/ ListRows
  \/ ReadSubLedger
  \/ CreateRow
  \/ \E i \in Investors : CreateItem(i)
  \/ AbortReconciliation

RunInit == RepaymentInit /\ recon = NotRunning /\ written = NoRow

(* The run is one more request, beside those of the workers.                 *)
RunNext ==
  \/ Reconciling
  \/ RepayNext /\ Overlap

RunSpec == RunInit /\ [][RunNext]_reconciliationVars
-----------------------------------------------------------------------------
(* The figures of the reports below are those of one moment.  Each report    *)
(* reads its tables in queries of their own, which see different moments     *)
(* beside other requests, as the queries of a reconciliation do above.       *)
(*                                                                           *)
(* InvestorRoi: what has been accrued for an investor, and received.         *)
Outstanding(i) ==
  Total([vk \in Of(i, AccruedRows) |-> schedules[vk[1]][vk[2]].roiDue])
    - Total([r \in {x \in RepaymentIds : repayments[x].investment \in InvestedBy(i)} |->
               repayments[r].roi])

(* InvestmentReceivables: the posted lines of 1030 that name an investment   *)
(* of V, added up.                                                           *)
PostedUnder(refs) == UNION {{r} \X DOMAIN journal[r] : r \in refs}

Receivable(V) ==
  SumLines(PostedUnder({AccrualRef(v, k) : v \in V, k \in 1 .. MaxPeriods}))
    - SumLines(PostedUnder({RoiCashRef(r) : r \in {x \in RepaymentIds : repayments[x].investment \in V}}))

(* InvestorLiabilities: the three sub-ledgers side by side.                  *)
ControlAccounts == {"2010", "2020", "2030"}

Liabilities(i) ==
  SubLedger("2010", ListedRows("2010"))[i]
    + SubLedger("2020", ListedRows("2020"))[i]
    + SubLedger("2030", ListedRows("2030"))[i]

LiabilitiesOnLedger(i) ==
  SumLines({l \in Lines(i) : CreditAccount(l[1][1]) \in ControlAccounts})
    - SumLines({l \in Lines(i) : DebitAccount(l[1][1]) \in ControlAccounts})
-----------------------------------------------------------------------------
(* The two ways an investor's ROI leaves its sub-ledger: a row accrued again *)
(* by an overlapping request, and ROI disbursed that names no accrued row.   *)
AccruedAgain(i) ==
  Total([vk \in Of(i, AccruedRows) |->
           (Len(journal[AccrualRef(vk[1], vk[2])]) - 1) * schedules[vk[1]][vk[2]].roiDue])

Unscheduled(i) ==
  Total([r \in {x \in DisbursedOf(InvestedBy(i)) : repayments[x].period = 0} |-> repayments[r].roi])

(* Of a reconciliation nothing was committed during: the wallet and the      *)
(* investment payable reconcile, and the ROI payable is off by exactly the   *)
(* ROI accrued twice or disbursed without a schedule, and by nothing else.   *)
QuietRunTellsTruth ==
  written.quiet =>
    \A i \in Investors :
      written.difference[i] = IF written.account = "2030" THEN AccruedAgain(i) - Unscheduled(i) ELSE 0

(* What makes it so: while nothing else commits, what a run has read is what *)
(* the tables say.                                                           *)
ReconShape ==
  /\ recon \in [account : {"none"} \cup ControlAccounts, unread : SUBSET {"gl", "listed", "sub"},
                gl : {recon.gl}, listed : {recon.listed}, sub : {recon.sub},
                open : SUBSET Investors, quiet : BOOLEAN]
  /\ recon.account = "none" => recon.open = {} /\ recon.unread = {}
  /\ "listed" \in recon.unread => "sub" \in recon.unread
  /\ written \in [account : {"none"} \cup ControlAccounts, difference : {written.difference},
                  status : {written.status}, items : {written.items}, quiet : BOOLEAN]

QuietReads ==
  recon.quiet /\ recon.account # "none" =>
    /\ "gl" \notin recon.unread => recon.gl = Ledger(recon.account)
    /\ "listed" \notin recon.unread => recon.listed = ListedRows(recon.account)
    /\ "sub" \notin recon.unread => recon.sub = SubLedger(recon.account, recon.listed)

ReconInv == ReconShape /\ QuietReads /\ QuietRunTellsTruth

(* The reports that mix ledger and business tables differ by that, too, and  *)
(* by nothing else, whichever requests overlapped.                           *)
RoiReportsExplained ==
  \A i \in Investors :
    /\ Liabilities(i) = LiabilitiesOnLedger(i) - AccruedAgain(i) + Unscheduled(i)
    /\ Receivable(InvestedBy(i)) = Outstanding(i) + AccruedAgain(i)
=============================================================================
