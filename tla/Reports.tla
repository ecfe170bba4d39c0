------------------------------ MODULE Reports ------------------------------
(***************************************************************************)
(* ReportsService: the figures of the dashboard and of the management      *)
(* report, over the tables of the whole platform.  A figure is that of one *)
(* moment; a response takes several queries, each with a snapshot of its   *)
(* own, so beside other requests its figures may be of different moments.  *)
(***************************************************************************)
EXTENDS Platform

InStatus(statuses) == {v \in InvestmentIds : investments[v].status \in statuses}

PostedTxns(direction) ==
  {r \in References : walletTxn[r].status = "POSTED" /\ Direction(r[1]) = direction}

SumAmounts(refs) == Total([r \in refs |-> walletTxn[r].amount])
-----------------------------------------------------------------------------
(* summary.                                                                  *)
TotalWalletBalance == SumAmounts(PostedTxns("CREDIT")) - SumAmounts(PostedTxns("DEBIT"))

TotalInvested == Inv!Principal(InStatus({"ACTIVE"}))

TotalRoiPaid == SumAmounts({r \in PostedTxns("CREDIT") : r[1] = "REPAYMENT_ROI_WALLET"})

(* Mutant: what is approved is no longer pending.                            *)
UndecidedWithdrawals == {x \in WithdrawalIds : withdrawals[x].status = "PENDING"}

PendingWithdrawals == {x \in WithdrawalIds : withdrawals[x].status \in {"PENDING", "APPROVED"}}

PendingAmount == Total([x \in PendingWithdrawals |-> withdrawals[x].amount])
-----------------------------------------------------------------------------
(* management.                                                               *)
TotalAUM == TotalWalletBalance + TotalInvested

AllLines == UNION {{r} \X DOMAIN journal[r] : r \in References}

CashPosition ==
  SumLines({l \in AllLines : DebitAccount(l[1][1]) = "1010"})
    - SumLines({l \in AllLines : CreditAccount(l[1][1]) = "1010"})

DefaultedPrincipal == Inv!Principal(InStatus({"DEFAULTED"}))
-----------------------------------------------------------------------------
(* The figures of the management report tie together: cash and the assets    *)
(* under management differ by the ROI received and not disbursed, and by the *)
(* principal of investments that are no longer active, less the principal    *)
(* disbursed, and by nothing else.                                           *)
CashExplained ==
  LET recorded  == Total([r \in RepaymentIds |-> repayments[r].roi])
      disbursed == {r \in RepaymentIds : repayments[r].status = "DISBURSED"}
      ended     == Inv!Principal(InStatus({"CLOSED"})) + DefaultedPrincipal
  IN  CashPosition - TotalAUM = recorded - TotalRoiPaid + ended - Rep!SumPrincipal(disbursed)

(* What withdrawals wait for is what the wallets have reserved.              *)
PendingIsReserved == PendingAmount = Total([i \in Investors |-> Reserved(i)])

ManagementExplained ==
  /\ CashExplained
  /\ PendingIsReserved
=============================================================================
