------------------------------ MODULE Postings ------------------------------
(***************************************************************************)
(* The accounts each kind of reference debits and credits, in the calls of *)
(* createAndPostJournal of the services that move money, each with the two *)
(* lines of its own: approve of deposits, complete of withdrawals, invest, *)
(* and accrueRoi, recordRepayment and disburseRepayments of repayments;    *)
(* and what the ledger engine checks of the lines.                         *)
(***************************************************************************)
EXTENDS Integers

DebitAccount(kind) ==
  CASE kind \in {"DEPOSIT", "REPAYMENT_ROI_CASH"} -> "1010"
    [] kind \in {"WITHDRAWAL", "INVESTMENT"}      -> "2010"
    [] kind = "ROI_ACCRUAL"                       -> "1030"
    [] kind = "REPAYMENT_ROI_WALLET"              -> "2030"
    [] kind = "REPAYMENT_PRINCIPAL"               -> "2020"

CreditAccount(kind) ==
  CASE kind \in {"DEPOSIT", "REPAYMENT_ROI_WALLET", "REPAYMENT_PRINCIPAL"} -> "2010"
    [] kind = "WITHDRAWAL"         -> "1010"
    [] kind = "INVESTMENT"         -> "2020"
    [] kind = "ROI_ACCRUAL"        -> "2030"
    [] kind = "REPAYMENT_ROI_CASH" -> "1030"

(* validateLines on the two lines of a template: neither may be zero.       *)
ValidLines(amount) == amount > 0
=============================================================================
