------------------------------ MODULE MCBooks ------------------------------
(* A small instance of the books for TLC. *)
EXTENDS Books

(* A sub-ledger of the bank account, and an account of a wrong group.        *)
MCNewAccounts ==
  {[code |-> "1011", parent |-> "1010", type |-> "ASSET", group |-> "CASH_AND_CASH_EQUIVALENTS"],
   [code |-> "2011", parent |-> "", type |-> "LIABILITY", group |-> "OTHER_INCOME"]}

MCAccountUpdates ==
  {[code |-> "5010", status |-> "INACTIVE", group |-> "KEEP"],
   [code |-> "5010", status |-> "ACTIVE", group |-> "KEEP"],
   [code |-> "1030", status |-> "KEEP", group |-> "CASH_AND_CASH_EQUIVALENTS"]}

MCAdjustments == {<<"5010", "1010">>}

Symmetry == Permutations(Workers) \cup Permutations(Users) \cup Permutations(EntryIds)
=============================================================================
