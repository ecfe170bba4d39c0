----------------------------- MODULE MCDeposits -----------------------------
(* Small instances of the deposit workflow for TLC. *)
EXTENDS DepositsRefinement, TLC

Symmetry == Permutations(Workers) \cup Permutations(DepositIds)
              \cup Permutations(Users) \cup Permutations(PaymentReferences)
=============================================================================
