------------------------- MODULE DepositsRefinement -------------------------
(***************************************************************************)
(* The deposit workflow implements DepositPromise: the maker and the       *)
(* checker are columns of the row, the credits are the journal entries     *)
(* posted under the deposit's reference.                                   *)
(***************************************************************************)
EXTENDS Deposits

Promise == INSTANCE DepositPromise WITH
             maker   <- [d \in DepositIds |-> deposits[d].requestedBy],
             checker <- [d \in DepositIds |-> deposits[d].approvedBy],
             credits <- [d \in DepositIds |-> Len(journal[DepositRef(d)])]

(* Every behaviour of overlapping, failing and aborted deposit requests is a *)
(* behaviour of the promise.                                                 *)
ImplementsPromise == Promise!Spec
=============================================================================
