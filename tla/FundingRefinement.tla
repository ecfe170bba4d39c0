------------------------- MODULE FundingRefinement -------------------------
(***************************************************************************)
(* Investing implements FundingPromise: what an investor has paid are the  *)
(* debits of the wallet, what an opportunity has raised is the principal   *)
(* of its investments, and it is open while its status column says so.     *)
(***************************************************************************)
EXTENDS Investments

Funding == INSTANCE FundingPromise WITH
             paid   <- [i \in Investors |-> PostedDebits(i)],
             raised <- [o \in Opportunities |-> Committed(o)],
             open   <- [o \in Opportunities |-> opportunities[o] = "OPEN"]

(* However requests to invest overlap, fail and abort, and however their     *)
(* amounts are rounded, what the tables of three services say is a history   *)
(* of the promise: each amount is debited and committed in one step, only    *)
(* while the opportunity is open and it fits, and closes it only if full.    *)
ImplementsFunding == Funding!Spec
=============================================================================
