--------------------------- MODULE DepositPromise ---------------------------
(***************************************************************************)
(* What the deposit workflow promises, with no requests, transactions or   *)
(* tables in sight: a deposit has one maker, and it is credited at most    *)
(* once, on the word of a checker who is not its maker.                    *)
(***************************************************************************)
EXTENDS Naturals

CONSTANTS DepositIds, Users, None

VARIABLES maker,    \* who requested each deposit, None while nobody has
          checker,  \* who approved it, None while nobody has
          credits   \* how many times the ledger and the wallet were credited

vars == <<maker, checker, credits>>

Init ==
  /\ maker   = [d \in DepositIds |-> None]
  /\ checker = [d \in DepositIds |-> None]
  /\ credits = [d \in DepositIds |-> 0]

Request(d, u) ==
  /\ maker[d] = None
  /\ maker' = [maker EXCEPT ![d] = u]
  /\ UNCHANGED <<checker, credits>>

Credit(d, u) ==
  /\ maker[d] \notin {None, u}
  /\ credits[d] = 0
  /\ checker' = [checker EXCEPT ![d] = u]
  /\ credits' = [credits EXCEPT ![d] = 1]
  /\ UNCHANGED maker

Next == \E d \in DepositIds, u \in Users : Request(d, u) \/ Credit(d, u)

Spec == Init /\ [][Next]_vars
=============================================================================
