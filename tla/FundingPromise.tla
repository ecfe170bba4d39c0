--------------------------- MODULE FundingPromise ---------------------------
(***************************************************************************)
(* What investing promises, with no requests, locks or tables in sight:    *)
(* an opportunity that is open takes amounts while they fit its target,    *)
(* each paid by one investor and at once; it closes for good, and only     *)
(* with the amount that fills it.                                          *)
(***************************************************************************)
EXTENDS Naturals

CONSTANTS Investors, Opportunities,
          Target    \* what each opportunity is to raise

VARIABLES paid,     \* what each investor has paid, into any opportunity
          raised,   \* what each opportunity has
          open      \* whether it takes more

vars == <<paid, raised, open>>

Init ==
  /\ paid   = [i \in Investors |-> 0]
  /\ raised = [o \in Opportunities |-> 0]
  /\ open   = [o \in Opportunities |-> TRUE]

(* An amount that fills the opportunity need not close it: it may have been *)
(* less before it was rounded to paise.                                     *)
Invest(i, o, a) ==
  /\ open[o]
  /\ raised[o] + a <= Target[o]
  /\ paid'   = [paid EXCEPT ![i] = @ + a]
  /\ raised' = [raised EXCEPT ![o] = @ + a]
  /\ \/ UNCHANGED open
     \/ /\ raised[o] + a = Target[o]
        /\ open' = [open EXCEPT ![o] = FALSE]

Next ==
  \E i \in Investors, o \in Opportunities : \E a \in 1 .. Target[o] : Invest(i, o, a)

Spec == Init /\ [][Next]_vars
=============================================================================
