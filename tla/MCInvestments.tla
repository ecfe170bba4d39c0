--------------------------- MODULE MCInvestments ---------------------------
(* Small instances of investing for TLC. *)
EXTENDS FundingRefinement, TLC

MCTarget  == [o \in Opportunities |-> 2]
MCMinimum == [o \in Opportunities |-> 0]
MCMaximum == [o \in Opportunities |-> 1]
MCPlan    == [o \in Opportunities |-> [type |-> "MONTHLY", tenure |-> 2, percent |-> RoiUnit]]

(* A bound: ids are taken in their order, as it makes no difference which    *)
(* one an investment has.                                                    *)
IdsInOrder ==
  \A v, x \in InvestmentIds :
    x < v /\ investments'[v] # NoInvestment => investments'[x] # NoInvestment
=============================================================================
