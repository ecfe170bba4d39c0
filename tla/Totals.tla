------------------------------- MODULE Totals -------------------------------
(***************************************************************************)
(* Sums of amounts, what Prisma's aggregate({ _sum }) and sumMoney return: *)
(* the total of a function is the number of its units, one pair <<x, k>>   *)
(* for each k in 1..f[x].  Counting units instead of folding + makes the   *)
(* laws of sums consequences of the laws of Cardinality (StoreProofs).     *)
(***************************************************************************)
EXTENDS Integers, FiniteSets

Units(f) == UNION {{x} \X (1 .. f[x]) : x \in DOMAIN f}

Total(f) == Cardinality(Units(f))
=============================================================================
