-------------------------- MODULE RepaymentSchedule --------------------------
(***************************************************************************)
(* generateRepaymentSchedule: how an investment's principal and expected   *)
(* ROI are spread over the rows of its repayment schedule, what the        *)
(* DECIMAL(18,2) columns keep of them, and when the rows fall due.         *)
(*                                                                         *)
(* A plan is [type, tenure, percent]: the product's roiType and            *)
(* tenureMonths, and the opportunity's expectedRoi in units of 0.0001 %,   *)
(* the scale of its column.  Amounts are in tenths of a paisa (3 decimals  *)
(* of a rupee), what toDecimalPlaces(3) rounds to.                         *)
(***************************************************************************)
EXTENDS Integers, Sequences, Totals

RoiUnit == 1000000   \* 100 % in units of 0.0001 %

PlanTypes == {"MONTHLY", "QUARTERLY", "BULLET"}

(* m / d, d even, to the nearest integer, halves away from zero, the way    *)
(* decimal.js (ROUND_HALF_UP) and PostgreSQL's numeric both round.          *)
RoundedQuotient(m, d) ==
  IF m >= 0 THEN (m + d \div 2) \div d ELSE -((d \div 2 - m) \div d)

(* The months between two rows, and the number of rows (Math.ceil).         *)
PeriodMonths(plan) == IF plan.type = "MONTHLY" THEN 1 ELSE 3

PeriodCount(plan) ==
  IF plan.type = "BULLET" THEN 1
  ELSE (plan.tenure + PeriodMonths(plan) - 1) \div PeriodMonths(plan)

(* The total ROI in RoiUnit-ths of a tenth of a paisa, so that it is exact. *)
TotalRoi(principal, plan) == principal * plan.percent

RoiPerPeriod(principal, plan) ==
  RoundedQuotient(TotalRoi(principal, plan), RoiUnit * PeriodCount(plan))

(* Mutant: the last row also gives up a period's ROI of its own.            *)
RoiOfRowShort(principal, plan, k) ==
  IF k < PeriodCount(plan)
  THEN RoiUnit * RoiPerPeriod(principal, plan)
  ELSE TotalRoi(principal, plan)
         - RoiUnit * RoiPerPeriod(principal, plan) * PeriodCount(plan)

(* ROI of row k, exact, in the units of TotalRoi: the last row takes what   *)
(* the rounded ones before it leave, which may be less than nothing.        *)
RoiOfRow(principal, plan, k) ==
  IF k < PeriodCount(plan)
  THEN RoiUnit * RoiPerPeriod(principal, plan)
  ELSE TotalRoi(principal, plan)
         - RoiUnit * RoiPerPeriod(principal, plan) * (PeriodCount(plan) - 1)

(* Mutant: every row repays the principal.                                  *)
PrincipalOfEveryRow(principal, plan, k) == principal

PrincipalOfRow(principal, plan, k) == IF k < PeriodCount(plan) THEN 0 ELSE principal

(* What the columns of row k hold, in paise.                                *)
InPaise(exact) == RoundedQuotient(exact, 10 * RoiUnit)

StoredRow(principal, plan, k) ==
  LET due == PrincipalOfRow(principal, plan, k)
      roi == RoiOfRow(principal, plan, k)
  IN  [principalDue |-> InPaise(RoiUnit * due),
       roiDue       |-> InPaise(roi),
       totalDue     |-> InPaise(RoiUnit * due + roi)]

Generate(principal, plan) ==
  [k \in 1 .. PeriodCount(plan) |-> StoredRow(principal, plan, k)]
-----------------------------------------------------------------------------
(* Due dates: setMonth keeps the day of the month and lets a day the month  *)
(* does not have run over into the next.  A day is a number counted from    *)
(* the first of January of a year after a leap year.                        *)
MonthLength(m) ==
  CASE m % 12 \in {3, 5, 8, 10} -> 30
    [] m % 12 = 1 -> IF m % 48 = 37 THEN 29 ELSE 28
    [] OTHER -> 31

DaysBefore(m) == Total([k \in 0 .. m - 1 |-> MonthLength(k)])

AddMonths(date, n) == DaysBefore(date.month + n) + date.day

(* Mutant: an uneven last quarter lasts three months all the same.          *)
MonthsElapsedUncapped(plan, k) ==
  IF plan.type = "BULLET" THEN plan.tenure ELSE k * PeriodMonths(plan)

MonthsElapsed(plan, k) ==
  IF plan.type = "BULLET" \/ k * PeriodMonths(plan) > plan.tenure
  THEN plan.tenure
  ELSE k * PeriodMonths(plan)

DueDate(date, plan, k) == AddMonths(date, MonthsElapsed(plan, k))
=============================================================================
