--------------------------- MODULE ScheduleChecks ---------------------------
(***************************************************************************)
(* The generator against what it promises, over every input in bounds: an  *)
(* initial state for each, and no steps but stuttering ones.               *)
(***************************************************************************)
EXTENDS RepaymentSchedule

CONSTANTS Principals,  \* in tenths of a paisa
          Percents,    \* in units of 0.0001 %
          Tenures,     \* in months
          Dates        \* investment dates, [month : 0.., day : 1..]

(* DTOs ask for a tenure of a month at least, and of a rate for a number.   *)
ASSUME ScheduleAssumption ==
  /\ Principals \subseteq Nat
  /\ Percents \subseteq Int
  /\ Tenures \subseteq Nat \ {0}
  /\ Dates \subseteq [month : Nat, day : Nat]

VARIABLES principal, plan, date

inputs == <<principal, plan, date>>

AnyInputs ==
  /\ principal \in Principals
  /\ plan \in [type : PlanTypes, tenure : Tenures, percent : Percents]
  /\ date \in {d \in Dates : d.day <= MonthLength(d.month)}

SameInputs == UNCHANGED inputs

Generation == AnyInputs /\ [][SameInputs]_inputs
-----------------------------------------------------------------------------
GeneratedRows == Generate(principal, plan)

(* The ROI of a row may be negative, and Total counts units.                *)
StoredRoi == Total([k \in DOMAIN GeneratedRows |-> GeneratedRows[k].roiDue])
               - Total([k \in DOMAIN GeneratedRows |-> 0 - GeneratedRows[k].roiDue])

WholeRoi == InPaise(TotalRoi(principal, plan))

(* The rows repay the principal exactly once, with the last of them.        *)
PrincipalDueOnce ==
  Total([k \in DOMAIN GeneratedRows |-> GeneratedRows[k].principalDue]) = InPaise(RoiUnit * principal)

(* What the generator's comment promises: the schedule's ROI is the          *)
(* investment's, with no cent lost.  The rows as they are stored lose some.  *)
StoredRoiIsWhole == StoredRoi = WholeRoi

(* How much: rounding the rows to paise moves the whole ROI by at most half *)
(* a paisa per row, and as much for the rounding of the whole.              *)
RoiDriftBounded ==
  LET drift == StoredRoi - WholeRoi IN
  /\ 2 * drift <= PeriodCount(plan) + 1
  /\ -(PeriodCount(plan) + 1) <= 2 * drift

(* Rows fall due one after another, after the investment, the last of them  *)
(* at the end of the tenure, though days of the month may run over.         *)
DueDatesIncrease ==
  LET due == [k \in 0 .. PeriodCount(plan) |->
                IF k = 0 THEN AddMonths(date, 0) ELSE DueDate(date, plan, k)]
  IN  /\ \A k \in DOMAIN GeneratedRows : due[k - 1] < due[k]
      /\ due[PeriodCount(plan)] = AddMonths(date, plan.tenure)
=============================================================================
