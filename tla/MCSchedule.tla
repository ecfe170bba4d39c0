----------------------------- MODULE MCSchedule -----------------------------
(* Bounds for the checks of the schedule generator. *)
EXTENDS ScheduleChecks

MCDates == [month : {0, 2, 11, 36}, day : {1, 29, 30, 31}]
=============================================================================
