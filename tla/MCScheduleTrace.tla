--------------------------- MODULE MCScheduleTrace --------------------------
(* Small instances of ScheduleTrace.                                         *)
EXTENDS ScheduleTrace

FourRequests == 1..4
FiveRequests == 1..5
=============================================================================
