------------------------- MODULE MCScheduleService --------------------------
(* Two schedules, two requests at a time, four in all.                     *)
EXTENDS ScheduleService, TLC

Symmetry == Permutations(Schedules) \union Permutations(Requests)
=============================================================================
