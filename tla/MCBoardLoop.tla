---------------------------- MODULE MCBoardLoop -----------------------------
(* Two schedules of different length, four commands.                       *)
EXTENDS BoardLoop

MCSchedules == {<<1, 2>>, <<3>>}
=============================================================================
