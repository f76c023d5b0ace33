-------------------------- MODULE MCScheduleClock ---------------------------
(* A day of eight ticks, up to two tasks, a loop away for up to three ticks. *)
EXTENDS ScheduleClock
=============================================================================
