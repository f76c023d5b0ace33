----------------------------- MODULE MCBoardBoot -------------------------------
(* Two pairs of credentials.                                               *)
EXTENDS BoardBoot, TLC

Symmetry == Permutations(Credentials)
=============================================================================
