------------------------- MODULE MCCommandDelivery --------------------------
(* Three commands, three statuses under way, one restart or reset.         *)
EXTENDS CommandDelivery
=============================================================================
