---------------------------- MODULE MCCaptureRing ----------------------------
(* A ring of four slots; enough requests to go round it more than once.    *)
EXTENDS CaptureRing
==============================================================================
