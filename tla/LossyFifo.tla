------------------------------ MODULE LossyFifo ------------------------------
(***************************************************************************)
(* A queue that may lose requests but never repeats or reorders them: the  *)
(* promise of the command path (CommandDelivery) and of the capture queue  *)
(* on the board (CaptureRing).  Requests are numbered as they are sent.    *)
(***************************************************************************)
EXTENDS Naturals, Sequences

VARIABLES sent,      \* number of requests sent
          pending,   \* numbers of the requests that may still be handled
          handled    \* numbers of the requests handled, in order

fifoVars == <<sent, pending, handled>>

(* s is t with some elements left out: f says which of t are kept.         *)
LeavesOut(s, t) ==
  /\ s \in Seq(Nat)
  /\ \E f \in [DOMAIN s -> DOMAIN t] :
       /\ \A i, j \in DOMAIN s : i < j => f[i] < f[j]
       /\ \A i \in DOMAIN s : s[i] = t[f[i]]

FifoInit == sent = 0 /\ pending = <<>> /\ handled = <<>>

Send ==
  /\ sent' = sent + 1
  /\ LeavesOut(pending', Append(pending, sent'))
  /\ UNCHANGED handled

Lose ==
  /\ LeavesOut(pending', pending)
  /\ UNCHANGED <<sent, handled>>

Handle ==
  /\ \E i \in DOMAIN pending :
       /\ handled' = Append(handled, pending[i])
       /\ LeavesOut(pending', SubSeq(pending, i + 1, Len(pending)))
  /\ UNCHANGED sent

FifoNext == Send \/ Lose \/ Handle

FifoSpec == FifoInit /\ [][FifoNext]_fifoVars
------------------------------------------------------------------------------
(* The numbers in s go up, and none is above n.                            *)
Rising(s, n) ==
  /\ \A i \in DOMAIN s : s[i] \in 1..n
  /\ \A i, j \in DOMAIN s : i < j => s[i] < s[j]

(* What is handled was sent, no request is handled twice, and none before  *)
(* one that was sent earlier.                                              *)
InOrder == Rising(handled, sent)
==============================================================================
