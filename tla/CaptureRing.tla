----------------------------- MODULE CaptureRing -----------------------------
(***************************************************************************)
(* The ring of pending capture_now requests in main.c: the MQTT callback   *)
(* enqueues, the main loop dequeues one request per iteration.  Index      *)
(* arithmetic is that of the C code: uint8_t indices, promoted to int,     *)
(* a remainder that truncates toward zero, a cast back to uint8_t.         *)
(***************************************************************************)
EXTENDS Integers, Sequences

CONSTANTS QueueSize,     \* CAPTURE_QUEUE_SIZE
          MaxSent        \* bound: requests sent

ASSUME RingConstants ==
  /\ QueueSize \in 2..128
  /\ MaxSent \in Nat

FirstTaskId == 20000     \* initial s_capture_now_task_id

VARIABLES head, tail,    \* s_capture_queue_head, s_capture_queue_tail
          slot,          \* s_capture_queue, each id with its request number
          nowId,         \* s_capture_now_task_id
          sent,          \* history: number of requests sent
          done,          \* history: numbers of the requests dequeued
          overrun        \* history: a request came with the ring full

ringVars == <<head, tail, slot, nowId, sent, done, overrun>>

Slots == 0..(QueueSize - 1)

(* C's % on int, and the cast to uint8_t.                                  *)
CRem(a, b) == IF a >= 0 THEN a % b ELSE -((-a) % b)
U8(n) == n % 256

(* Mutant of Succ: the index wraps one slot late.                          *)
SuccLate(i) == (i + 1) % (QueueSize + 1)

Succ(i) == (i + 1) % QueueSize

(* Mutant of Count: the queue is taken for full with room for one more.    *)
CountOneMore == U8(CRem(head - tail, QueueSize)) + 1

Count == U8(CRem(head - tail, QueueSize))

Full == Count = QueueSize - 1
Empty == head = tail

(* The request numbers a run of dequeues would return now.                 *)
Contents ==
  [k \in 1..((head - tail) % QueueSize) |-> slot[(tail + k - 1) % QueueSize].number]

(* capture_now: with a task id chosen by the server, or without one.       *)
Enqueue(id) ==
  /\ sent < MaxSent
  /\ sent' = sent + 1
  /\ nowId' = id
  /\ tail' = IF Full THEN Succ(tail) ELSE tail
  /\ slot' = [slot EXCEPT ![head] = [id |-> id, number |-> sent + 1]]
  /\ head' = Succ(head)
  /\ overrun' = (overrun \/ sent - Len(done) >= QueueSize - 1)
  /\ UNCHANGED done

ServerCapture == Enqueue(sent + 1)       \* ids of next_task_id
PlainCapture == Enqueue(nowId + 1)

(* Mutant of Dequeue: the request stays in the ring.                       *)
DequeueKeeping ==
  /\ ~Empty
  /\ nowId' = slot[tail].id
  /\ done' = IF Len(done) < MaxSent THEN Append(done, slot[tail].number) ELSE done
  /\ UNCHANGED <<head, tail, slot, sent, overrun>>

Dequeue ==
  /\ ~Empty
  /\ nowId' = slot[tail].id
  /\ done' = Append(done, slot[tail].number)
  /\ tail' = Succ(tail)
  /\ UNCHANGED <<head, slot, sent, overrun>>

Init ==
  /\ head = 0 /\ tail = 0
  /\ slot = [i \in Slots |-> [id |-> 0, number |-> 0]]
  /\ nowId = FirstTaskId
  /\ sent = 0 /\ done = <<>> /\ overrun = FALSE

Next == ServerCapture \/ PlainCapture \/ Dequeue

Spec == Init /\ [][Next]_ringVars
------------------------------------------------------------------------------
(* Types of the state; the indices stay inside the ring.                   *)
TypeOK ==
  /\ head \in Slots /\ tail \in Slots
  /\ slot \in [Slots -> [id : Nat, number : 0..MaxSent]]
  /\ nowId \in Nat
  /\ sent \in 0..MaxSent
  /\ done \in Seq(1..MaxSent)
  /\ overrun \in BOOLEAN

(* As long as no request came while QueueSize - 1 others were pending,     *)
(* every request sent has been dequeued or is pending, in order.           *)
NothingLostWithinCapacity ==
  ~overrun => done \o Contents = [i \in 1..sent |-> i]

(* Even after an overrun no request is dequeued twice or out of order.     *)
Fifo == INSTANCE LossyFifo WITH pending <- Contents, handled <- done
FifoRefined == Fifo!FifoSpec

(* main.c: "queue full, dropping oldest".  Whatever was dropped, the       *)
(* newest request is pending or has been dequeued.                         *)
NewestKept ==
  sent > 0 => \/ \E i \in DOMAIN Contents : Contents[i] = sent
              \/ \E i \in DOMAIN done : done[i] = sent
==============================================================================
