-------------------------- MODULE CaptureRingProofs ---------------------------
(***************************************************************************)
(* TypeOK, NothingLostWithinCapacity and the FIFO refinement of            *)
(* CaptureRing, for every size of the ring its indices allow.              *)
(***************************************************************************)
EXTENDS CaptureRing, SequenceTheorems, TLAPS

(* The number of requests in the ring, the slot k places after i, and what *)
(* the ring f holds between t and h.                                       *)
Held(h, t) == IF h >= t THEN h - t ELSE h - t + QueueSize
Place(i, k) == IF i + k < QueueSize THEN i + k ELSE i + k - QueueSize
Numbers(h, t, f) ==
  [k \in 1..((h - t) % QueueSize) |-> f[(t + k - 1) % QueueSize].number]
Requests == [id : Nat, number : 0..MaxSent]

LEMMA SizeType == QueueSize \in 2..128 /\ QueueSize \in Nat \ {0}
  BY RingConstants

LEMMA Places ==
  ASSUME NEW i \in Slots, NEW k \in 0..QueueSize
  PROVE  /\ (i + k) % QueueSize = Place(i, k)
         /\ Place(i, k) \in Slots
         /\ Succ(i) = Place(i, 1)
<1>1. QueueSize \in Nat \ {0} /\ i \in 0..(QueueSize - 1) /\ i + k \in Nat /\ k \in Nat
      /\ 1 \in 0..QueueSize
  BY SizeType DEF Slots
<1>2. ASSUME NEW j \in 0..QueueSize
      PROVE  (i + j) % QueueSize = Place(i, j) /\ Place(i, j) \in Slots
  <2>1. i + j \in Int /\ 0 <= i + j /\ i + j < 2 * QueueSize
    BY <1>1
  <2>2. i + j < QueueSize => (i + j) % QueueSize = i + j
    BY <1>1, <2>1
  <2>3. QueueSize <= i + j => (i + j) % QueueSize = i + j - QueueSize
    BY <1>1, <2>1
  <2> QED BY <1>1, <2>1, <2>2, <2>3 DEF Place, Slots
<1> QED BY <1>1, <1>2 DEF Succ

LEMMA HeldIs ==
  ASSUME NEW h \in Slots, NEW t \in Slots
  PROVE  Held(h, t) \in 0..(QueueSize - 1) /\ (h - t) % QueueSize = Held(h, t)
<1>1. /\ QueueSize \in Nat \ {0}
      /\ h \in 0..(QueueSize - 1) /\ t \in 0..(QueueSize - 1)
  BY SizeType DEF Slots
<1>2. h - t \in Int /\ -QueueSize < h - t /\ h - t < QueueSize
  BY <1>1
<1>3. 0 <= h - t => (h - t) % QueueSize = h - t
  BY <1>1, <1>2
<1>4. h - t < 0 => (h - t) % QueueSize = h - t + QueueSize
  BY <1>1, <1>2
<1> QED BY <1>1, <1>2, <1>3, <1>4 DEF Held

LEMMA FunctionIsSeq ==
  ASSUME NEW S, NEW n \in Nat, NEW g \in [1..n -> S]
  PROVE  g \in Seq(S) /\ Len(g) = n
OBVIOUS

LEMMA Holds ==
  ASSUME NEW h \in Slots, NEW t \in Slots, NEW f \in [Slots -> Requests]
  PROVE  /\ Numbers(h, t, f) \in Seq(0..MaxSent)
         /\ Len(Numbers(h, t, f)) = Held(h, t)
         /\ \A k \in 1..Held(h, t) : Numbers(h, t, f)[k] = f[Place(t, k - 1)].number
<1> DEFINE n == Held(h, t)
<1>1. n \in 0..(QueueSize - 1) /\ (h - t) % QueueSize = n
  BY HeldIs
<1> HIDE DEF n
<1>2. ASSUME NEW k \in 1..n
      PROVE  /\ (t + k - 1) % QueueSize = Place(t, k - 1)
             /\ f[Place(t, k - 1)].number \in 0..MaxSent
  <2>1. k - 1 \in 0..QueueSize /\ t + k - 1 = t + (k - 1)
    BY <1>1, SizeType DEF Slots
  <2>2. (t + (k - 1)) % QueueSize = Place(t, k - 1) /\ Place(t, k - 1) \in Slots
    BY <2>1, Places
  <2> QED BY <2>1, <2>2 DEF Requests
<1>3. Numbers(h, t, f) = [k \in 1..n |-> f[Place(t, k - 1)].number]
  BY <1>1, <1>2 DEF Numbers
<1>4. Numbers(h, t, f) \in [1..n -> 0..MaxSent] /\ n \in Nat
  BY <1>1, <1>2, <1>3
<1>5. Numbers(h, t, f) \in Seq(0..MaxSent) /\ Len(Numbers(h, t, f)) = n
  BY <1>4, FunctionIsSeq
<1> QED BY <1>3, <1>5 DEF n

LEMMA Below256 ==
  ASSUME NEW x \in 1..128
  PROVE  (-x) % 256 = 256 - x
OBVIOUS

(* The C arithmetic finds a full ring only while the head is not below the *)
(* tail; the remainder of TLA+ is the number held.                         *)
LEMMA SeenFull ==
  ASSUME head \in Slots, tail \in Slots
  PROVE  Full <=> head >= tail /\ Held(head, tail) = QueueSize - 1
<1>1. /\ QueueSize \in 2..128 /\ QueueSize \in Nat \ {0}
      /\ head \in 0..(QueueSize - 1) /\ tail \in 0..(QueueSize - 1)
  BY SizeType DEF Slots
<1>2. CASE head >= tail
  <2>1. /\ head - tail \in Int /\ 0 <= head - tail /\ head - tail < QueueSize
        /\ head - tail < 256
    BY <1>1, <1>2
  <2>2. (head - tail) % QueueSize = head - tail
    BY <1>1, <2>1
  <2>3. (head - tail) % 256 = head - tail
    BY <1>1, <2>1
  <2> QED BY <1>1, <1>2, <2>1, <2>2, <2>3 DEF Full, Count, U8, CRem, Held
<1>3. CASE head < tail
  <2>1. /\ tail - head \in Int /\ 0 < tail - head /\ tail - head < QueueSize
        /\ head - tail \in Int /\ head - tail < 0
        /\ -(head - tail) = tail - head
    BY <1>1, <1>3
  <2>2. (tail - head) % QueueSize = tail - head
    BY <1>1, <2>1
  <2>3. Count = U8(-(tail - head))
    BY <1>1, <2>1, <2>2 DEF Count, CRem
  <2>4. (-(tail - head)) % 256 = 256 - (tail - head)
    <3>1. tail - head \in 1..128
      BY <1>1, <2>1
    <3> QED BY <3>1, Below256
  <2>5. Count = 256 - (tail - head)
    BY <2>3, <2>4 DEF U8
  <2>6. ~Full
    BY <1>1, <2>1, <2>5 DEF Full
  <2> QED BY <1>1, <1>3, <2>6
<1> QED BY <1>1, <1>2, <1>3
------------------------------------------------------------------------------
(* A request goes behind those held; a full ring loses the oldest, or,     *)
(* where the C arithmetic does not see that it is full, all of them.       *)
Base ==
  /\ head \in Slots /\ tail \in Slots
  /\ slot \in [Slots -> Requests]

LEMMA EnqueueContents ==
  ASSUME Base, sent \in Nat, sent + 1 \in 0..MaxSent, NEW id \in Nat, Enqueue(id)
  PROVE  /\ Base'
         /\ \/ /\ Len(Contents) < QueueSize - 1
               /\ Len(Contents') = Len(Contents) + 1
               /\ \A k \in 1..Len(Contents) : Contents'[k] = Contents[k]
            \/ /\ Len(Contents) = QueueSize - 1
               /\ Len(Contents') = Len(Contents)
               /\ \A k \in 1..(Len(Contents) - 1) : Contents'[k] = Contents[k + 1]
            \/ /\ Len(Contents) = QueueSize - 1
               /\ Len(Contents') = 0
         /\ Len(Contents') > 0 => Contents'[Len(Contents')] = sent + 1
<1> DEFINE n == Held(head, tail)
           m == Held(head', tail')
<1>1. /\ QueueSize \in 2..128
      /\ head \in 0..(QueueSize - 1) /\ tail \in 0..(QueueSize - 1)
      /\ n \in 0..(QueueSize - 1) /\ 1 \in 0..QueueSize
      /\ Full <=> head >= tail /\ n = QueueSize - 1
  BY SizeType, HeldIs, SeenFull DEF Base, Slots
<1>2. /\ head' = Place(head, 1)
      /\ tail' = IF Full THEN Place(tail, 1) ELSE tail
      /\ head' \in Slots /\ tail' \in Slots
  <2>1. Succ(head) = Place(head, 1) /\ Succ(tail) = Place(tail, 1)
        /\ Place(head, 1) \in Slots /\ Place(tail, 1) \in Slots
    BY <1>1, Places DEF Base
  <2> QED BY <2>1 DEF Enqueue, Base
<1>3. /\ slot' \in [Slots -> Requests]
      /\ slot'[head].number = sent + 1
      /\ \A i \in Slots : i # head => slot'[i] = slot[i]
  <2>1. [id |-> id, number |-> sent + 1] \in Requests
    BY DEF Requests
  <2> QED BY <2>1 DEF Enqueue, Base
<1>4. Base'
  BY <1>2, <1>3 DEF Base
<1>5. /\ Len(Contents) = n
      /\ \A k \in 1..n : Contents[k] = slot[Place(tail, k - 1)].number
  BY Holds DEF Base, Contents, Numbers
<1>6. /\ Len(Contents') = m
      /\ \A k \in 1..m : Contents'[k] = slot'[Place(tail', k - 1)].number
  <2>1. Contents' = Numbers(head', tail', slot')
    BY DEF Contents, Numbers
  <2>2. head' \in Slots /\ tail' \in Slots /\ slot' \in [Slots -> Requests]
    BY <1>2, <1>3
  <2> HIDE DEF m
  <2>3. /\ Len(Numbers(head', tail', slot')) = Held(head', tail')
        /\ \A k \in 1..Held(head', tail') :
             Numbers(head', tail', slot')[k] = slot'[Place(tail', k - 1)].number
    BY <2>2, Holds, Zenon
  <2> QED BY <2>1, <2>3, Zenon DEF m
<1>7. CASE n < QueueSize - 1
  <2>1. tail' = tail /\ m = n + 1
    BY <1>1, <1>2, <1>7 DEF Place, Held
  <2>2. ASSUME NEW k \in 1..n PROVE Place(tail, k - 1) \in Slots \ {head}
    BY <1>1, <1>7 DEF Place, Held, Slots
  <2>3. Place(tail, n) = head
    BY <1>1, <1>7 DEF Place, Held
  <2>4. \A k \in 1..n : Contents'[k] = Contents[k]
    <3> SUFFICES ASSUME NEW k \in 1..n PROVE Contents'[k] = Contents[k]
      OBVIOUS
    <3>1. k \in 1..m /\ slot'[Place(tail, k - 1)] = slot[Place(tail, k - 1)]
      BY <1>1, <1>3, <2>1, <2>2
    <3> QED BY <1>5, <1>6, <2>1, <3>1
  <2>5. Contents'[m] = sent + 1
    <3>1. m \in 1..m /\ m - 1 = n
      BY <1>1, <2>1
    <3> QED BY <1>3, <1>6, <2>1, <2>3, <3>1
  <2> HIDE DEF n, m
  <2> QED BY <1>1, <1>4, <1>5, <1>6, <1>7, <2>1, <2>4, <2>5
<1>8. CASE Full
  <2>1. /\ tail = 0 /\ head = QueueSize - 1 /\ tail' = 1 /\ head' = 0
        /\ m = QueueSize - 1 /\ n = QueueSize - 1
    BY <1>1, <1>2, <1>8 DEF Place, Held
  <2>2. ASSUME NEW k \in 1..(n - 1)
        PROVE  /\ Place(tail', k - 1) = Place(tail, k)
               /\ Place(tail, k) \in Slots \ {head}
    BY <1>1, <2>1 DEF Place, Slots
  <2>3. Place(tail', m - 1) = head
    BY <1>1, <2>1 DEF Place
  <2>4. \A k \in 1..(n - 1) : Contents'[k] = Contents[k + 1]
    <3> SUFFICES ASSUME NEW k \in 1..(n - 1) PROVE Contents'[k] = Contents[k + 1]
      OBVIOUS
    <3>1. k \in 1..m /\ k + 1 \in 1..n /\ (k + 1) - 1 = k
      BY <1>1, <2>1
    <3>2. slot'[Place(tail, k)] = slot[Place(tail, k)]
      BY <1>3, <2>2
    <3> QED BY <1>5, <1>6, <2>2, <3>1, <3>2
  <2>5. Contents'[m] = sent + 1
    <3>1. m \in 1..m
      BY <1>1, <2>1
    <3> QED BY <1>3, <1>6, <2>3, <3>1
  <2> HIDE DEF n, m
  <2> QED BY <1>1, <1>4, <1>5, <1>6, <2>1, <2>4, <2>5
<1>9. CASE n = QueueSize - 1 /\ ~Full
  <2>1. m = 0
    BY <1>1, <1>2, <1>9 DEF Place, Held
  <2> HIDE DEF n, m
  <2> QED BY <1>4, <1>5, <1>6, <1>9, <2>1
<1> HIDE DEF n, m
<1> QED BY <1>1, <1>7, <1>8, <1>9

(* The oldest request leaves the ring.                                     *)
LEMMA DequeueContents ==
  ASSUME Base, Dequeue
  PROVE  /\ Base'
         /\ Len(Contents) > 0
         /\ Len(Contents') = Len(Contents) - 1
         /\ \A k \in 1..Len(Contents') : Contents'[k] = Contents[k + 1]
         /\ done' = Append(done, Contents[1])
<1> DEFINE n == Held(head, tail)
           m == Held(head', tail')
<1>1. /\ QueueSize \in 2..128
      /\ head \in 0..(QueueSize - 1) /\ tail \in 0..(QueueSize - 1)
      /\ n \in 0..(QueueSize - 1) /\ 1 \in 0..QueueSize
      /\ head # tail
  <2>1. head # tail
    BY DEF Dequeue, Empty
  <2>2. n \in 0..(QueueSize - 1)
    BY HeldIs DEF Base
  <2>3. QueueSize \in 2..128 /\ 1 \in 0..QueueSize
    BY SizeType
  <2>4. head \in 0..(QueueSize - 1) /\ tail \in 0..(QueueSize - 1)
    BY DEF Base, Slots
  <2> HIDE DEF n
  <2> QED BY <2>1, <2>2, <2>3, <2>4
<1>2. head' = head /\ tail' = Place(tail, 1) /\ tail' \in Slots /\ slot' = slot
  <2>1. Succ(tail) = Place(tail, 1) /\ Place(tail, 1) \in Slots
    BY <1>1, Places DEF Base
  <2> QED BY <2>1 DEF Dequeue
<1>3. Base'
  BY <1>2 DEF Base
<1>4. /\ Len(Contents) = n
      /\ \A k \in 1..n : Contents[k] = slot[Place(tail, k - 1)].number
  BY Holds DEF Base, Contents, Numbers
<1>5. /\ Len(Contents') = m
      /\ \A k \in 1..m : Contents'[k] = slot[Place(tail', k - 1)].number
  <2>1. Contents' = Numbers(head', tail', slot')
    BY DEF Contents, Numbers
  <2>2. head' \in Slots /\ tail' \in Slots /\ slot' \in [Slots -> Requests] /\ slot' = slot
    BY <1>2 DEF Base
  <2> HIDE DEF m
  <2>3. /\ Len(Numbers(head', tail', slot')) = Held(head', tail')
        /\ \A k \in 1..Held(head', tail') :
             Numbers(head', tail', slot')[k] = slot'[Place(tail', k - 1)].number
    BY <2>2, Holds, Zenon
  <2> QED BY <2>1, <2>2, <2>3, Zenon DEF m
<1>6. n > 0 /\ m = n - 1 /\ Place(tail, 0) = tail
  BY <1>1, <1>2 DEF Place, Held
<1>7. ASSUME NEW k \in 1..m PROVE Place(tail', k - 1) = Place(tail, k)
  BY <1>1, <1>2, <1>6 DEF Place
<1> HIDE DEF n, m
<1>8. \A k \in 1..m : Contents'[k] = Contents[k + 1]
  <2> SUFFICES ASSUME NEW k \in 1..m PROVE Contents'[k] = Contents[k + 1]
    OBVIOUS
  <2>1. k + 1 \in 1..n /\ (k + 1) - 1 = k
    BY <1>1, <1>6
  <2> QED BY <1>4, <1>5, <1>7, <2>1
<1>9. Contents[1] = slot[tail].number
  <2>1. 1 \in 1..n /\ 1 - 1 = 0
    BY <1>1, <1>6
  <2> QED BY <1>4, <1>6, <2>1
<1> QED BY <1>1, <1>3, <1>4, <1>5, <1>6, <1>8, <1>9 DEF Dequeue
------------------------------------------------------------------------------
(* A dequeued number is one that was sent only if the ring holds no slot   *)
(* that was never written: what makes the types inductive.                 *)
Written == \A k \in 1..Len(Contents) : Contents[k] >= 1

RingInv == TypeOK /\ Written

LEMMA TypeIsBase ==
  ASSUME TypeOK
  PROVE  /\ Base
         /\ Contents \in Seq(0..MaxSent) /\ Len(Contents) \in Nat
         /\ sent \in Nat /\ nowId \in Nat /\ done \in Seq(1..MaxSent) /\ Len(done) \in Nat
<1>1. Base
  BY DEF TypeOK, Base, Requests
<1>2. Contents \in Seq(0..MaxSent)
  BY <1>1, Holds DEF Base, Contents, Numbers
<1> QED BY <1>1, <1>2, RingConstants DEF TypeOK

(* What a request changes besides the ring.                                *)
LEMMA EnqueueType ==
  ASSUME RingInv, NEW id \in Nat, Enqueue(id)
  PROVE  RingInv'
<1>1. /\ sent' = sent + 1 /\ sent' \in 0..MaxSent /\ sent \in Nat /\ sent + 1 \in 0..MaxSent
      /\ nowId' = id /\ done' = done
  BY RingConstants DEF RingInv, TypeOK, Enqueue
<1>2. Base /\ Contents \in Seq(0..MaxSent) /\ Len(Contents) \in Nat
  BY TypeIsBase DEF RingInv
<1>3. overrun' \in BOOLEAN
  BY Zenon DEF Enqueue, RingInv, TypeOK
<1>4. Base'
  BY <1>1, <1>2, EnqueueContents
<1>5. TypeOK'
  <2>1. done' \in Seq(1..MaxSent)
    BY <1>1 DEF RingInv, TypeOK
  <2> QED BY <1>1, <1>3, <1>4, <2>1 DEF TypeOK, Base, Requests
<1>6. Written'
  <2>1. /\ \/ /\ Len(Contents') = Len(Contents) + 1
              /\ \A k \in 1..Len(Contents) : Contents'[k] = Contents[k]
           \/ /\ Len(Contents') = Len(Contents)
              /\ \A k \in 1..(Len(Contents) - 1) : Contents'[k] = Contents[k + 1]
           \/ Len(Contents') = 0
        /\ Len(Contents') > 0 => Contents'[Len(Contents')] = sent + 1
    BY <1>1, <1>2, EnqueueContents
  <2>2. \A k \in 1..Len(Contents) : Contents[k] >= 1
    BY DEF RingInv, Written
  <2> HIDE DEF Contents
  <2>3. \A k \in 1..Len(Contents') : Contents'[k] >= 1
    BY <1>1, <1>2, <2>1, <2>2
  <2> QED BY <2>3 DEF Written
<1> QED BY <1>5, <1>6 DEF RingInv

LEMMA DequeueType ==
  ASSUME RingInv, Dequeue
  PROVE  RingInv'
<1>1. Base /\ Contents \in Seq(0..MaxSent) /\ Len(Contents) \in Nat
  BY TypeIsBase DEF RingInv
<1>2. /\ Base' /\ Len(Contents) > 0 /\ Len(Contents') = Len(Contents) - 1
      /\ \A k \in 1..Len(Contents') : Contents'[k] = Contents[k + 1]
      /\ done' = Append(done, Contents[1])
  BY <1>1, DequeueContents
<1>3. \A k \in 1..Len(Contents) : Contents[k] \in 1..MaxSent
  <2>1. \A k \in 1..Len(Contents) : Contents[k] >= 1
    BY DEF RingInv, Written
  <2> QED BY <1>1, <2>1, RingConstants
<1>4. Written'
  <2>1. ASSUME NEW k \in 1..Len(Contents') PROVE Contents'[k] >= 1
    <3>1. k + 1 \in 1..Len(Contents) /\ Contents'[k] = Contents[k + 1]
      BY <1>1, <1>2
    <3>2. Contents[k + 1] \in 1..MaxSent
      BY <1>3, <3>1
    <3> QED BY <3>1, <3>2
  <2> QED BY <2>1 DEF Written
<1>5. done' \in Seq(1..MaxSent)
  <2>1. Contents[1] \in 1..MaxSent /\ done \in Seq(1..MaxSent)
    BY <1>1, <1>2, <1>3 DEF RingInv, TypeOK
  <2> QED BY <1>2, <2>1, AppendProperties
<1>6. nowId' \in Nat /\ sent' = sent /\ overrun' = overrun
  BY <1>1 DEF Dequeue, Base, Requests
<1>7. TypeOK'
  <2>1. sent' \in 0..MaxSent /\ overrun' \in BOOLEAN
    BY <1>6 DEF RingInv, TypeOK
  <2> QED BY <1>2, <1>5, <1>6, <2>1 DEF TypeOK, Base, Requests
<1> QED BY <1>4, <1>7 DEF RingInv

LEMMA EmptyAtFirst ==
  ASSUME Init
  PROVE  RingInv /\ Len(Contents) = 0 /\ Contents = <<>>
<1>1. head = 0 /\ tail = 0 /\ 0 \in Slots /\ sent = 0 /\ done = <<>>
  <2>1. 0 \in Slots
    BY SizeType DEF Slots
  <2> QED BY <2>1 DEF Init
<1>2. slot \in [Slots -> Requests]
  <2>1. [id |-> 0, number |-> 0] \in Requests
    BY RingConstants DEF Requests
  <2>2. slot = [i \in Slots |-> [id |-> 0, number |-> 0]]
    BY DEF Init
  <2> QED BY <2>1, <2>2
<1>3. Held(head, tail) = 0
  <2>1. 0 >= 0 /\ 0 - 0 = 0
    OBVIOUS
  <2> QED BY <1>1, <2>1, Zenon DEF Held
<1>4. Contents \in Seq(0..MaxSent) /\ Len(Contents) = 0
  <2>1. Contents = Numbers(head, tail, slot)
    BY DEF Contents, Numbers
  <2> QED BY <1>1, <1>2, <1>3, <2>1, Holds, Zenon
<1>5. TypeOK
  <2>1. done \in Seq(1..MaxSent)
    BY <1>1
  <2>2. nowId \in Nat /\ sent \in 0..MaxSent
    BY RingConstants DEF Init, FirstTaskId
  <2>3. overrun \in BOOLEAN
    BY Zenon DEF Init
  <2> QED BY <1>1, <1>2, <2>1, <2>2, <2>3 DEF TypeOK, Requests
<1>6. Written
  BY <1>4 DEF Written
<1>7. Contents = <<>>
  BY <1>4
<1> QED BY <1>4, <1>5, <1>6, <1>7 DEF RingInv

(* Every kind of request is an Enqueue of some task id.                    *)
LEMMA Steps ==
  ASSUME TypeOK, Next
  PROVE  (\E id \in Nat : Enqueue(id)) \/ Dequeue
<1>1. sent + 1 \in Nat /\ nowId + 1 \in Nat
  BY TypeIsBase
<1> QED BY <1>1 DEF Next, ServerCapture, PlainCapture

LEMMA Stutters ==
  ASSUME UNCHANGED ringVars
  PROVE  /\ RingInv => RingInv'
         /\ Contents' = Contents /\ done' = done /\ sent' = sent /\ overrun' = overrun
<1>1. /\ head' = head /\ tail' = tail /\ slot' = slot /\ nowId' = nowId
      /\ sent' = sent /\ done' = done /\ overrun' = overrun
  BY DEF ringVars
<1>2. Contents' = Contents
  BY <1>1 DEF Contents
<1>3. (TypeOK => TypeOK') /\ (Written => Written')
  BY <1>1, <1>2 DEF TypeOK, Written
<1> QED BY <1>1, <1>2, <1>3 DEF RingInv

(* Types of the ring's state: the indices stay inside the ring and only    *)
(* requests that were sent are dequeued.                                   *)
THEOREM RingTypes == Spec => []RingInv
<1>1. Init => RingInv
  BY EmptyAtFirst
<1>2. RingInv /\ [Next]_ringVars => RingInv'
  <2> SUFFICES ASSUME RingInv, [Next]_ringVars PROVE RingInv'
    OBVIOUS
  <2>1. CASE UNCHANGED ringVars
    BY <2>1, Stutters
  <2>2. CASE Next
    BY <2>2, Steps, EnqueueType, DequeueType DEF RingInv
  <2> QED BY <2>1, <2>2
<1> QED BY <1>1, <1>2, PTL DEF Spec

(* Types of the ring's state (capture_now and the loop's dequeue).         *)
THEOREM TypeCorrect == Spec => []TypeOK
<1>1. RingInv => TypeOK
  BY DEF RingInv
<1> QED BY <1>1, RingTypes, PTL
------------------------------------------------------------------------------
(* What is dequeued and what is held are the numbers from 1 on: stated     *)
(* element by element, which is what a step preserves.                     *)
Exact ==
  ~overrun => /\ Len(done) + Len(Contents) = sent
              /\ \A i \in 1..Len(done) : done[i] = i
              /\ \A k \in 1..Len(Contents) : Contents[k] = Len(done) + k

LEMMA ExactStep ==
  ASSUME RingInv, Exact, [Next]_ringVars
  PROVE  Exact'
<1>1. /\ Base /\ Contents \in Seq(0..MaxSent) /\ Len(Contents) \in Nat
      /\ sent \in Nat /\ done \in Seq(1..MaxSent) /\ Len(done) \in Nat
  BY TypeIsBase DEF RingInv
<1>2. ASSUME NEW id \in Nat, Enqueue(id), ~overrun' PROVE Exact'
  <2>1. /\ sent' = sent + 1 /\ done' = done /\ ~overrun
        /\ sent - Len(done) < QueueSize - 1
        /\ sent + 1 \in 0..MaxSent
    <3>1. ~overrun /\ ~(sent - Len(done) >= QueueSize - 1)
      BY <1>2, Zenon DEF Enqueue
    <3> QED BY <1>1, <1>2, <3>1, SizeType, RingConstants DEF Enqueue, RingInv, TypeOK
  <2>2. /\ Len(done) + Len(Contents) = sent
        /\ \A i \in 1..Len(done) : done[i] = i
        /\ \A k \in 1..Len(Contents) : Contents[k] = Len(done) + k
    BY <2>1, Zenon DEF Exact
  <2>3. /\ Len(Contents') = Len(Contents) + 1
        /\ \A k \in 1..Len(Contents) : Contents'[k] = Contents[k]
        /\ Contents'[Len(Contents')] = sent + 1
    <3>1. Len(Contents) # QueueSize - 1
      BY <1>1, <2>1, <2>2, SizeType
    <3> QED BY <1>1, <1>2, <2>1, <3>1, EnqueueContents
  <2> HIDE DEF Contents
  <2>4. Len(done') + Len(Contents') = sent'
    <3>1. /\ Len(Contents) \in Nat /\ Len(done) \in Nat /\ sent \in Nat
          /\ Len(Contents') = Len(Contents) + 1 /\ Len(done') = Len(done)
          /\ Len(done) + Len(Contents) = sent /\ sent' = sent + 1
      BY <1>1, <2>1, <2>2, <2>3
    <3> QED BY <3>1
  <2>5. \A k \in 1..Len(Contents') : Contents'[k] = Len(done') + k
    <3> SUFFICES ASSUME NEW k \in 1..Len(Contents') PROVE Contents'[k] = Len(done') + k
      OBVIOUS
    <3>1. CASE k \in 1..Len(Contents)
      BY <2>1, <2>2, <2>3, <3>1
    <3>2. CASE k = Len(Contents')
      <4>1. Contents'[k] = sent + 1 /\ k = Len(Contents) + 1 /\ Len(done') = Len(done)
        BY <2>1, <2>3, <3>2
      <4>2. Len(done) + Len(Contents) = sent
        BY <2>2
      <4> QED BY <1>1, <4>1, <4>2
    <3> QED BY <1>1, <2>3, <3>1, <3>2
  <2> QED BY <2>1, <2>2, <2>4, <2>5 DEF Exact
<1>3. ASSUME Dequeue, ~overrun' PROVE Exact'
  <2>1. /\ Len(Contents) > 0 /\ Len(Contents') = Len(Contents) - 1
        /\ \A k \in 1..Len(Contents') : Contents'[k] = Contents[k + 1]
        /\ done' = Append(done, Contents[1])
        /\ sent' = sent /\ ~overrun
    BY <1>1, <1>3, DequeueContents DEF Dequeue
  <2>2. /\ Len(done) + Len(Contents) = sent
        /\ \A i \in 1..Len(done) : done[i] = i
        /\ \A k \in 1..Len(Contents) : Contents[k] = Len(done) + k
    BY <2>1, Zenon DEF Exact
  <2>3. /\ Len(done') = Len(done) + 1
        /\ \A i \in 1..Len(done) : done'[i] = done[i]
        /\ done'[Len(done) + 1] = Contents[1]
    <3>1. done \in Seq(Nat) /\ Contents[1] \in Nat
      <4>1. 1 \in 1..Len(Contents)
        BY <1>1, <2>1
      <4>2. Contents[1] = Len(done) + 1
        BY <2>2, <4>1
      <4>3. done \in Seq(Nat)
        <5>1. 1..MaxSent \subseteq Nat
          OBVIOUS
        <5> QED BY <1>1, <5>1, SeqMonotonic
      <4> QED BY <1>1, <4>2, <4>3
    <3> QED BY <2>1, <3>1, AppendProperties
  <2> HIDE DEF Contents
  <2>4. Len(done') + Len(Contents') = sent'
    <3>1. /\ Len(Contents) \in Nat /\ Len(done) \in Nat /\ sent \in Nat
          /\ Len(Contents') = Len(Contents) - 1 /\ Len(done') = Len(done) + 1
          /\ Len(done) + Len(Contents) = sent /\ sent' = sent
      BY <1>1, <2>1, <2>2, <2>3
    <3> QED BY <3>1
  <2>5. \A i \in 1..Len(done') : done'[i] = i
    <3> SUFFICES ASSUME NEW i \in 1..Len(done') PROVE done'[i] = i
      OBVIOUS
    <3>1. CASE i \in 1..Len(done)
      BY <2>2, <2>3, <3>1
    <3>2. CASE i = Len(done) + 1
      <4>1. 1 \in 1..Len(Contents)
        BY <1>1, <2>1
      <4> QED BY <2>2, <2>3, <3>2, <4>1
    <3> QED BY <1>1, <2>3, <3>1, <3>2
  <2>6. \A k \in 1..Len(Contents') : Contents'[k] = Len(done') + k
    <3> SUFFICES ASSUME NEW k \in 1..Len(Contents') PROVE Contents'[k] = Len(done') + k
      OBVIOUS
    <3>1. k + 1 \in 1..Len(Contents) /\ Contents'[k] = Contents[k + 1]
      BY <1>1, <2>1
    <3>2. Contents[k + 1] = Len(done) + (k + 1)
      BY <2>2, <3>1
    <3> QED BY <1>1, <2>3, <3>1, <3>2
  <2> QED BY <2>4, <2>5, <2>6 DEF Exact
<1>4. CASE UNCHANGED ringVars
  <2>1. Contents' = Contents /\ done' = done /\ sent' = sent /\ overrun' = overrun
    BY <1>4, Stutters
  <2> QED BY <2>1 DEF Exact
<1>5. overrun' => Exact'
  BY DEF Exact
<1>6. CASE Next
  BY <1>2, <1>3, <1>5, <1>6, Steps DEF RingInv
<1> QED BY <1>4, <1>6

LEMMA ExactMeans ==
  ASSUME RingInv, Exact
  PROVE  NothingLostWithinCapacity
<1> SUFFICES ASSUME ~overrun PROVE done \o Contents = [i \in 1..sent |-> i]
  BY DEF NothingLostWithinCapacity
<1> DEFINE numbers == [i \in 1..sent |-> i]
<1>1. /\ Contents \in Seq(0..MaxSent) /\ Len(Contents) \in Nat
      /\ sent \in Nat /\ done \in Seq(1..MaxSent) /\ Len(done) \in Nat
  BY TypeIsBase DEF RingInv
<1>2. /\ Len(done) + Len(Contents) = sent
      /\ \A i \in 1..Len(done) : done[i] = i
      /\ \A k \in 1..Len(Contents) : Contents[k] = Len(done) + k
  BY Zenon DEF Exact
<1>3. Contents \in Seq(Nat) /\ done \in Seq(Nat)
  <2>1. 0..MaxSent \subseteq Nat /\ 1..MaxSent \subseteq Nat
    OBVIOUS
  <2> QED BY <1>1, <2>1, SeqMonotonic
<1>4. /\ done \o Contents \in Seq(Nat)
      /\ Len(done \o Contents) = sent
      /\ \A i \in 1..sent : (done \o Contents)[i]
                              = IF i <= Len(done) THEN done[i] ELSE Contents[i - Len(done)]
  BY <1>2, <1>3, ConcatProperties
<1>5. numbers \in Seq(Nat) /\ Len(numbers) = sent
  <2>1. numbers \in [1..sent -> Nat]
    BY <1>1
  <2> QED BY <1>1, <2>1, FunctionIsSeq
<1>6. \A i \in 1..sent : (done \o Contents)[i] = numbers[i]
  <2> SUFFICES ASSUME NEW i \in 1..sent PROVE (done \o Contents)[i] = i
    OBVIOUS
  <2>1. CASE i <= Len(done)
    <3>1. i \in 1..Len(done)
      BY <1>1, <2>1
    <3> QED BY <1>2, <1>4, <2>1, <3>1
  <2>2. CASE ~(i <= Len(done))
    <3>1. i - Len(done) \in 1..Len(Contents) /\ Len(done) + (i - Len(done)) = i
      BY <1>1, <1>2, <2>2
    <3> QED BY <1>2, <1>4, <2>2, <3>1
  <2> QED BY <2>1, <2>2
<1> HIDE DEF numbers
<1>7. done \o Contents = numbers
  BY <1>4, <1>5, <1>6, SeqEqual
<1> QED BY <1>7 DEF numbers

(* As long as no request comes while QueueSize - 1 others are pending, the *)
(* uint8_t index arithmetic of the queue loses none and keeps their order. *)
THEOREM NothingLost == Spec => []NothingLostWithinCapacity
<1>1. Init => Exact
  <2> SUFFICES ASSUME Init PROVE Exact
    OBVIOUS
  <2>1. Len(Contents) = 0 /\ Len(done) = 0 /\ sent = 0
    BY EmptyAtFirst DEF Init
  <2> QED BY <2>1 DEF Exact
<1>2. RingInv /\ Exact /\ [Next]_ringVars => Exact'
  BY ExactStep
<1>3. RingInv /\ Exact => NothingLostWithinCapacity
  BY ExactMeans
<1> QED BY <1>1, <1>2, <1>3, RingTypes, PTL DEF Spec
------------------------------------------------------------------------------
(* Neither repeated nor out of order, overruns or not.                     *)
LEMMA Stretch ==
  ASSUME NEW s \in Seq(Nat), NEW t \in Seq(Nat), NEW n \in Nat,
         n + Len(s) <= Len(t),
         \A i \in 1..Len(s) : s[i] = t[i + n]
  PROVE  Fifo!LeavesOut(s, t)
<1> DEFINE kept == [i \in DOMAIN s |-> i + n]
<1>1. Len(s) \in Nat /\ Len(t) \in Nat /\ DOMAIN s = 1..Len(s) /\ DOMAIN t = 1..Len(t)
  OBVIOUS
<1>2. kept \in [DOMAIN s -> DOMAIN t]
  BY <1>1
<1>3. \A i, j \in DOMAIN s : i < j => kept[i] < kept[j]
  BY <1>1
<1>4. \A i \in DOMAIN s : s[i] = t[kept[i]]
  BY <1>1
<1> HIDE DEF kept
<1> QED BY <1>2, <1>3, <1>4 DEF Fifo!LeavesOut

LEMMA SendStep ==
  ASSUME RingInv, NEW id \in Nat, Enqueue(id)
  PROVE  Fifo!Send
<1> DEFINE all == Append(Contents, sent')
<1>1. /\ Contents \in Seq(Nat) /\ Len(Contents) \in Nat /\ sent \in Nat
      /\ Contents' \in Seq(Nat) /\ Len(Contents') \in Nat
  <2>1. 0..MaxSent \subseteq Nat /\ RingInv'
    BY EnqueueType
  <2>2. Contents \in Seq(0..MaxSent) /\ Len(Contents) \in Nat /\ sent \in Nat
    BY TypeIsBase DEF RingInv
  <2>3. Contents' \in Seq(0..MaxSent)
    <3>1. head' \in Slots /\ tail' \in Slots /\ slot' \in [Slots -> Requests]
      BY <2>1 DEF RingInv, TypeOK, Requests
    <3>2. Contents' = Numbers(head', tail', slot')
      BY DEF Contents, Numbers
    <3> QED BY <3>1, <3>2, Holds
  <2>4. Contents' \in Seq(Nat) /\ Contents \in Seq(Nat)
    BY <2>1, <2>2, <2>3, SeqMonotonic
  <2> QED BY <2>2, <2>4
<1>2. sent' = sent + 1 /\ done' = done /\ sent + 1 \in 0..MaxSent /\ Base
  BY TypeIsBase, RingConstants DEF RingInv, TypeOK, Enqueue
<1>3. /\ all \in Seq(Nat) /\ Len(all) = Len(Contents) + 1
      /\ \A i \in 1..Len(Contents) : all[i] = Contents[i]
      /\ all[Len(Contents) + 1] = sent + 1
  BY <1>1, <1>2, AppendProperties
<1> HIDE DEF all
<1>4. /\ \/ /\ Len(Contents') = Len(Contents) + 1
            /\ \A k \in 1..Len(Contents) : Contents'[k] = Contents[k]
         \/ /\ Len(Contents') = Len(Contents)
            /\ \A k \in 1..(Len(Contents) - 1) : Contents'[k] = Contents[k + 1]
         \/ Len(Contents') = 0
      /\ Len(Contents') > 0 => Contents'[Len(Contents')] = sent + 1
  BY <1>1, <1>2, EnqueueContents
<1>5. \E n \in Nat : /\ n + Len(Contents') <= Len(all)
                     /\ \A i \in 1..Len(Contents') : Contents'[i] = all[i + n]
  <2>1. CASE /\ Len(Contents') = Len(Contents) + 1
             /\ \A k \in 1..Len(Contents) : Contents'[k] = Contents[k]
    <3>1. \A i \in 1..Len(Contents') : Contents'[i] = all[i + 0]
      <4> SUFFICES ASSUME NEW i \in 1..Len(Contents') PROVE Contents'[i] = all[i]
        OBVIOUS
      <4>1. CASE i \in 1..Len(Contents)
        BY <1>3, <2>1, <4>1
      <4>2. CASE i = Len(Contents) + 1
        BY <1>1, <1>3, <1>4, <2>1, <4>2
      <4> QED BY <1>1, <2>1, <4>1, <4>2
    <3>2. 0 + Len(Contents') <= Len(all) /\ 0 \in Nat
      BY <1>1, <1>3, <2>1
    <3> QED BY <3>1, <3>2
  <2>2. CASE /\ Len(Contents') = Len(Contents)
             /\ \A k \in 1..(Len(Contents) - 1) : Contents'[k] = Contents[k + 1]
    <3>1. \A i \in 1..Len(Contents') : Contents'[i] = all[i + 1]
      <4> SUFFICES ASSUME NEW i \in 1..Len(Contents') PROVE Contents'[i] = all[i + 1]
        OBVIOUS
      <4>1. CASE i \in 1..(Len(Contents) - 1)
        <5>1. i + 1 \in 1..Len(Contents)
          BY <1>1, <4>1
        <5> QED BY <1>3, <2>2, <4>1, <5>1
      <4>2. CASE i = Len(Contents)
        BY <1>1, <1>3, <1>4, <2>2, <4>2
      <4> QED BY <1>1, <2>2, <4>1, <4>2
    <3>2. 1 + Len(Contents') <= Len(all)
      BY <1>1, <1>3, <2>2
    <3>3. 1 \in Nat
      OBVIOUS
    <3> QED BY <3>1, <3>2, <3>3
  <2>3. CASE Len(Contents') = 0
    <3>1. \A i \in 1..Len(Contents') : Contents'[i] = all[i + 0]
      BY <2>3
    <3>2. 0 + Len(Contents') <= Len(all) /\ 0 \in Nat
      BY <1>1, <1>3, <2>3
    <3> QED BY <3>1, <3>2
  <2> QED BY <1>4, <2>1, <2>2, <2>3
<1>6. Fifo!LeavesOut(Contents', all)
  BY <1>1, <1>3, <1>5, Stretch
<1> QED BY <1>2, <1>6 DEF Fifo!Send, all

LEMMA HandleStep ==
  ASSUME RingInv, Dequeue
  PROVE  Fifo!Handle
<1> DEFINE rest == SubSeq(Contents, 2, Len(Contents))
<1>1. /\ Contents \in Seq(Nat) /\ Len(Contents) \in Nat /\ DOMAIN Contents = 1..Len(Contents)
      /\ Contents' \in Seq(Nat) /\ Len(Contents') \in Nat
  <2>1. 0..MaxSent \subseteq Nat /\ RingInv'
    BY DequeueType
  <2>2. Contents \in Seq(0..MaxSent) /\ Len(Contents) \in Nat
    BY TypeIsBase DEF RingInv
  <2>3. Contents' \in Seq(0..MaxSent)
    <3>1. head' \in Slots /\ tail' \in Slots /\ slot' \in [Slots -> Requests]
      BY <2>1 DEF RingInv, TypeOK, Requests
    <3>2. Contents' = Numbers(head', tail', slot')
      BY DEF Contents, Numbers
    <3> QED BY <3>1, <3>2, Holds
  <2>4. Contents' \in Seq(Nat) /\ Contents \in Seq(Nat)
    BY <2>1, <2>2, <2>3, SeqMonotonic
  <2> QED BY <2>2, <2>4, LenProperties
<1>2. /\ Len(Contents) > 0 /\ Len(Contents') = Len(Contents) - 1
      /\ \A k \in 1..Len(Contents') : Contents'[k] = Contents[k + 1]
      /\ done' = Append(done, Contents[1])
  BY TypeIsBase, DequeueContents DEF RingInv
<1>3. sent' = sent
  BY DEF Dequeue
<1>4. /\ rest \in Seq(Nat) /\ Len(rest) = Len(Contents) - 1
      /\ \A i \in 1..(Len(Contents) - 1) : rest[i] = Contents[i + 1]
  <2>1. \A i \in 2..Len(Contents) : Contents[i] \in Nat
    BY <1>1
  <2>2. /\ rest \in Seq(Nat)
        /\ Len(rest) = IF 2 <= Len(Contents) THEN Len(Contents) - 2 + 1 ELSE 0
        /\ \A i \in 1..(Len(Contents) - 2 + 1) : rest[i] = Contents[2 + i - 1]
    BY <1>1, <2>1, SubSeqProperties
  <2> HIDE DEF rest
  <2>3. Len(rest) = Len(Contents) - 1
    <3>1. 2 <= Len(Contents) => Len(rest) = Len(Contents) - 2 + 1
      BY <2>2
    <3>2. ~(2 <= Len(Contents)) => Len(rest) = 0
      BY <2>2
    <3>3. Len(Contents) \in Nat /\ Len(Contents) > 0
      BY <1>1, <1>2
    <3> QED BY <3>1, <3>2, <3>3
  <2>4. ASSUME NEW i \in 1..(Len(Contents) - 1) PROVE rest[i] = Contents[i + 1]
    <3>1. i \in 1..(Len(Contents) - 2 + 1) /\ 2 + i - 1 = i + 1
      BY <1>1
    <3> QED BY <2>2, <3>1
  <2> QED BY <2>2, <2>3, <2>4
<1> HIDE DEF rest
<1>5. Fifo!LeavesOut(Contents', rest)
  <2>1. /\ 0 + Len(Contents') <= Len(rest)
        /\ \A i \in 1..Len(Contents') : Contents'[i] = rest[i + 0]
    BY <1>1, <1>2, <1>4
  <2> QED BY <1>1, <1>4, <2>1, Stretch
<1>6. 1 \in DOMAIN Contents /\ 1 + 1 = 2
  BY <1>1, <1>2
<1> QED BY <1>2, <1>3, <1>5, <1>6 DEF Fifo!Handle, rest

(* The ring implements the lossy FIFO: full or not, no request is dequeued *)
(* twice and none before an older one.                                     *)
THEOREM FifoImplemented == Spec => FifoRefined
<1>1. Init => Fifo!FifoInit
  BY EmptyAtFirst DEF Init, Fifo!FifoInit
<1>2. RingInv /\ [Next]_ringVars => [Fifo!FifoNext]_(Fifo!fifoVars)
  <2> SUFFICES ASSUME RingInv, [Next]_ringVars
               PROVE  [Fifo!FifoNext]_(Fifo!fifoVars)
    OBVIOUS
  <2>1. CASE UNCHANGED ringVars
    BY <2>1, Stutters DEF Fifo!fifoVars
  <2>2. CASE Next
    BY <2>2, Steps, SendStep, HandleStep DEF RingInv, Fifo!FifoNext
  <2> QED BY <2>1, <2>2
<1> QED BY <1>1, <1>2, RingTypes, PTL DEF Spec, FifoRefined, Fifo!FifoSpec

(* However often the ring is overrun, cmd_dequeue hands out no request     *)
(* twice and none before one enqueued earlier: by FifoImplemented the ring *)
(* inherits what FifoKeepsOrder says of every lossy FIFO.                  *)
Promise == INSTANCE LossyFifoProofs WITH pending <- Contents, handled <- done

THEOREM DequeuedInOrder == Spec => []Fifo!InOrder
<1>1. Promise!FifoSpec => []Promise!InOrder
  BY Promise!FifoKeepsOrder
<1>2. Promise!InOrder <=> Fifo!InOrder
  BY DEF Promise!InOrder, Fifo!InOrder, Promise!Rising, Fifo!Rising
<1>3. Promise!FifoInit <=> Fifo!FifoInit
  BY DEF Promise!FifoInit, Fifo!FifoInit
<1>4. [Promise!FifoNext]_(Promise!fifoVars) <=> [Fifo!FifoNext]_(Fifo!fifoVars)
  BY DEF Promise!FifoNext, Fifo!FifoNext, Promise!fifoVars, Fifo!fifoVars,
         Promise!Send, Fifo!Send, Promise!Lose, Fifo!Lose, Promise!Handle, Fifo!Handle,
         Promise!LeavesOut, Fifo!LeavesOut
<1> QED
  BY <1>1, <1>2, <1>3, <1>4, FifoImplemented, PTL
  DEF FifoRefined, Promise!FifoSpec, Fifo!FifoSpec
==============================================================================
