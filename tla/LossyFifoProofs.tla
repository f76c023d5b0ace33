--------------------------- MODULE LossyFifoProofs ----------------------------
(***************************************************************************)
(* What whoever implements LossyFifo can be relied on for.                 *)
(***************************************************************************)
EXTENDS LossyFifo, SequenceTheorems, TLAPS

(* Every number in t is above every number in s.                           *)
Above(s, t) == \A i \in DOMAIN s, j \in DOMAIN t : s[i] < t[j]

(* What is still to be handled comes after what was, in order.             *)
Sorted ==
  /\ sent \in Nat /\ pending \in Seq(Nat) /\ handled \in Seq(Nat)
  /\ Rising(pending, sent) /\ Rising(handled, sent) /\ Above(handled, pending)

(* Leaving out some requests keeps the order of the others.                *)
LEMMA LeftIsSorted ==
  ASSUME NEW s, NEW t \in Seq(Nat), NEW h \in Seq(Nat), NEW n \in Nat,
         LeavesOut(s, t), Rising(t, n), Above(h, t)
  PROVE  s \in Seq(Nat) /\ Rising(s, n) /\ Above(h, s)
<1>1. PICK f \in [DOMAIN s -> DOMAIN t] :
         /\ \A i, j \in DOMAIN s : i < j => f[i] < f[j]
         /\ \A i \in DOMAIN s : s[i] = t[f[i]]
  BY DEF LeavesOut
<1>2. Rising(s, n)
  <2>1. ASSUME NEW i \in DOMAIN s PROVE s[i] \in 1..n
    BY <1>1 DEF Rising
  <2>2. ASSUME NEW i \in DOMAIN s, NEW j \in DOMAIN s, i < j PROVE s[i] < s[j]
    <3>1. f[i] \in DOMAIN t /\ f[j] \in DOMAIN t /\ f[i] < f[j]
      BY <1>1, <2>2
    <3>2. t[f[i]] < t[f[j]]
      BY <3>1 DEF Rising
    <3> QED BY <1>1, <3>2
  <2> QED BY <2>1, <2>2 DEF Rising
<1>3. Above(h, s)
  BY <1>1 DEF Above
<1>4. s \in Seq(Nat)
  BY DEF LeavesOut
<1> QED BY <1>2, <1>3, <1>4

(* A new request comes after all the others.                               *)
LEMMA SendSorted ==
  ASSUME Sorted, Send
  PROVE  Sorted'
<1> DEFINE all == Append(pending, sent + 1)
<1>1. /\ sent \in Nat /\ sent' = sent + 1 /\ handled' = handled
      /\ pending \in Seq(Nat) /\ handled \in Seq(Nat)
      /\ Rising(pending, sent) /\ Rising(handled, sent) /\ Above(handled, pending)
      /\ LeavesOut(pending', all)
  BY DEF Sorted, Send
<1>2. /\ all \in Seq(Nat) /\ DOMAIN all = 1..(Len(pending) + 1)
      /\ DOMAIN pending = 1..Len(pending) /\ Len(pending) \in Nat
      /\ \A i \in 1..Len(pending) : all[i] = pending[i]
      /\ all[Len(pending) + 1] = sent + 1
  BY <1>1, AppendProperties
<1> HIDE DEF all
<1>3. \A i \in DOMAIN all : \/ i \in DOMAIN pending /\ all[i] = pending[i]
                            \/ i = Len(pending) + 1 /\ all[i] = sent + 1
  BY <1>2
<1>4. Rising(all, sent + 1)
  <2>1. ASSUME NEW i \in DOMAIN all PROVE all[i] \in 1..(sent + 1)
    <3>1. CASE i \in DOMAIN pending /\ all[i] = pending[i]
      <4>1. pending[i] \in 1..sent
        BY <1>1, <3>1 DEF Rising
      <4> QED BY <1>1, <3>1, <4>1
    <3>2. CASE all[i] = sent + 1
      BY <1>1, <3>2
    <3> QED BY <1>3, <3>1, <3>2
  <2>2. ASSUME NEW i \in DOMAIN all, NEW j \in DOMAIN all, i < j PROVE all[i] < all[j]
    <3>1. i \in DOMAIN pending /\ all[i] = pending[i]
      BY <1>2, <2>2
    <3>2. pending[i] \in 1..sent
      BY <1>1, <3>1 DEF Rising
    <3>3. CASE j \in DOMAIN pending /\ all[j] = pending[j]
      BY <1>1, <2>2, <3>1, <3>3 DEF Rising
    <3>4. CASE all[j] = sent + 1
      BY <1>1, <3>1, <3>2, <3>4
    <3> QED BY <1>3, <3>3, <3>4
  <2> QED BY <2>1, <2>2 DEF Rising
<1>5. Rising(handled, sent + 1)
  BY <1>1 DEF Rising
<1>6. Above(handled, all)
  <2> SUFFICES ASSUME NEW i \in DOMAIN handled, NEW j \in DOMAIN all
               PROVE  handled[i] < all[j]
    BY DEF Above
  <2>1. handled[i] \in 1..sent
    BY <1>1 DEF Rising
  <2>2. CASE j \in DOMAIN pending /\ all[j] = pending[j]
    BY <1>1, <2>2 DEF Above
  <2>3. CASE all[j] = sent + 1
    BY <1>1, <2>1, <2>3
  <2> QED BY <1>3, <2>2, <2>3
<1>7. sent + 1 \in Nat
  BY <1>1
<1>8. pending' \in Seq(Nat) /\ Rising(pending', sent + 1) /\ Above(handled, pending')
  BY <1>1, <1>2, <1>4, <1>6, <1>7, LeftIsSorted
<1> QED BY <1>1, <1>5, <1>7, <1>8 DEF Sorted

(* The request handled comes after those handled before it, and those that *)
(* remain come after it.                                                   *)
LEMMA HandleSorted ==
  ASSUME Sorted, Handle
  PROVE  Sorted'
<1>1. /\ sent \in Nat /\ sent' = sent
      /\ pending \in Seq(Nat) /\ handled \in Seq(Nat)
      /\ Rising(pending, sent) /\ Rising(handled, sent) /\ Above(handled, pending)
  BY DEF Sorted, Handle
<1>2. PICK k \in DOMAIN pending :
        /\ handled' = Append(handled, pending[k])
        /\ LeavesOut(pending', SubSeq(pending, k + 1, Len(pending)))
  BY DEF Handle
<1> DEFINE rest == SubSeq(pending, k + 1, Len(pending))
<1>3. /\ Len(pending) \in Nat /\ DOMAIN pending = 1..Len(pending)
      /\ k \in 1..Len(pending) /\ pending[k] \in 1..sent
  BY <1>1, <1>2 DEF Rising
<1>4. /\ rest \in Seq(Nat) /\ DOMAIN rest = 1..(Len(pending) - k)
      /\ \A i \in 1..(Len(pending) - k) : rest[i] = pending[k + i]
  <2>1. k + 1 \in Int /\ Len(pending) \in Int
        /\ \A i \in (k + 1)..Len(pending) : pending[i] \in Nat
    BY <1>1, <1>3
  <2>2. /\ rest \in Seq(Nat)
        /\ Len(rest) = IF k + 1 <= Len(pending) THEN Len(pending) - (k + 1) + 1 ELSE 0
        /\ \A i \in 1..(Len(pending) - (k + 1) + 1) : rest[i] = pending[k + 1 + i - 1]
    BY <2>1, SubSeqProperties
  <2> HIDE DEF rest
  <2>3. Len(rest) = Len(pending) - k /\ Len(pending) - (k + 1) + 1 = Len(pending) - k
    BY <1>3, <2>2
  <2>4. ASSUME NEW i \in 1..(Len(pending) - k) PROVE rest[i] = pending[k + i]
    <3>1. i \in 1..(Len(pending) - (k + 1) + 1) /\ k + 1 + i - 1 = k + i
      BY <1>3
    <3> QED BY <2>2, <3>1
  <2> QED BY <2>2, <2>3, <2>4
<1>5. LeavesOut(pending', rest)
  BY <1>2
<1> HIDE DEF rest
<1>6. \A i \in DOMAIN rest : k + i \in DOMAIN pending /\ k < k + i /\ rest[i] = pending[k + i]
  BY <1>3, <1>4
<1>7. Rising(rest, sent)
  <2>1. ASSUME NEW i \in DOMAIN rest PROVE rest[i] \in 1..sent
    BY <1>1, <1>6 DEF Rising
  <2>2. ASSUME NEW i \in DOMAIN rest, NEW j \in DOMAIN rest, i < j PROVE rest[i] < rest[j]
    <3>1. k + i < k + j
      BY <1>3, <1>4, <2>2
    <3>2. pending[k + i] < pending[k + j]
      BY <1>1, <1>6, <3>1 DEF Rising
    <3> QED BY <1>6, <3>2
  <2> QED BY <2>1, <2>2 DEF Rising
<1> DEFINE past == Append(handled, pending[k])
<1>8. /\ past \in Seq(Nat) /\ DOMAIN past = 1..(Len(handled) + 1)
      /\ DOMAIN handled = 1..Len(handled) /\ Len(handled) \in Nat
      /\ \A i \in 1..Len(handled) : past[i] = handled[i]
      /\ past[Len(handled) + 1] = pending[k]
  BY <1>1, <1>3, AppendProperties
<1>9. handled' = past
  BY <1>2
<1> HIDE DEF past
<1>10. \A i \in DOMAIN past : \/ i \in DOMAIN handled /\ past[i] = handled[i]
                              \/ i = Len(handled) + 1 /\ past[i] = pending[k]
  BY <1>8
<1>11. Rising(past, sent)
  <2>1. ASSUME NEW i \in DOMAIN past PROVE past[i] \in 1..sent
    BY <1>1, <1>3, <1>10 DEF Rising
  <2>2. ASSUME NEW i \in DOMAIN past, NEW j \in DOMAIN past, i < j PROVE past[i] < past[j]
    <3>1. i \in DOMAIN handled /\ past[i] = handled[i]
      BY <1>8, <2>2
    <3>2. CASE j \in DOMAIN handled /\ past[j] = handled[j]
      BY <1>1, <2>2, <3>1, <3>2 DEF Rising
    <3>3. CASE past[j] = pending[k]
      BY <1>1, <1>2, <3>1, <3>3 DEF Above
    <3> QED BY <1>10, <3>2, <3>3
  <2> QED BY <2>1, <2>2 DEF Rising
<1>12. Above(past, rest)
  <2> SUFFICES ASSUME NEW i \in DOMAIN past, NEW j \in DOMAIN rest PROVE past[i] < rest[j]
    BY DEF Above
  <2>1. CASE i \in DOMAIN handled /\ past[i] = handled[i]
    BY <1>1, <1>6, <2>1 DEF Above
  <2>2. CASE past[i] = pending[k]
    BY <1>1, <1>2, <1>6, <2>2 DEF Rising
  <2> QED BY <1>10, <2>1, <2>2
<1>13. pending' \in Seq(Nat) /\ Rising(pending', sent) /\ Above(past, pending')
  BY <1>1, <1>4, <1>5, <1>7, <1>8, <1>12, LeftIsSorted
<1> QED BY <1>1, <1>8, <1>9, <1>11, <1>13 DEF Sorted

(* A lossy FIFO handles no request twice and none before an earlier one    *)
(* (InOrder): what CommandDelivery and CaptureRing promise by refining it. *)
THEOREM FifoKeepsOrder == FifoSpec => []InOrder
<1>1. FifoInit => Sorted
  BY DEF FifoInit, Sorted, Rising, Above
<1>2. Sorted /\ [FifoNext]_fifoVars => Sorted'
  <2> SUFFICES ASSUME Sorted, [FifoNext]_fifoVars PROVE Sorted'
    OBVIOUS
  <2>1. CASE Lose
    <3>1. /\ sent' = sent /\ handled' = handled /\ LeavesOut(pending', pending)
          /\ sent \in Nat /\ pending \in Seq(Nat) /\ handled \in Seq(Nat)
          /\ Rising(pending, sent) /\ Rising(handled, sent) /\ Above(handled, pending)
      BY <2>1 DEF Lose, Sorted
    <3>2. pending' \in Seq(Nat) /\ Rising(pending', sent) /\ Above(handled, pending')
      BY <3>1, LeftIsSorted
    <3> QED BY <3>1, <3>2 DEF Sorted
  <2>2. CASE UNCHANGED fifoVars
    BY <2>2 DEF fifoVars, Sorted
  <2> QED BY <2>1, <2>2, SendSorted, HandleSorted DEF FifoNext
<1>3. Sorted => InOrder
  BY DEF Sorted, InOrder
<1> QED BY <1>1, <1>2, <1>3, PTL DEF FifoSpec
==============================================================================
