------------------------- MODULE ChunkedUploadProofs -------------------------
(***************************************************************************)
(* Proofs about ChunkedUpload, for any images, ids, limits and number of   *)
(* late requests: the type invariant, the contiguity of the tracked        *)
(* offset, the refinement of ImageTransfer and the success of a call that  *)
(* nothing goes wrong for.                                                 *)
(***************************************************************************)
EXTENDS ChunkedUpload, TLAPS

Content == Payloads \union {Hole}

USE UploadConstants

(* A file opened afresh is a sequence of holes, a whole image one of its   *)
(* chunks.                                                                 *)
LEMMA FreshFiles ==
  ASSUME NEW p \in Payloads
  PROVE  /\ Blank(p) \in Seq(Content) /\ Len(Blank(p)) = PayloadLen[p]
         /\ Whole(p) \in Seq(Content) /\ Len(Whole(p)) = PayloadLen[p]
<1>1. PayloadLen[p] \in Nat
  OBVIOUS
<1> QED
  BY <1>1 DEF Blank, Whole, Content

(* Writing a chunk at an offset within the file or at its end keeps what   *)
(* lies below the offset and puts the chunk at its place.                  *)
LEMMA WriteAtFile ==
  ASSUME NEW f \in Seq(Content), NEW o \in Nat, NEW p \in Payloads
  PROVE  /\ WriteAt(f, o, p) \in Seq(Content)
         /\ o <= Len(f) => /\ o + 1 <= Len(WriteAt(f, o, p))
                           /\ WriteAt(f, o, p)[o + 1] = p
                           /\ \A i \in 1..o : WriteAt(f, o, p)[i] = f[i]
<1>1. CASE o < Len(f)
  <2>1. WriteAt(f, o, p) = [f EXCEPT ![o + 1] = p]
    BY <1>1 DEF WriteAt
  <2>2. o + 1 \in 1..Len(f) /\ p \in Content
    BY <1>1 DEF Content
  <2> QED
    BY <2>1, <2>2
<1>2. CASE ~(o < Len(f))
  <2>1. WriteAt(f, o, p) = Append(f, p)
    BY <1>2 DEF WriteAt
  <2>2. p \in Content
    BY DEF Content
  <2> QED
    BY <1>2, <2>1, <2>2
<1> QED
  BY <1>1, <1>2
(* Requests and replies the board and the server put on a channel.         *)
LEMMA MessageTypes ==
  /\ Quiet \in Messages
  /\ TypeOK => \A op \in {"chunk", "complete"} : Request(op, offset) \in Messages
  /\ \A c \in {200, 404, 409, 422}, t \in Ids \union {Fallback}, n \in Nat :
       Reply(c, t, n) \in Messages
BY DEF Messages, Quiet, Request, Reply, TypeOK

(* What a message of the wire is made of.                                  *)
LEMMA RequestTypes ==
  ASSUME TypeOK, NEW c \in Channels, IsRequest(wire[c])
  PROVE  /\ wire[c].task \in Ids \union {Fallback}
         /\ wire[c].offset \in Nat
         /\ wire[c].body \in Payloads
BY DEF TypeOK, Messages, IsRequest, Quiet

LEMMA ReplyTypes ==
  ASSUME TypeOK, wire[Live].op = "reply"
  PROVE  wire[Live].task \in Ids \union {Fallback} /\ wire[Live].recv \in Nat
BY DEF TypeOK, Messages, Quiet, Channels

(* Closing the socket and answering a request keep the wire well typed.    *)
LEMMA HangupTypes ==
  ASSUME TypeOK, Hangup
  PROVE  wire' \in [Channels -> Messages] /\ \A s \in Slots : wire'[s].op # "reply"
<1>1. Quiet \in Messages /\ Quiet.op # "reply" /\ Live \in Channels /\ Slots \subseteq Channels
  BY MessageTypes DEF Quiet, Channels
<1>2. CASE wire' = [wire EXCEPT ![Live] = Quiet]
  BY <1>1, <1>2 DEF TypeOK
<1>3. CASE /\ IsRequest(wire[Live])
           /\ \E s \in Slots : /\ wire[s] = Quiet
                               /\ wire' = [wire EXCEPT ![s] = wire[Live], ![Live] = Quiet]
  BY <1>1, <1>3 DEF TypeOK, IsRequest
<1> QED
  BY <1>2, <1>3 DEF Hangup

LEMMA AnswerTypes ==
  ASSUME TypeOK, NEW c \in Channels, NEW m \in Messages, Answer(c, m)
  PROVE  wire' \in [Channels -> Messages] /\ \A s \in Slots : wire'[s].op # "reply"
BY MessageTypes DEF Answer, TypeOK, Channels, Quiet

(* The files and offsets after the sweep of an offset-0 chunk.             *)
LEMMA SweptTypes ==
  ASSUME TypeOK, NEW r
  PROVE  Swept(r, tmp, NoFile) \in [Ids -> File] /\ Swept(r, off, 0) \in [Ids -> Nat]
BY DEF Swept, TypeOK, File

(* The file a chunk is written to.                                         *)
LEMMA OpenedType ==
  ASSUME TypeOK, NEW r, r.body \in Payloads, r.offset \in Nat,
         r.offset > 0 => r.task \in Ids /\ tmp[r.task] # NoFile
  PROVE  Opened(r) \in Seq(Content)
BY FreshFiles DEF Opened, TypeOK, File, Content

LEMMA FailTypes ==
  ASSUME TypeOK, NEW ask \in BOOLEAN, NEW open \in BOOLEAN,
         NEW again \in {"chunk", "complete"}, Fail(ask, open, again)
  PROVE  /\ failures' \in Nat /\ probe' \in BOOLEAN /\ sock' \in BOOLEAN
         /\ result' \in {"none", "ok", "error"}
         /\ pc' \in {"idle", "chunk", "probe", "complete"}
         /\ UNCHANGED <<task, offset, faults, callVars, serverVars>>
<1>1. failures' \in Nat
  BY DEF Fail, TypeOK
<1>2. CASE failures' > MaxRetries
  BY <1>1, <1>2 DEF Fail, Return
<1>3. CASE ~(failures' > MaxRetries)
  BY <1>1, <1>3 DEF Fail, TypeOK
<1> QED
  BY <1>2, <1>3

(* Every step of the board, the server and the environment keeps the type  *)
(* invariant.                                                              *)
LEMMA Typing == TypeOK /\ [Next]_vars => TypeOK'
<1> SUFFICES ASSUME TypeOK, [Next]_vars PROVE TypeOK'
  OBVIOUS
<1> USE DEF callVars, serverVars
<1>0. Live \in Channels /\ Quiet \in Messages /\ Quiet.op # "reply" /\ Slots \subseteq Channels
  BY MessageTypes DEF Channels, Quiet
<1>1. ASSUME NEW t \in Tasks, NEW p \in Payloads, StartUpload(t, p) PROVE TypeOK'
  <2>1. t \in Ids \union {Fallback} /\ offered' \subseteq Tasks \X Payloads
    BY <1>1 DEF StartUpload, Tasks, TypeOK
  <2>2. pc' \in {"chunk", "resume"} /\ clean' \in BOOLEAN /\ calls' \in Nat
    BY <1>1 DEF StartUpload, TypeOK
  <2> QED
    BY <1>1, <2>1, <2>2 DEF TypeOK, StartUpload
<1>2. CASE ResumeAnswered
  <2>1. offset' \in Nat
    BY <1>2 DEF ResumeAnswered, TypeOK, Reported
  <2> QED
    BY <1>2, <2>1 DEF ResumeAnswered, TypeOK
<1>3. CASE ResumeUnanswered
  BY <1>3 DEF ResumeUnanswered, TypeOK
<1>4. CASE SendChunk \/ SendComplete
  <2>0. PICK op \in {"chunk", "complete"} : wire' = [wire EXCEPT ![Live] = Request(op, offset)]
    BY <1>4 DEF SendChunk, SendComplete, Post
  <2>1. wire' \in [Channels -> Messages] /\ \A s \in Slots : wire'[s].op # "reply"
    <3>1. Request(op, offset) \in Messages
      BY MessageTypes
    <3> QED
      BY <1>0, <2>0, <3>1 DEF TypeOK
  <2> QED
    BY <1>4, <2>1 DEF SendChunk, SendComplete, Post, TypeOK
<1>5. CASE ConnectFails
  BY <1>5, FailTypes DEF ConnectFails, TypeOK
<1>6. CASE NoAnswer
  BY <1>6, FailTypes, HangupTypes DEF NoAnswer, TypeOK
<1>7. ASSUME wire' = [wire EXCEPT ![Live] = Quiet]
      PROVE  wire' \in [Channels -> Messages] /\ \A s \in Slots : wire'[s].op # "reply"
  BY <1>0, <1>7 DEF TypeOK
<1>8. CASE ChunkConfirmed
  <2>1. task' \in Ids \union {Fallback} /\ offset' \in Nat
    BY <1>8, ReplyTypes DEF ChunkConfirmed, Answered
  <2>2. pc' \in {"chunk", "complete"}
    BY <1>8 DEF ChunkConfirmed, Loop
  <2> QED
    BY <1>7, <1>8, <2>1, <2>2 DEF ChunkConfirmed, TypeOK
<1>9. CASE ChunkNotAdvanced
  BY <1>7, <1>9, FailTypes DEF ChunkNotAdvanced, TypeOK
<1>10. CASE ChunkUnknown
  BY <1>7, <1>10 DEF ChunkUnknown, TypeOK
<1>11. CASE ProbeAnswered
  <2>1. offset' \in Nat /\ failures' \in Nat
    BY <1>11 DEF ProbeAnswered, TypeOK, Reported
  <2>2. pc' \in {"chunk", "complete"}
    BY <1>11 DEF ProbeAnswered, Loop
  <2> QED
    BY <1>11, <2>1, <2>2 DEF ProbeAnswered, TypeOK
<1>12. CASE ProbeUnanswered
  BY <1>12 DEF ProbeUnanswered, TypeOK
<1>13. CASE CompleteAccepted
  BY <1>7, <1>13 DEF CompleteAccepted, Return, TypeOK
<1>14. CASE CompleteRefused
  <2>1. Fail(FALSE, FALSE, "complete") /\ UNCHANGED clean
    BY <1>14 DEF CompleteRefused
  <2>2. wire' = [wire EXCEPT ![Live] = Quiet]
    BY <1>14 DEF CompleteRefused
  <2> QED
    BY <1>7, <2>1, <2>2, FailTypes DEF TypeOK
<1>15. CASE DeadlineHit
  BY <1>15 DEF DeadlineHit, Return, TypeOK
<1>16. ASSUME NEW c \in Channels, ReceiveChunk(c) PROVE TypeOK'
  <2> DEFINE r == wire[c]
             id == ResolvedId(r)
  <2>1. r.task \in Ids \union {Fallback} /\ r.offset \in Nat /\ r.body \in Payloads /\ id \in Ids
    BY <1>16, RequestTypes DEF ReceiveChunk, IsRequest
  <2>2. r.offset > 0 => id = r.task
    BY <2>1 DEF ResolvedId
  <2>3. CASE \E m \in {Reply(409, id, 0), Reply(200, id, Expected(r))} :
               r.offset > 0 /\ Answer(c, m) /\ UNCHANGED <<tmp, off, aged, nextId, torn>>
    <3>1. Expected(r) \in Nat
      BY <2>1, <2>2, <2>3 DEF Expected, TypeOK
    <3>2. wire' \in [Channels -> Messages] /\ \A s \in Slots : wire'[s].op # "reply"
      BY <2>1, <2>3, <3>1, MessageTypes, AnswerTypes
    <3> QED
      BY <1>16, <2>3, <3>2 DEF ReceiveChunk, TypeOK
  <2>4. CASE /\ r.offset > 0 => tmp[id] # NoFile
             /\ r.offset = Expected(r)
             /\ tmp' = [Swept(r, tmp, NoFile) EXCEPT ![id] = WriteAt(Opened(r), r.offset, r.body)]
             /\ off' = [Swept(r, off, 0) EXCEPT ![id] = r.offset + 1]
             /\ aged' = IF r.offset = 0 THEN {} ELSE aged \ {id}
             /\ nextId' = IF id # r.task THEN nextId + 1 ELSE nextId
             /\ torn' = IF r.offset = 0 THEN torn \ (aged \union {id}) ELSE torn
             /\ Answer(c, Reply(200, id, r.offset + 1))
    <3>1. WriteAt(Opened(r), r.offset, r.body) \in File
      BY <2>1, <2>2, <2>4, OpenedType, WriteAtFile DEF File, Content
    <3>2. tmp' \in [Ids -> File] /\ off' \in [Ids -> Nat]
      BY <2>1, <2>4, <3>1, SweptTypes
    <3>3. wire' \in [Channels -> Messages] /\ \A s \in Slots : wire'[s].op # "reply"
      BY <2>1, <2>4, MessageTypes, AnswerTypes
    <3>4. aged' \subseteq Ids /\ torn' \subseteq Ids /\ nextId' \in Nat \ {0}
      BY <2>4 DEF TypeOK
    <3> QED
      BY <1>16, <3>2, <3>3, <3>4 DEF ReceiveChunk, TypeOK
  <2> QED
    BY <1>16, <2>3, <2>4 DEF ReceiveChunk
<1>17. ASSUME NEW c \in Channels, ReceiveComplete(c) PROVE TypeOK'
  <2> DEFINE r == wire[c]
             id == r.task
             got == IF id \in Ids THEN tmp[id] ELSE NoFile
  <2>1. id \in Ids \union {Fallback}
    BY <1>17, RequestTypes DEF ReceiveComplete, IsRequest
  <2>2. \E n \in {200, 404, 409, 422} : Answer(c, Reply(n, id, 0))
    BY <1>17 DEF ReceiveComplete
  <2>3. wire' \in [Channels -> Messages] /\ \A s \in Slots : wire'[s].op # "reply"
    <3>1. PICK n \in {200, 404, 409, 422} : Answer(c, Reply(n, id, 0))
      BY <2>2
    <3>2. Reply(n, id, 0) \in Messages
      BY <2>1, MessageTypes
    <3> QED
      BY <3>1, <3>2, AnswerTypes
  <2>4. CASE UNCHANGED <<tmp, off, aged, stored, torn, clean>>
    BY <1>17, <2>3, <2>4 DEF ReceiveComplete, TypeOK
  <2>5. CASE /\ got # NoFile
             /\ Remove(id)
             /\ \/ stored' = stored \union {[id |-> id, bytes |-> got]} /\ UNCHANGED clean
                \/ stored' = stored /\ clean' = FALSE
    <3>1. id \in Ids /\ got \in Seq(Payloads \union {Hole})
      BY <2>5 DEF TypeOK, File
    <3>2. stored' \subseteq [id : Ids, bytes : Seq(Payloads \union {Hole})] /\ clean' \in BOOLEAN
      <4>1. [id |-> id, bytes |-> got] \in [id : Ids, bytes : Seq(Payloads \union {Hole})]
        BY <3>1
      <4> HIDE DEF id, got
      <4> QED
        BY <2>5, <4>1 DEF TypeOK
    <3>3. /\ tmp' \in [Ids -> File] /\ off' \in [Ids -> Nat]
          /\ aged' \subseteq Ids /\ torn' \subseteq Ids
      BY <2>5 DEF Remove, TypeOK, File
    <3> QED
      BY <1>17, <2>3, <3>2, <3>3 DEF ReceiveComplete, TypeOK
  <2> QED
    BY <1>17, <2>4, <2>5 DEF ReceiveComplete
<1>18. ASSUME NEW id \in Ids, Age(id) PROVE TypeOK'
  BY <1>18 DEF Age, TypeOK
<1>19. CASE Crash
  <2>1. wire' \in [Channels -> Messages] /\ \A s \in Slots : wire'[s].op # "reply"
    BY <1>0, <1>19 DEF Crash
  <2>2. /\ tmp' \in [Ids -> File] /\ off' \in [Ids -> Nat]
        /\ aged' \subseteq Ids /\ torn' \subseteq Ids
    <3>1. CASE UNCHANGED <<tmp, off, aged, torn>>
      BY <3>1 DEF TypeOK
    <3>2. ASSUME NEW c \in Channels, IsRequest(wire[c]), TornChunk(wire[c], ResolvedId(wire[c]))
          PROVE  /\ tmp' \in [Ids -> File] /\ off' \in [Ids -> Nat]
                 /\ aged' \subseteq Ids /\ torn' \subseteq Ids
      <4> DEFINE r == wire[c]
                 id == ResolvedId(r)
                 f == Swept(r, tmp, NoFile)
                 o == Swept(r, off, 0)
      <4>1. r.offset \in Nat /\ r.body \in Payloads /\ id \in Ids
        BY <3>2, RequestTypes DEF TornChunk
      <4>2. r.offset > 0 => id = r.task
        BY <4>1 DEF ResolvedId
      <4>3. f \in [Ids -> File] /\ o \in [Ids -> Nat]
        BY SweptTypes
      <4>4. Blank(r.body) \in File /\ WriteAt(Opened(r), r.offset, r.body) \in File
        BY <3>2, <4>1, <4>2, FreshFiles, OpenedType, WriteAtFile DEF File, Content, TornChunk
      <4>5. tmp' \in [Ids -> File] /\ off' \in [Ids -> Nat]
        <5> HIDE DEF f, o, r, id
        <5>1. /\ \/ tmp' = f
                 \/ tmp' = [f EXCEPT ![id] = Blank(r.body)]
                 \/ tmp' = [f EXCEPT ![id] = WriteAt(Opened(r), r.offset, r.body)]
              /\ \/ off' = o
                 \/ off' = [o EXCEPT ![id] = 0]
                 \/ off' = [o EXCEPT ![id] = r.offset]
          BY <3>2 DEF TornChunk, f, o, r, id
        <5> QED
          BY <5>1, <4>1, <4>3, <4>4
      <4>6. aged' \subseteq Ids /\ torn' \subseteq Ids
        BY <3>2, <4>1 DEF TornChunk, TypeOK
      <4> QED
        BY <4>5, <4>6
    <3>3. ASSUME NEW c \in Channels, TornComplete(wire[c])
          PROVE  /\ tmp' \in [Ids -> File] /\ off' \in [Ids -> Nat]
                 /\ aged' \subseteq Ids /\ torn' \subseteq Ids
      <4> DEFINE id == wire[c].task
      <4>1. /\ id \in Ids
            /\ tmp' = [tmp EXCEPT ![id] = NoFile]
            /\ off' = off \/ off' = [off EXCEPT ![id] = 0]
            /\ torn' = torn \ {id} /\ aged' = aged \ {id}
        BY <3>3 DEF TornComplete
      <4> HIDE DEF id
      <4> QED
        BY <4>1 DEF TypeOK, File
    <3> QED
      BY <1>19, <3>1, <3>2, <3>3 DEF Crash
  <2> QED
    <3>1. /\ faults' = faults + 1 /\ nextId' = 1 /\ clean' = FALSE
          /\ UNCHANGED <<pc, task, offset, failures, probe, sock, result, stored, callVars>>
      BY <1>19 DEF Crash
    <3>2. faults' \in Nat /\ nextId' \in Nat \ {0}
      BY <3>1 DEF TypeOK
    <3> QED
      BY <2>1, <2>2, <3>1, <3>2 DEF TypeOK
<1>20. CASE BoardReset
  <2>1. /\ faults' = faults + 1 /\ Hangup
        /\ pc' = "idle" /\ result' = "none" /\ probe' = FALSE /\ sock' = FALSE
        /\ UNCHANGED <<task, offset, failures, clean, callVars, serverVars>>
    BY <1>20 DEF BoardReset, Return
  <2>2. faults' \in Nat
    BY <2>1 DEF TypeOK
  <2> QED
    BY <2>1, <2>2, HangupTypes DEF TypeOK
<1>21. ASSUME NEW c \in Channels, ReceiveCutChunk(c) PROVE TypeOK'
  <2>1. tmp' \in [Ids -> File] /\ off' \in [Ids -> Nat]
    BY <1>21, SweptTypes DEF ReceiveCutChunk
  <2>2. wire' \in [Channels -> Messages] /\ \A s \in Slots : wire'[s].op # "reply"
    BY <1>0, <1>21 DEF ReceiveCutChunk, TypeOK
  <2>3. nextId' \in Nat \ {0}
    BY <1>21 DEF ReceiveCutChunk, TypeOK
  <2>4. aged' \subseteq Ids /\ torn' \subseteq Ids /\ clean' \in BOOLEAN
    BY <1>21 DEF ReceiveCutChunk, TypeOK
  <2> QED
    BY <1>21, <2>1, <2>2, <2>3, <2>4 DEF ReceiveCutChunk, TypeOK
<1>22. CASE UNCHANGED vars
  BY <1>22 DEF vars, TypeOK
<1> QED
  BY <1>1, <1>2, <1>3, <1>4, <1>5, <1>6, <1>8, <1>9, <1>10, <1>11, <1>12, <1>13,
     <1>14, <1>15, <1>16, <1>17, <1>18, <1>19, <1>20, <1>21, <1>22 DEF Next, BoardStep

(* The type invariant holds for any images, ids and limits.                *)
THEOREM TypeCorrect == Spec => []TypeOK
<1>1. Init => TypeOK
  <2> SUFFICES ASSUME Init PROVE TypeOK
    OBVIOUS
  <2>1. wire \in [Channels -> Messages] /\ \A s \in Slots : wire[s].op # "reply"
    BY MessageTypes DEF Init, Channels, Quiet
  <2>2. tmp \in [Ids -> File] /\ off \in [Ids -> Nat]
    BY DEF Init, File
  <2>3. 0 \in Nat /\ 1 \in Nat \ {0}
    OBVIOUS
  <2> QED
    BY <2>1, <2>2, <2>3 DEF Init, TypeOK, Tasks
<1> QED
  BY <1>1, Typing, PTL DEF Spec

(* After the sweep, what is left of the partials is still contiguous.      *)
LEMMA SweptContiguous ==
  ASSUME TypeOK, OffsetIsContiguous, NEW r, NEW id \in Ids,
         id \notin (IF r.offset = 0 THEN torn \ aged ELSE torn),
         Swept(r, tmp, NoFile)[id] # NoFile
  PROVE  Contiguous(Swept(r, tmp, NoFile)[id], Swept(r, off, 0)[id])
BY DEF Swept, OffsetIsContiguous, TypeOK

(* A chunk accepted by its offset extends the contiguous part.             *)
LEMMA WriteContiguous ==
  ASSUME TypeOK, OffsetIsContiguous, NEW r, r.body \in Payloads, r.offset \in Nat,
         r.offset > 0 => r.task \in Ids \ torn /\ tmp[r.task] # NoFile,
         r.offset = Expected(r)
  PROVE  /\ Contiguous(WriteAt(Opened(r), r.offset, r.body), r.offset)
         /\ Contiguous(WriteAt(Opened(r), r.offset, r.body), r.offset + 1)
<1> DEFINE f == Opened(r)
           n == r.offset
           p == r.body
<1>1. f \in Seq(Content)
  BY OpenedType
<1>2. Contiguous(f, n)
  <2>1. CASE n = 0
    <3>1. 0 <= Len(f)
      BY <1>1
    <3> QED
      BY <2>1, <3>1 DEF Contiguous
  <2>2. CASE n > 0
    BY <2>2 DEF Opened, Expected, OffsetIsContiguous
  <2> QED
    BY <2>1, <2>2
<1> HIDE DEF f, n, p
<1>3. n \in Nat /\ p \in Payloads /\ p # Hole
  BY DEF n, p
<1>4. /\ n + 1 <= Len(WriteAt(f, n, p)) /\ WriteAt(f, n, p)[n + 1] = p
      /\ \A i \in 1..n : WriteAt(f, n, p)[i] = f[i]
  BY <1>1, <1>2, <1>3, WriteAtFile DEF Contiguous
<1>5. Len(WriteAt(f, n, p)) \in Nat
  BY <1>1, <1>3, WriteAtFile
<1>6. \A i \in 1..(n + 1) : i \in 1..n \/ i = n + 1
  BY <1>3
<1>7. Contiguous(WriteAt(f, n, p), n) /\ Contiguous(WriteAt(f, n, p), n + 1)
  <2> DEFINE g == WriteAt(f, n, p)
  <2>1. \A i \in 1..n : f[i] # Hole
    BY <1>2 DEF Contiguous
  <2>2. /\ n + 1 <= Len(g) /\ Len(g) \in Nat
        /\ \A i \in 1..n : g[i] # Hole
        /\ g[n + 1] # Hole
    BY <1>3, <1>4, <1>5, <2>1
  <2> HIDE DEF g
  <2>3. n <= Len(g)
    BY <1>3, <2>2
  <2>4. \A i \in 1..(n + 1) : g[i] # Hole
    BY <1>6, <2>2
  <2>5. Contiguous(g, n) /\ Contiguous(g, n + 1)
    BY <2>2, <2>3, <2>4 DEF Contiguous
  <2> QED
    BY <2>5 DEF g
<1> QED
  BY <1>7 DEF f, n, p

(* Chunks are accepted only at the tracked offset, so no step but a torn   *)
(* restart leaves a hole below it.                                         *)
LEMMA ContiguousStep ==
  TypeOK /\ OffsetIsContiguous /\ [Next]_vars => OffsetIsContiguous'
<1> SUFFICES ASSUME TypeOK, OffsetIsContiguous, [Next]_vars PROVE OffsetIsContiguous'
  OBVIOUS
<1>1. ASSUME UNCHANGED <<tmp, off, torn>> PROVE OffsetIsContiguous'
  BY <1>1 DEF OffsetIsContiguous, Contiguous
<1>2. ASSUME NEW r, r.body \in Payloads, r.offset \in Nat, NEW id \in Ids,
             r.offset > 0 => id = r.task /\ tmp[r.task] # NoFile,
             r.offset = Expected(r),
             NEW T \in SUBSET Ids,
             IF r.offset = 0 THEN (torn \ aged) \ {id} \subseteq T ELSE torn \subseteq T,
             NEW g, NEW n,
             id \notin T => Contiguous(g, n),
             tmp' = [Swept(r, tmp, NoFile) EXCEPT ![id] = g],
             off' = [Swept(r, off, 0) EXCEPT ![id] = n],
             torn' = T
      PROVE  OffsetIsContiguous'
  <2> SUFFICES ASSUME NEW i \in Ids, i \notin T, tmp'[i] # NoFile
               PROVE  Contiguous(tmp'[i], off'[i])
    BY <1>2 DEF OffsetIsContiguous, Contiguous
  <2>1. Swept(r, tmp, NoFile) \in [Ids -> File] /\ Swept(r, off, 0) \in [Ids -> Nat]
    BY SweptTypes
  <2>2. CASE i = id
    BY <1>2, <2>1, <2>2
  <2>3. CASE i # id
    <3>1. tmp'[i] = Swept(r, tmp, NoFile)[i] /\ off'[i] = Swept(r, off, 0)[i]
      BY <1>2, <2>1, <2>3
    <3>2. i \notin (IF r.offset = 0 THEN torn \ aged ELSE torn)
      BY <1>2, <2>3
    <3> QED
      BY <3>1, <3>2, SweptContiguous
  <2> QED
    BY <2>2, <2>3
<1>3. ASSUME NEW c \in Channels, ReceiveChunk(c) PROVE OffsetIsContiguous'
  <2> DEFINE r == wire[c]
             id == ResolvedId(r)
             g == WriteAt(Opened(r), r.offset, r.body)
  <2>1. r.offset \in Nat /\ r.body \in Payloads /\ id \in Ids
    BY <1>3, RequestTypes DEF ReceiveChunk, IsRequest
  <2>2. r.offset > 0 => id = r.task
    BY <2>1 DEF ResolvedId
  <2>3. CASE /\ r.offset > 0 => tmp[id] # NoFile
             /\ r.offset = Expected(r)
             /\ tmp' = [Swept(r, tmp, NoFile) EXCEPT ![id] = g]
             /\ off' = [Swept(r, off, 0) EXCEPT ![id] = r.offset + 1]
             /\ torn' = IF r.offset = 0 THEN torn \ (aged \union {id}) ELSE torn
    <3> DEFINE T == IF r.offset = 0 THEN torn \ (aged \union {id}) ELSE torn
    <3>1. id \notin T => Contiguous(g, r.offset + 1)
      BY <2>1, <2>2, <2>3, WriteContiguous
    <3>2. T \in SUBSET Ids
      BY DEF TypeOK
    <3>3. IF r.offset = 0 THEN (torn \ aged) \ {id} \subseteq T ELSE torn \subseteq T
      OBVIOUS
    <3>4. r.offset > 0 => id = r.task /\ tmp[r.task] # NoFile
      BY <2>2, <2>3
    <3> HIDE DEF r, id, g, T
    <3> QED
      BY <1>2, <2>1, <2>3, <3>1, <3>2, <3>3, <3>4 DEF T
  <2> QED
    BY <1>1, <1>3, <2>3 DEF ReceiveChunk
<1>4. ASSUME NEW id \in Ids,
             tmp' = [tmp EXCEPT ![id] = NoFile],
             off' = off \/ off' = [off EXCEPT ![id] = 0],
             torn' = torn \ {id}
      PROVE  OffsetIsContiguous'
  BY <1>4 DEF OffsetIsContiguous, Contiguous, TypeOK
<1>5. ASSUME NEW c \in Channels, ReceiveComplete(c) PROVE OffsetIsContiguous'
  <2>1. CASE Remove(wire[c].task) /\ wire[c].task \in Ids
    BY <1>4, <2>1 DEF Remove
  <2> QED
    BY <1>1, <1>5, <2>1 DEF ReceiveComplete
<1>6. ASSUME NEW c \in Channels, IsRequest(wire[c]), TornChunk(wire[c], ResolvedId(wire[c]))
      PROVE  OffsetIsContiguous'
  <2> DEFINE r == wire[c]
             id == ResolvedId(r)
             f == Swept(r, tmp, NoFile)
             o == Swept(r, off, 0)
             g == WriteAt(Opened(r), r.offset, r.body)
             none == IF r.offset = 0 THEN torn \ aged ELSE torn
  <2>1. r.offset \in Nat /\ r.body \in Payloads /\ id \in Ids
    BY <1>6, RequestTypes DEF TornChunk
  <2>2. r.offset > 0 => id = r.task /\ tmp[r.task] # NoFile
    BY <1>6, <2>1 DEF ResolvedId, TornChunk
  <2>3. r.offset = Expected(r)
    BY <1>6 DEF TornChunk
  <2>4. none \in SUBSET Ids
    BY DEF TypeOK
  <2>5. CASE tmp' = f /\ off' = o /\ torn' = none
    BY <2>5, SweptContiguous DEF OffsetIsContiguous, Contiguous
  <2>6. CASE /\ r.offset = 0
             /\ tmp' = [f EXCEPT ![id] = Blank(r.body)]
             /\ off' = o
             /\ torn' = none \union {id}
    <3>1. off' = [o EXCEPT ![id] = o[id]]
      BY <2>1, <2>6, SweptTypes
    <3> DEFINE T == none \union {id}
    <3>2. T \in SUBSET Ids /\ id \in T /\ (torn \ aged) \ {id} \subseteq T
      BY <2>1, <2>4, <2>6
    <3> HIDE DEF r, id, f, o, g, none, T
    <3> QED
      BY <1>2, <2>1, <2>2, <2>3, <2>6, <3>1, <3>2 DEF f, o, T
  <2>7. CASE /\ r.offset = 0
             /\ tmp' = [f EXCEPT ![id] = Blank(r.body)]
             /\ off' = [o EXCEPT ![id] = 0]
             /\ torn' = none \ {id}
    <3> DEFINE T == none \ {id}
    <3>1. Contiguous(Blank(r.body), 0)
      BY <2>1, FreshFiles DEF Contiguous
    <3>2. T \in SUBSET Ids /\ (torn \ aged) \ {id} \subseteq T
      BY <2>4, <2>7
    <3> HIDE DEF r, id, f, o, g, none, T
    <3> QED
      BY <1>2, <2>1, <2>2, <2>3, <2>7, <3>1, <3>2 DEF f, o, T
  <2>8. CASE /\ tmp' = [f EXCEPT ![id] = g]
             /\ off' = [o EXCEPT ![id] = r.offset]
             /\ torn' = IF r.offset = 0 THEN none \ {id} ELSE torn
    <3> DEFINE T == IF r.offset = 0 THEN none \ {id} ELSE torn
    <3>1. id \notin T => Contiguous(g, r.offset)
      BY <2>1, <2>2, <2>3, WriteContiguous
    <3>2. T \in SUBSET Ids
      BY <2>4 DEF TypeOK
    <3>3. IF r.offset = 0 THEN (torn \ aged) \ {id} \subseteq T ELSE torn \subseteq T
      OBVIOUS
    <3> HIDE DEF r, id, f, o, g, none, T
    <3> QED
      BY <1>2, <2>1, <2>2, <2>3, <2>8, <3>1, <3>2, <3>3 DEF f, o, T
  <2> QED
    BY <1>6, <2>5, <2>6, <2>7, <2>8 DEF TornChunk
<1>7. CASE Crash
  <2>1. ASSUME NEW c \in Channels, TornComplete(wire[c]) PROVE OffsetIsContiguous'
    BY <1>4, <2>1 DEF TornComplete
  <2> QED
    BY <1>1, <1>6, <1>7, <2>1 DEF Crash
<1>8. CASE BoardStep
  <2>1. UNCHANGED serverVars
    BY <1>8 DEF BoardStep, ResumeAnswered, ResumeUnanswered, SendChunk, SendComplete, Post,
       ConnectFails, NoAnswer, Fail, ChunkConfirmed, ChunkNotAdvanced, ChunkUnknown,
       ProbeAnswered, ProbeUnanswered, CompleteAccepted, CompleteRefused, DeadlineHit
  <2> QED
    BY <1>1, <2>1 DEF serverVars
<1>9. CASE \/ \E t \in Tasks, p \in Payloads : StartUpload(t, p)
           \/ \E id \in Ids : Age(id)
           \/ BoardReset
           \/ UNCHANGED vars
  <2>1. UNCHANGED <<tmp, off, torn>>
    BY <1>9 DEF StartUpload, Age, BoardReset, vars, serverVars
  <2> QED
    BY <1>1, <2>1
<1>10. ASSUME NEW c \in Channels, ReceiveCutChunk(c) PROVE OffsetIsContiguous'
  BY <1>10, SweptContiguous DEF ReceiveCutChunk, OffsetIsContiguous, Contiguous
<1> QED
  BY <1>3, <1>5, <1>7, <1>8, <1>9, <1>10 DEF Next

(* Whatever the network loses, repeats or delays, every chunk below the    *)
(* tracked offset is in the file, unless a crash tore that file.           *)
THEOREM ContiguousAlways == Spec => []OffsetIsContiguous
<1>1. Init => OffsetIsContiguous
  BY DEF Init, OffsetIsContiguous
<1> QED
  BY <1>1, TypeCorrect, ContiguousStep, PTL DEF Spec
------------------------------------------------------------------------------
(* What relates the call, the messages under way and the store.            *)

CallOffered ==
  pc # "idle" => <<asked, payload>> \in offered /\ (task = asked \/ asked = Fallback)

RequestsOffered ==
  \A c \in Channels : IsRequest(wire[c]) => Transfer!MayStore(wire[c].task, wire[c].body)

LiveExchange ==
  /\ pc \notin {"await", "ack"} => wire[Live] = Quiet
  /\ pc = "await" => wire[Live].op # "complete"
  /\ pc = "ack" => wire[Live].op # "chunk"
  /\ IsRequest(wire[Live]) => wire[Live].task = task /\ wire[Live].body = payload
  /\ pc = "await" /\ Answered(200) => wire[Live].task = task \/ task = Fallback
  /\ pc = "ack" /\ Answered(200) => [id |-> task, bytes |-> Whole(payload)] \in stored

Exchange == CallOffered /\ RequestsOffered /\ LiveExchange

(* What the call offers may be stored under the id it uses.                *)
LEMMA CallMayStore ==
  CallOffered /\ pc # "idle" => Transfer!MayStore(task, payload)
BY DEF CallOffered, Transfer!MayStore

(* A step that only empties channels or parks the live request elsewhere   *)
(* keeps the requests offered.                                             *)
LEMMA HangupOffered ==
  ASSUME TypeOK, RequestsOffered, Hangup, UNCHANGED offered
  PROVE  RequestsOffered' /\ wire'[Live] = Quiet
<1>1. Live \in Channels /\ Slots \subseteq Channels /\ ~IsRequest(Quiet) /\ Live \notin Slots
  BY DEF Channels, IsRequest, Quiet
<1>2. CASE wire' = [wire EXCEPT ![Live] = Quiet]
  BY <1>1, <1>2 DEF TypeOK, RequestsOffered, IsRequest, Transfer!MayStore
<1>3. ASSUME NEW s \in Slots, IsRequest(wire[Live]),
             wire' = [wire EXCEPT ![s] = wire[Live], ![Live] = Quiet]
      PROVE  RequestsOffered' /\ wire'[Live] = Quiet
  BY <1>1, <1>3 DEF TypeOK, RequestsOffered, IsRequest, Transfer!MayStore
<1> QED
  BY <1>2, <1>3 DEF Hangup

LEMMA AnswerOffered ==
  ASSUME TypeOK, RequestsOffered, NEW c \in Channels, NEW m, ~IsRequest(m),
         Answer(c, m), UNCHANGED offered
  PROVE  /\ RequestsOffered'
         /\ wire'[Live] = IF c = Live THEN m ELSE wire[Live]
<1>1. Live \in Channels /\ ~IsRequest(Quiet)
  BY DEF Channels, IsRequest, Quiet
<1> QED
  BY <1>1 DEF TypeOK, RequestsOffered, IsRequest, Transfer!MayStore, Answer

(* Every step keeps the exchange: only offered images travel, the live     *)
(* message belongs to the running call, and a 200 to /complete means that  *)
(* the image is in the store.                                              *)
LEMMA ExchangeStep == TypeOK /\ Exchange /\ [Next]_vars => Exchange'
<1> SUFFICES ASSUME TypeOK, Exchange, [Next]_vars PROVE Exchange'
  OBVIOUS
<1> USE DEF callVars, serverVars
<1>0. /\ Live \in Channels /\ ~IsRequest(Quiet) /\ Quiet.op = "none"
      /\ CallOffered /\ RequestsOffered /\ LiveExchange
  BY DEF Channels, IsRequest, Quiet, Exchange
<1>1. ASSUME wire' = wire, offered \subseteq offered' PROVE RequestsOffered'
  BY <1>0, <1>1 DEF RequestsOffered, Transfer!MayStore
<1>2. ASSUME wire' = [wire EXCEPT ![Live] = Quiet], offered' = offered
      PROVE  RequestsOffered' /\ wire'[Live] = Quiet
  BY <1>0, <1>2, HangupOffered DEF Hangup
<1>3. ASSUME wire'[Live] = Quiet, pc' \notin {"await", "ack"} PROVE LiveExchange'
  BY <1>0, <1>3 DEF LiveExchange, Answered, IsRequest
<1>4. ASSUME NEW t \in Tasks, NEW p \in Payloads, StartUpload(t, p) PROVE Exchange'
  <2>1. CallOffered' /\ offered \subseteq offered' /\ wire' = wire
    BY <1>4 DEF StartUpload, CallOffered
  <2>2. wire'[Live] = Quiet /\ pc' \notin {"await", "ack"}
    BY <1>0, <1>4 DEF StartUpload, LiveExchange
  <2> QED
    BY <1>1, <1>3, <2>1, <2>2 DEF Exchange
<1>5. CASE ResumeAnswered \/ ResumeUnanswered \/ ProbeAnswered \/ ProbeUnanswered
  <2>1. /\ wire' = wire /\ UNCHANGED <<asked, task, payload, offered>>
        /\ pc # "idle" /\ pc \notin {"await", "ack"} /\ pc' \in {"chunk", "complete"}
    BY <1>5 DEF ResumeAnswered, ResumeUnanswered, ProbeAnswered, ProbeUnanswered, Loop
  <2>2. wire'[Live] = Quiet
    BY <1>0, <2>1 DEF LiveExchange
  <2> QED
    BY <1>0, <1>1, <1>3, <2>1, <2>2 DEF Exchange, CallOffered
<1>6. CASE SendChunk \/ SendComplete
  <2>1. PICK op \in {"chunk", "complete"} :
           /\ wire' = [wire EXCEPT ![Live] = Request(op, offset)]
           /\ pc # "idle"
           /\ op = "chunk" => pc' = "await"
           /\ op = "complete" => pc' = "ack"
           /\ UNCHANGED <<asked, task, payload, offered>>
    BY <1>6 DEF SendChunk, SendComplete, Post
  <2>2. /\ Request(op, offset).op = op /\ Request(op, offset).task = task
        /\ Request(op, offset).body = payload
    BY DEF Request
  <2>3. wire'[Live] = Request(op, offset) /\ \A c \in Channels \ {Live} : wire'[c] = wire[c]
    BY <1>0, <2>1 DEF TypeOK
  <2>4. RequestsOffered'
    <3>1. Transfer!MayStore(task, payload)
      BY <1>0, <2>1, CallMayStore
    <3>2. SUFFICES ASSUME NEW c \in Channels, IsRequest(wire'[c])
                   PROVE  Transfer!MayStore(wire'[c].task, wire'[c].body)
      BY <2>1 DEF RequestsOffered, Transfer!MayStore, IsRequest
    <3>3. CASE c = Live
      BY <2>2, <2>3, <3>1, <3>3
    <3>4. CASE c # Live
      BY <1>0, <2>3, <3>2, <3>4 DEF RequestsOffered
    <3> QED
      BY <3>3, <3>4
  <2>5. LiveExchange'
    BY <2>1, <2>2, <2>3 DEF LiveExchange, Answered
  <2>6. CallOffered'
    BY <1>0, <2>1 DEF CallOffered
  <2> QED
    BY <2>4, <2>5, <2>6 DEF Exchange
<1>7. CASE ConnectFails
  <2>1. /\ wire' = wire /\ UNCHANGED <<asked, task, payload, offered>>
        /\ pc \in {"chunk", "complete"} /\ pc' \in {"idle", "chunk", "probe", "complete"}
    BY <1>7, FailTypes DEF ConnectFails, TypeOK
  <2>2. wire'[Live] = Quiet
    BY <1>0, <2>1 DEF LiveExchange
  <2> QED
    BY <1>0, <1>1, <1>3, <2>1, <2>2 DEF Exchange, CallOffered
<1>8. CASE NoAnswer
  <2>1. /\ Hangup /\ UNCHANGED <<asked, task, payload, offered>>
        /\ pc # "idle" /\ pc' \in {"idle", "chunk", "probe", "complete"}
    BY <1>8, FailTypes DEF NoAnswer
  <2> QED
    BY <1>0, <1>3, <2>1, HangupOffered DEF Exchange, CallOffered
<1>9. CASE ChunkNotAdvanced
  <2>1. /\ wire' = [wire EXCEPT ![Live] = Quiet] /\ UNCHANGED <<asked, task, payload, offered>>
        /\ pc # "idle" /\ pc' \in {"idle", "chunk", "probe", "complete"}
    BY <1>9, FailTypes DEF ChunkNotAdvanced, TypeOK
  <2> QED
    BY <1>0, <1>2, <1>3, <2>1 DEF Exchange, CallOffered
<1>10. CASE CompleteRefused
  <2>1. /\ wire' = [wire EXCEPT ![Live] = Quiet] /\ UNCHANGED <<asked, task, payload, offered>>
        /\ pc # "idle" /\ pc' \in {"idle", "chunk", "probe", "complete"}
    BY <1>10, FailTypes DEF CompleteRefused
  <2> QED
    BY <1>0, <1>2, <1>3, <2>1 DEF Exchange, CallOffered
<1>11. CASE ChunkConfirmed
  <2>1. /\ wire' = [wire EXCEPT ![Live] = Quiet] /\ UNCHANGED <<asked, payload, offered>>
        /\ pc = "await" /\ Answered(200) /\ pc' \in {"chunk", "complete"}
        /\ task' = wire[Live].task
    BY <1>11 DEF ChunkConfirmed, Loop
  <2>2. CallOffered'
    BY <1>0, <2>1 DEF CallOffered, LiveExchange
  <2> QED
    BY <1>2, <1>3, <2>1, <2>2 DEF Exchange
<1>12. CASE ChunkUnknown \/ CompleteAccepted
  <2>1. /\ wire' = [wire EXCEPT ![Live] = Quiet] /\ UNCHANGED <<asked, task, payload, offered>>
        /\ pc # "idle" /\ pc' \in {"idle", "chunk"}
    BY <1>12 DEF ChunkUnknown, CompleteAccepted, Return
  <2> QED
    BY <1>0, <1>2, <1>3, <2>1 DEF Exchange, CallOffered
<1>13. CASE DeadlineHit
  <2>1. /\ wire' = wire /\ UNCHANGED <<asked, task, payload, offered>>
        /\ pc \in {"chunk", "complete"} /\ pc' = "idle"
    BY <1>13 DEF DeadlineHit, Return
  <2>2. wire'[Live] = Quiet
    BY <1>0, <2>1 DEF LiveExchange
  <2> QED
    BY <1>0, <1>1, <1>3, <2>1, <2>2 DEF Exchange, CallOffered
<1>14. ASSUME NEW c \in Channels, ReceiveChunk(c) PROVE Exchange'
  <2> DEFINE r == wire[c]
             id == ResolvedId(r)
  <2>1. PICK n : Answer(c, Reply(409, id, 0)) \/ Answer(c, Reply(200, id, n))
    BY <1>14 DEF ReceiveChunk
  <2>2. PICK m : /\ Answer(c, m) /\ m.op = "reply" /\ m.task = id /\ ~IsRequest(m)
    BY <2>1 DEF Reply, IsRequest
  <2>3. UNCHANGED <<pc, asked, task, payload, offered, stored>> /\ r.op = "chunk"
    BY <1>14 DEF ReceiveChunk
  <2>4. RequestsOffered' /\ wire'[Live] = IF c = Live THEN m ELSE wire[Live]
    BY <1>0, <2>2, <2>3, AnswerOffered
  <2>5. CASE c = Live
    <3>1. r.task = task /\ r.body = payload /\ pc = "await"
      BY <1>0, <2>3, <2>5 DEF LiveExchange, IsRequest
    <3>2. id = task \/ task = Fallback
      BY <3>1 DEF ResolvedId
    <3> QED
      BY <1>0, <2>2, <2>3, <2>4, <2>5, <3>1, <3>2
      DEF Exchange, CallOffered, LiveExchange, Answered, IsRequest
  <2>6. CASE c # Live
    BY <1>0, <2>3, <2>4, <2>6 DEF Exchange, CallOffered, LiveExchange, Answered
  <2> QED
    BY <2>5, <2>6
<1>15. ASSUME NEW c \in Channels, ReceiveComplete(c) PROVE Exchange'
  <2> DEFINE r == wire[c]
             id == r.task
             got == IF id \in Ids THEN tmp[id] ELSE NoFile
  <2>1. PICK n : /\ Answer(c, Reply(n, id, 0))
                 /\ n = 200 => stored' = stored \union {[id |-> id, bytes |-> got]} /\ Intact(r)
                                /\ got # NoFile
    BY <1>15 DEF ReceiveComplete
  <2>2. /\ Reply(n, id, 0).op = "reply" /\ Reply(n, id, 0).code = n
        /\ ~IsRequest(Reply(n, id, 0))
    BY DEF Reply, IsRequest
  <2>3. UNCHANGED <<pc, asked, task, payload, offered>> /\ r.op = "complete" /\ stored \subseteq stored'
    BY <1>15 DEF ReceiveComplete
  <2>4. RequestsOffered' /\ wire'[Live] = IF c = Live THEN Reply(n, id, 0) ELSE wire[Live]
    BY <1>0, <2>1, <2>2, <2>3, AnswerOffered
  <2>5. CASE c = Live
    <3>1. r.task = task /\ r.body = payload /\ pc = "ack"
      BY <1>0, <2>3, <2>5 DEF LiveExchange, IsRequest
    <3>2. n = 200 => [id |-> task, bytes |-> Whole(payload)] \in stored'
      BY <2>1, <3>1 DEF Intact
    <3> QED
      BY <1>0, <2>2, <2>3, <2>4, <2>5, <3>1, <3>2
      DEF Exchange, CallOffered, LiveExchange, Answered, IsRequest, Whole
  <2>6. CASE c # Live
    BY <1>0, <2>3, <2>4, <2>6 DEF Exchange, CallOffered, LiveExchange, Answered, Whole
  <2> QED
    BY <2>5, <2>6
<1>16. ASSUME NEW id \in Ids, Age(id) PROVE Exchange'
  <2>1. UNCHANGED <<pc, asked, task, payload, offered, stored, wire>>
    BY <1>16 DEF Age
  <2> QED
    BY <2>1 DEF Exchange, CallOffered, RequestsOffered, LiveExchange, Answered, Whole, Transfer!MayStore
<1>17. CASE Crash
  <2>1. UNCHANGED <<pc, asked, task, payload, offered, stored>> /\ wire' = [c \in Channels |-> Quiet]
    BY <1>17 DEF Crash
  <2>2. \A c \in Channels : wire'[c] = Quiet
    BY <2>1
  <2> QED
    BY <1>0, <2>1, <2>2 DEF Exchange, CallOffered, RequestsOffered, LiveExchange, Answered, IsRequest
<1>18. CASE BoardReset
  <2>1. Hangup /\ pc' = "idle" /\ UNCHANGED offered
    BY <1>18 DEF BoardReset, Return
  <2> QED
    BY <1>0, <1>3, <2>1, HangupOffered DEF Exchange, CallOffered
<1>19. CASE UNCHANGED vars
  <2>1. UNCHANGED <<pc, asked, task, payload, offered, stored, wire>>
    BY <1>19 DEF vars
  <2> QED
    BY <2>1 DEF Exchange, CallOffered, RequestsOffered, LiveExchange, Answered, Whole, Transfer!MayStore
<1>20. ASSUME NEW c \in Channels, ReceiveCutChunk(c) PROVE Exchange'
  <2>1. /\ UNCHANGED <<pc, asked, task, payload, offered, stored>>
        /\ wire' = [wire EXCEPT ![c] = Quiet]
    BY <1>20 DEF ReceiveCutChunk
  <2>2. \A d \in Channels : wire'[d] = wire[d] \/ wire'[d] = Quiet
    BY <2>1 DEF TypeOK
  <2> QED
    BY <1>0, <2>1, <2>2
    DEF Exchange, CallOffered, RequestsOffered, LiveExchange, Answered, IsRequest, Whole,
        Transfer!MayStore
<1> QED
  BY <1>4, <1>5, <1>6, <1>7, <1>8, <1>9, <1>10, <1>11, <1>12, <1>13, <1>14, <1>15,
     <1>16, <1>17, <1>18, <1>19, <1>20 DEF Next, BoardStep

LEMMA ExchangeInit == Init => Exchange
<1>1. Live \in Channels /\ ~IsRequest(Quiet)
  BY DEF Channels, IsRequest, Quiet
<1> QED
  BY <1>1 DEF Init, Exchange, CallOffered, RequestsOffered, LiveExchange, Answered

(* Every step of the upload is a step of the abstract transfer or leaves   *)
(* what it speaks of alone.                                                *)
LEMMA TransferStep ==
  TypeOK /\ Exchange /\ [Next]_vars
    => [Transfer!TransferNext]_(Transfer!transferVars)
<1> SUFFICES ASSUME TypeOK, Exchange, [Next]_vars
             PROVE  [Transfer!TransferNext]_(Transfer!transferVars)
  OBVIOUS
<1> DEFINE outcome == IF pc = "idle" THEN result ELSE "busy"
<1> USE DEF callVars, serverVars
<1>0. result # "busy"
  BY DEF TypeOK
<1>1. ASSUME UNCHANGED <<offered, asked, payload, stored>>, outcome' = outcome
      PROVE  UNCHANGED Transfer!transferVars
  BY <1>1 DEF Transfer!transferVars
<1>2. ASSUME UNCHANGED <<offered, asked, payload, stored>>, pc # "idle",
             pc' # "idle" \/ result' \in {"error", "none"}
      PROVE  [Transfer!TransferNext]_(Transfer!transferVars)
  <2>1. CASE pc' # "idle"
    BY <1>1, <1>2, <2>1
  <2>2. CASE pc' = "idle"
    <3>1. Transfer!GiveUp
      BY <1>2, <2>2 DEF Transfer!GiveUp
    <3> QED
      BY <3>1 DEF Transfer!TransferNext
  <2> QED
    BY <2>1, <2>2
<1>3. ASSUME NEW t \in Tasks, NEW p \in Payloads, StartUpload(t, p)
      PROVE  [Transfer!TransferNext]_(Transfer!transferVars)
  <2>1. Transfer!Begin(t, p)
    BY <1>0, <1>3 DEF StartUpload, Transfer!Begin
  <2> QED
    BY <2>1 DEF Transfer!TransferNext
<1>4. ASSUME NEW ask \in BOOLEAN, NEW open \in BOOLEAN,
             NEW again \in {"chunk", "complete"}, Fail(ask, open, again), pc # "idle"
      PROVE  [Transfer!TransferNext]_(Transfer!transferVars)
  <2>1. UNCHANGED <<offered, asked, payload, stored>>
    BY <1>4 DEF Fail
  <2>2. pc' # "idle" \/ result' = "error"
    BY <1>4 DEF Fail, Return
  <2> QED
    BY <1>2, <1>4, <2>1, <2>2
<1>5. CASE ConnectFails \/ NoAnswer \/ ChunkNotAdvanced \/ CompleteRefused
  BY <1>4, <1>5 DEF ConnectFails, NoAnswer, ChunkNotAdvanced, CompleteRefused, TypeOK
<1>6. CASE \/ ResumeAnswered \/ ResumeUnanswered \/ ProbeAnswered \/ ProbeUnanswered
           \/ SendChunk \/ SendComplete \/ ChunkConfirmed \/ ChunkUnknown
  <2>1. UNCHANGED <<offered, asked, payload, stored>> /\ pc # "idle" /\ pc' # "idle"
    BY <1>6 DEF ResumeAnswered, ResumeUnanswered, ProbeAnswered, ProbeUnanswered,
       SendChunk, SendComplete, Post, ChunkConfirmed, ChunkUnknown, Loop
  <2> QED
    BY <1>2, <2>1
<1>7. CASE DeadlineHit \/ BoardReset
  <2>1. /\ UNCHANGED <<offered, asked, payload, stored>> /\ pc # "idle"
        /\ result' \in {"error", "none"}
    BY <1>7 DEF DeadlineHit, BoardReset, Return
  <2> QED
    BY <1>2, <2>1
<1>8. CASE CompleteAccepted
  <2>1. /\ UNCHANGED <<offered, asked, payload, stored>> /\ pc = "ack" /\ Answered(200)
        /\ pc' = "idle" /\ result' = "ok"
    BY <1>8 DEF CompleteAccepted, Return
  <2>2. [id |-> task, bytes |-> Whole(payload)] \in stored
    BY <2>1 DEF Exchange, LiveExchange
  <2>3. task \in Ids /\ Transfer!Fits(task, asked)
    BY <2>1, <2>2 DEF TypeOK, Exchange, CallOffered, Transfer!Fits
  <2>4. Transfer!Succeed
    BY <2>1, <2>2, <2>3 DEF Transfer!Succeed
  <2> QED
    BY <2>4 DEF Transfer!TransferNext
<1>9. ASSUME NEW c \in Channels, ReceiveChunk(c) \/ ReceiveCutChunk(c)
      PROVE  [Transfer!TransferNext]_(Transfer!transferVars)
  BY <1>1, <1>9 DEF ReceiveChunk, ReceiveCutChunk
<1>10. ASSUME NEW c \in Channels, ReceiveComplete(c)
       PROVE  [Transfer!TransferNext]_(Transfer!transferVars)
  <2> DEFINE r == wire[c]
             id == r.task
             got == IF id \in Ids THEN tmp[id] ELSE NoFile
  <2>1. UNCHANGED <<offered, asked, payload, pc, result>> /\ r.op = "complete"
    BY <1>10 DEF ReceiveComplete
  <2>2. CASE stored' = stored
    BY <1>1, <2>1, <2>2
  <2>3. CASE /\ got # NoFile /\ Intact(r)
             /\ stored' = stored \union {[id |-> id, bytes |-> got]}
    <3>1. r.body \in Payloads /\ Transfer!MayStore(id, r.body)
      BY <2>1, RequestTypes DEF Exchange, RequestsOffered, IsRequest
    <3>2. id \in Ids /\ got = Whole(r.body)
      BY <2>3 DEF Intact
    <3>3. Transfer!Store(id, r.body)
      BY <2>1, <2>3, <3>1, <3>2 DEF Transfer!Store
    <3> QED
      BY <3>1, <3>2, <3>3 DEF Transfer!TransferNext
  <2> QED
    BY <1>10, <2>2, <2>3 DEF ReceiveComplete
<1>11. CASE (\E id \in Ids : Age(id)) \/ Crash \/ UNCHANGED vars
  <2>1. UNCHANGED <<offered, asked, payload, stored, pc, result>>
    BY <1>11 DEF Age, Crash, vars
  <2> QED
    BY <1>1, <2>1
<1> QED
  BY <1>3, <1>5, <1>6, <1>7, <1>8, <1>9, <1>10, <1>11 DEF Next, BoardStep

(* The upload implements the abstract transfer for any images, ids, retry  *)
(* limit, faults and late requests: nothing but whole, offered images is   *)
(* stored, and WIFI_OK is returned only for a stored image.                *)
THEOREM TransferImplemented == Spec => TransferRefined
<1>1. Init => Transfer!TransferInit
  BY DEF Init, Transfer!TransferInit
<1>2. Spec => []Exchange
  BY TypeCorrect, ExchangeInit, ExchangeStep, PTL DEF Spec
<1> QED
  BY <1>1, <1>2, TypeCorrect, TransferStep, PTL
  DEF Spec, TransferRefined, Transfer!TransferSpec
------------------------------------------------------------------------------
(* The server holds the first o chunks of the image of the running call    *)
(* under t, and nothing after them is counted.                             *)
Prefix(t, o) ==
  o > 0 => /\ t \in Ids /\ tmp[t] # NoFile /\ off[t] = o
           /\ Len(tmp[t]) = Total /\ \A i \in 1..o : tmp[t][i] = payload

(* A call nothing has gone wrong for: no request of an earlier call is     *)
(* under way, and board and server agree on what has been sent.            *)
CleanCall ==
  pc # "idle" /\ clean =>
    /\ pc # "probe" /\ \A s \in Slots : wire[s] = Quiet
    /\ pc \in {"resume", "chunk", "complete"} => wire[Live] = Quiet
    /\ pc = "resume" => task \in Ids /\ Resumable(task, payload)
    /\ pc = "chunk" => offset < Total /\ Prefix(task, offset)
    /\ pc = "await" =>
         /\ offset < Total
         /\ \/ wire[Live] = Request("chunk", offset) /\ Prefix(task, offset)
            \/ \E t \in Ids : wire[Live] = Reply(200, t, offset + 1) /\ Prefix(t, offset + 1)
    /\ pc = "complete" => offset = Total /\ Prefix(task, Total)
    /\ pc = "ack" => \/ wire[Live] = Request("complete", offset) /\ Prefix(task, Total)
                     \/ Answered(200)

(* The message of such a call while it waits for an answer.                *)
LEMMA CleanAwait ==
  ASSUME CleanCall, clean, pc = "await"
  PROVE  /\ offset < Total
         /\ \/ /\ wire[Live] = Request("chunk", offset) /\ Prefix(task, offset)
               /\ wire[Live].op = "chunk"
            \/ \E t \in Ids : /\ wire[Live] = Reply(200, t, offset + 1)
                              /\ Prefix(t, offset + 1)
                              /\ wire[Live].op = "reply" /\ wire[Live].code = 200
                              /\ wire[Live].recv = offset + 1
<1>1. \A o : Request("chunk", o).op = "chunk"
  BY DEF Request
<1>2. \A t, n : /\ Reply(200, t, n).op = "reply" /\ Reply(200, t, n).code = 200
               /\ Reply(200, t, n).recv = n
  BY DEF Reply
<1>3. /\ offset < Total
      /\ \/ wire[Live] = Request("chunk", offset) /\ Prefix(task, offset)
         \/ \E t \in Ids : wire[Live] = Reply(200, t, offset + 1) /\ Prefix(t, offset + 1)
  BY DEF CleanCall
<1> QED BY <1>1, <1>2, <1>3

LEMMA CleanAck ==
  ASSUME CleanCall, clean, pc = "ack"
  PROVE  \/ /\ wire[Live] = Request("complete", offset) /\ Prefix(task, Total)
            /\ wire[Live].op = "complete"
         \/ wire[Live].op = "reply" /\ wire[Live].code = 200
<1>1. \A o : Request("complete", o).op = "complete"
  BY DEF Request
<1>2. \/ wire[Live] = Request("complete", offset) /\ Prefix(task, Total)
      \/ Answered(200)
  BY DEF CleanCall
<1> QED BY <1>1, <1>2 DEF Answered

(* So it is neither refused nor sent back.                                 *)
LEMMA CleanAnswers ==
  ASSUME TypeOK, CleanCall, clean
  PROVE  /\ ~ChunkNotAdvanced /\ ~ChunkUnknown
         /\ ~ProbeAnswered /\ ~CompleteRefused
<1>1. pc = "await" /\ wire[Live].op = "reply"
        => wire[Live].code = 200 /\ wire[Live].recv = offset + 1
  BY CleanAwait
<1>2. ~ChunkNotAdvanced /\ ~ChunkUnknown
  <2>1. offset \in Nat /\ ~(offset + 1 <= offset)
    BY DEF TypeOK
  <2>2. ChunkNotAdvanced => /\ pc = "await" /\ wire[Live].op = "reply"
                            /\ wire[Live].recv <= offset
    BY Zenon DEF ChunkNotAdvanced, Answered
  <2>3. ChunkUnknown => /\ pc = "await" /\ wire[Live].op = "reply"
                        /\ wire[Live].code = 409
    BY Zenon DEF ChunkUnknown, Answered
  <2> QED BY <1>1, <2>1, <2>2, <2>3
<1>3. ~ProbeAnswered
  BY DEF ProbeAnswered, CleanCall
<1>4. ~CompleteRefused
  <2>1. pc = "ack" /\ wire[Live].op = "reply" => wire[Live].code = 200
    BY CleanAck
  <2>2. CompleteRefused => pc = "ack" /\ \E c \in {404, 409, 422} : Answered(c)
    BY Zenon DEF CompleteRefused
  <2> QED BY <2>1, <2>2 DEF Answered
<1> QED BY <1>2, <1>3, <1>4

(* A chunk that goes on from what the server holds is confirmed, and the   *)
(* server then holds one chunk more.                                       *)
LEMMA ChunkTaken ==
  ASSUME TypeOK, wire[Live] = Request("chunk", offset), Prefix(task, offset),
         offset < Total, ReceiveChunk(Live)
  PROVE  \E t \in Ids : /\ wire'[Live] = Reply(200, t, offset + 1)
                        /\ Prefix(t, offset + 1)'
<1> USE DEF Total
<1> DEFINE r == wire[Live]
           id == ResolvedId(r)
<1>1. /\ r.task = task /\ r.offset = offset /\ r.body = payload /\ id \in Ids
      /\ payload' = payload /\ offset \in Nat /\ payload \in Payloads
      /\ Total' = Total /\ Total \in Nat
  BY DEF Request, ReceiveChunk, TypeOK, callVars
<1>2. offset > 0 => id = task /\ tmp[task] # NoFile /\ off[task] = offset
  BY <1>1 DEF ResolvedId, Prefix
<1>3. Expected(r) = offset
  BY <1>1, <1>2 DEF Expected
<1>4. /\ tmp' = [Swept(r, tmp, NoFile) EXCEPT ![id] = WriteAt(Opened(r), offset, payload)]
      /\ off' = [Swept(r, off, 0) EXCEPT ![id] = offset + 1]
      /\ Answer(Live, Reply(200, id, offset + 1))
  BY <1>1, <1>2, <1>3 DEF ReceiveChunk
<1>5. wire'[Live] = Reply(200, id, offset + 1)
  BY <1>4 DEF Answer, TypeOK, Channels
<1>6. /\ Opened(r) \in Seq(Content) /\ Len(Opened(r)) = Total
      /\ \A i \in 1..offset : Opened(r)[i] = payload
  <2>1. CASE offset = 0
    BY <1>1, <2>1, FreshFiles DEF Opened
  <2>2. CASE offset > 0
    <3>1. Opened(r) = tmp[task]
      BY <1>1, <2>2 DEF Opened
    <3>2. tmp[task] \in Seq(Content)
      BY <1>1, <1>2, <2>2 DEF TypeOK, File, Content
    <3> QED BY <2>2, <3>1, <3>2 DEF Prefix
  <2> QED BY <1>1, <2>1, <2>2
<1> DEFINE f == WriteAt(Opened(r), offset, payload)
<1>7. f \in Seq(Content) /\ Len(f) = Total /\ f # NoFile
  <2>1. f = [Opened(r) EXCEPT ![offset + 1] = payload]
    BY <1>6 DEF WriteAt
  <2>2. f \in Seq(Content) /\ Len(f) = Total
    BY <1>1, <1>6, <2>1, WriteAtFile
  <2> QED BY <2>2 DEF Content
<1>8. \A i \in 1..(offset + 1) : f[i] = payload
  <2>1. f[offset + 1] = payload /\ \A i \in 1..offset : f[i] = Opened(r)[i]
    <3>1. f = [Opened(r) EXCEPT ![offset + 1] = payload]
      BY <1>6 DEF WriteAt
    <3>2. offset + 1 \in 1..Len(Opened(r)) /\ \A i \in 1..offset : i \in 1..Len(Opened(r)) /\ i # offset + 1
      BY <1>1, <1>6
    <3> HIDE DEF f
    <3> QED BY <1>6, <3>1, <3>2
  <2>2. ASSUME NEW i \in 1..(offset + 1) PROVE f[i] = payload
    <3>1. i = offset + 1 \/ i \in 1..offset
      BY <1>1
    <3> QED BY <1>6, <2>1, <3>1
  <2> QED BY <2>2
<1>9. tmp'[id] = f /\ off'[id] = offset + 1
  BY <1>1, <1>4, SweptTypes
<1>10. PICK t \in Ids : t = id
  BY <1>1
<1>11. tmp'[t] = f /\ off'[t] = offset + 1 /\ offset' = offset
  BY <1>9, <1>10 DEF ReceiveChunk
<1>12. Prefix(t, offset + 1)'
  BY <1>1, <1>7, <1>8, <1>11 DEF Prefix
<1>13. wire'[Live] = Reply(200, t, offset + 1)
  BY <1>5, <1>10
<1> QED BY <1>12, <1>13

(* A whole image is not refused; only its processing may fail.             *)
LEMMA WholeAccepted ==
  ASSUME TypeOK, wire[Live] = Request("complete", offset), Prefix(task, Total),
         ReceiveComplete(Live), clean'
  PROVE  Answered(200)'
<1> USE DEF Total
<1> DEFINE r == wire[Live]
<1>1. /\ r.task = task /\ r.body = payload /\ payload \in Payloads
      /\ Total \in Nat \ {0} /\ PayloadLen[r.body] = Total
  BY DEF Request, TypeOK
<1>2. /\ task \in Ids /\ tmp[task] # NoFile /\ off[task] = Total
      /\ Len(tmp[task]) = Total /\ \A i \in 1..Total : tmp[task][i] = payload
  BY <1>1 DEF Prefix
<1>3. tmp[task] \in Seq(Content)
  BY <1>2 DEF TypeOK, File, Content
<1>4. tmp[task] = Whole(payload)
  <2> DEFINE g == tmp[task]
             n == PayloadLen[payload]
  <2>1. g \in Seq(Content) /\ Len(g) = n /\ \A i \in 1..n : g[i] = payload
    BY <1>2, <1>3
  <2> HIDE DEF g, n
  <2>2. g = [i \in 1..n |-> payload]
    BY <2>1
  <2> QED BY <2>2 DEF g, n, Whole
<1>5. Intact(r)
  BY <1>1, <1>4 DEF Intact
<1>6. Answer(Live, Reply(200, task, 0))
  BY <1>1, <1>2, <1>5 DEF ReceiveComplete
<1>7. wire'[Live] = Reply(200, task, 0)
  BY <1>6 DEF Answer, TypeOK, Channels
<1> QED BY <1>7 DEF Answered, Reply

(* Nothing but a new call makes a call clean.                              *)
LEMMA CleanStep == TypeOK /\ CleanCall /\ [Next]_vars => CleanCall'
<1> SUFFICES ASSUME TypeOK, CleanCall, [Next]_vars, pc' # "idle", clean' PROVE CleanCall'
  BY DEF CleanCall
<1> USE DEF callVars, serverVars, Total
<1>0. Live \in Channels /\ Slots \subseteq Channels /\ offset \in Nat /\ Total \in Nat \ {0}
  BY DEF Channels, TypeOK
<1>1. ASSUME NEW t \in Tasks, NEW p \in Payloads, StartUpload(t, p) PROVE CleanCall'
  <2>1. /\ pc' = IF t = Fallback THEN "chunk" ELSE "resume"
        /\ \A c \in Channels : wire'[c] = Quiet
        /\ task' = t /\ offset' = 0 /\ payload' = p /\ Resumable(t, p)
        /\ tmp' = tmp /\ off' = off
    BY <1>1 DEF StartUpload
  <2>2. t # Fallback => t \in Ids
    BY DEF Tasks
  <2>3. Total' \in Nat \ {0}
    BY <2>1
  <2>4. Resumable(task, payload)'
    BY <2>1 DEF Resumable, Reported
  <2>5. offset' < Total' /\ Prefix(task, offset)'
    BY <2>1, <2>3 DEF Prefix
  <2> QED BY <1>0, <2>1, <2>2, <2>4, <2>5 DEF CleanCall
<1>2. ASSUME NEW t \in Ids \union {Fallback}, NEW o \in Nat, Prefix(t, o),
             UNCHANGED <<tmp, off, payload>>
      PROVE  Prefix(t, o)'
  BY <1>2 DEF Prefix
<1>3. CASE ResumeAnswered
  <2>1. /\ task \in Ids /\ Resumable(task, payload)
        /\ wire' = wire /\ wire[Live] = Quiet /\ \A s \in Slots : wire[s] = Quiet
        /\ pc' = "chunk" /\ UNCHANGED <<task, tmp, off, payload>>
    BY <1>3 DEF ResumeAnswered, CleanCall
  <2>2. CASE Reported(task) \in 1..(Total - 1)
    <3>1. offset' = Reported(task) /\ Reported(task) = off[task] /\ tmp[task] # NoFile
      BY <1>3, <2>1, <2>2 DEF ResumeAnswered, Reported
    <3>2. Len(tmp[task]) = Total /\ \A i \in 1..off[task] : tmp[task][i] = payload
      BY <2>1, <2>2 DEF Resumable
    <3>3. offset' < Total' /\ Prefix(task, offset)'
      BY <1>0, <2>1, <2>2, <3>1, <3>2 DEF Prefix
    <3> QED BY <2>1, <3>3 DEF CleanCall
  <2>3. CASE Reported(task) \notin 1..(Total - 1)
    <3>1. offset' = 0
      BY <1>3, <2>3 DEF ResumeAnswered
    <3>2. offset' < Total' /\ Prefix(task, offset)'
      BY <1>0, <2>1, <3>1 DEF Prefix
    <3> QED BY <2>1, <3>2 DEF CleanCall
  <2> QED BY <2>2, <2>3
<1>4. CASE SendChunk
  <2>1. /\ offset < Total /\ Prefix(task, offset) /\ \A s \in Slots : wire[s] = Quiet
        /\ pc' = "await" /\ UNCHANGED <<task, offset, tmp, off, payload>>
        /\ wire' = [wire EXCEPT ![Live] = Request("chunk", offset)]
    BY <1>4 DEF SendChunk, Post, CleanCall
  <2>2. wire'[Live] = Request("chunk", offset)' /\ \A s \in Slots : wire'[s] = Quiet
    BY <1>0, <2>1 DEF TypeOK, Request
  <2>3. Prefix(task, offset)' /\ offset' < Total'
    BY <2>1 DEF Prefix
  <2> QED BY <2>1, <2>2, <2>3 DEF CleanCall
<1>5. CASE SendComplete
  <2>1. /\ Prefix(task, Total) /\ \A s \in Slots : wire[s] = Quiet
        /\ pc' = "ack" /\ UNCHANGED <<task, offset, tmp, off, payload>>
        /\ wire' = [wire EXCEPT ![Live] = Request("complete", offset)]
    BY <1>5 DEF SendComplete, Post, CleanCall
  <2>2. wire'[Live] = Request("complete", offset)' /\ \A s \in Slots : wire'[s] = Quiet
    BY <1>0, <2>1 DEF TypeOK, Request
  <2>3. Prefix(task, Total)'
    BY <2>1 DEF Prefix
  <2> QED BY <2>1, <2>2, <2>3 DEF CleanCall
<1>6. CASE ChunkConfirmed
  <2>1. /\ pc = "await" /\ pc # "idle" /\ clean /\ Answered(200)
        /\ task' = wire[Live].task /\ offset' = wire[Live].recv
        /\ pc' = Loop(offset') /\ wire' = [wire EXCEPT ![Live] = Quiet]
        /\ UNCHANGED <<tmp, off, payload>>
    BY <1>6 DEF ChunkConfirmed
  <2>2. PICK t \in Ids : wire[Live] = Reply(200, t, offset + 1) /\ Prefix(t, offset + 1)
    BY <2>1 DEF CleanCall, Answered, Request
  <2>3. /\ offset < Total /\ \A s \in Slots : wire[s] = Quiet
    BY <2>1 DEF CleanCall
  <2>4. task' = t /\ offset' = offset + 1 /\ Total' = Total
    BY <2>1, <2>2 DEF Reply
  <2>5. \A c \in Slots \union {Live} : wire'[c] = Quiet
    BY <1>0, <2>1, <2>3 DEF TypeOK
  <2>6. Prefix(task, offset)'
    BY <2>1, <2>2, <2>4 DEF Prefix
  <2>7. CASE offset + 1 < Total
    <3>1. pc' = "chunk"
      BY <2>1, <2>4, <2>7 DEF Loop
    <3> QED BY <2>4, <2>5, <2>6, <2>7, <3>1 DEF CleanCall
  <2>8. CASE offset + 1 = Total
    <3>1. pc' = "complete"
      BY <2>1, <2>4, <2>8 DEF Loop
    <3> QED BY <2>4, <2>5, <2>6, <2>8, <3>1 DEF CleanCall
  <2> QED BY <1>0, <2>3, <2>7, <2>8
<1>7. ~ChunkNotAdvanced /\ ~ChunkUnknown /\ ~ProbeAnswered /\ ~CompleteRefused
  <2>1. CASE clean
    BY <2>1, CleanAnswers
  <2>2. CASE ~clean
    BY <2>2 DEF ChunkNotAdvanced, ChunkUnknown, ProbeAnswered, CompleteRefused
  <2> QED BY <2>1, <2>2
<1>9. ~CompleteAccepted /\ ~BoardReset
  BY DEF CompleteAccepted, BoardReset, Return
<1>10. /\ ~ResumeUnanswered /\ ~ConnectFails /\ ~NoAnswer /\ ~ProbeUnanswered
       /\ ~DeadlineHit /\ ~Crash /\ \A c \in Channels : ~ReceiveCutChunk(c)
  BY DEF ResumeUnanswered, ConnectFails, NoAnswer, ProbeUnanswered, DeadlineHit, Crash,
         ReceiveCutChunk
<1>11. ASSUME NEW c \in Channels, ReceiveChunk(c) PROVE CleanCall'
  <2>1. pc # "idle" /\ clean /\ wire[c].op = "chunk"
        /\ UNCHANGED <<pc, task, offset, clean, payload>>
    BY <1>11 DEF ReceiveChunk
  <2>2. c = Live /\ \A s \in Slots : wire[s] = Quiet
    BY <2>1 DEF CleanCall, Quiet, Channels
  <2>3. /\ pc = "await" /\ offset < Total
        /\ wire[Live] = Request("chunk", offset) /\ Prefix(task, offset)
    <3>1. pc \in {"await", "ack"}
      BY <2>1, <2>2 DEF CleanCall, Quiet, TypeOK
    <3> QED BY <2>1, <2>2, <3>1, CleanAwait, CleanAck
  <2>4. PICK t \in Ids : /\ wire'[Live] = Reply(200, t, offset + 1)
                         /\ Prefix(t, offset + 1)'
    BY <1>11, <2>2, <2>3, ChunkTaken
  <2>5. \A s \in Slots : wire'[s] = Quiet
    BY <1>11, <2>2 DEF ReceiveChunk, Answer, TypeOK, Channels
  <2> QED BY <2>1, <2>3, <2>4, <2>5 DEF CleanCall
<1>12. ASSUME NEW c \in Channels, ReceiveComplete(c) PROVE CleanCall'
  <2>1. pc # "idle" /\ clean /\ wire[c].op = "complete"
        /\ UNCHANGED <<pc, task, offset, payload>>
    BY <1>12 DEF ReceiveComplete
  <2>2. c = Live /\ \A s \in Slots : wire[s] = Quiet
    BY <2>1 DEF CleanCall, Quiet, Channels
  <2>3. /\ pc = "ack"
        /\ wire[Live] = Request("complete", offset) /\ Prefix(task, Total)
    <3>1. pc \in {"await", "ack"}
      BY <2>1, <2>2 DEF CleanCall, Quiet, TypeOK
    <3> QED BY <2>1, <2>2, <3>1, CleanAwait, CleanAck
  <2>4. Answered(200)'
    BY <1>12, <2>2, <2>3, WholeAccepted
  <2>5. \A s \in Slots : wire'[s] = Quiet
    BY <1>12, <2>2 DEF ReceiveComplete, Answer, TypeOK, Channels
  <2> QED BY <2>1, <2>3, <2>4, <2>5 DEF CleanCall
<1>13. ASSUME NEW id \in Ids PROVE ~Age(id)
  BY DEF Age
<1>14. CASE UNCHANGED vars
  BY <1>14 DEF vars, CleanCall, Prefix, Resumable, Reported, Request, Answered
<1> QED
  BY <1>1, <1>3, <1>4, <1>5, <1>6, <1>7, <1>9, <1>10, <1>11, <1>12, <1>13, <1>14
     DEF Next, BoardStep

(* An upload on a link that answers, against a server that holds nothing   *)
(* of another image under its id, does not return an error, whatever is    *)
(* left of earlier uploads (CleanCallSucceeds).                            *)
THEOREM CleanSucceeds == Spec => []CleanCallSucceeds
<1>1. Init => CleanCall /\ CleanCallSucceeds
  BY DEF Init, CleanCall, CleanCallSucceeds
<1>2. TypeOK /\ CleanCall /\ CleanCallSucceeds /\ [Next]_vars => CleanCallSucceeds'
  <2> SUFFICES ASSUME TypeOK, CleanCall, CleanCallSucceeds, [Next]_vars, clean'
               PROVE  result' # "error"
    BY DEF CleanCallSucceeds
  <2> USE DEF callVars, serverVars
  <2>1. ASSUME clean, UNCHANGED result PROVE result' # "error"
    BY <2>1 DEF CleanCallSucceeds
  <2>2. CASE \/ \E t \in Tasks, p \in Payloads : StartUpload(t, p)
             \/ CompleteAccepted \/ BoardReset
    BY <2>2 DEF StartUpload, CompleteAccepted, BoardReset, Return
  <2>3. /\ ~ResumeUnanswered /\ ~ConnectFails /\ ~NoAnswer /\ ~ProbeUnanswered
        /\ ~DeadlineHit /\ ~Crash /\ \A c \in Channels : ~ReceiveCutChunk(c)
    BY DEF ResumeUnanswered, ConnectFails, NoAnswer, ProbeUnanswered, DeadlineHit, Crash,
           ReceiveCutChunk
  <2>4. ~ChunkNotAdvanced /\ ~CompleteRefused
    <3>1. CASE clean
      BY <3>1, CleanAnswers
    <3>2. CASE ~clean
      BY <3>2 DEF ChunkNotAdvanced, CompleteRefused
    <3> QED BY <3>1, <3>2
  <2>6. CASE \/ ResumeAnswered \/ SendChunk \/ SendComplete \/ ChunkConfirmed
             \/ ChunkUnknown \/ ProbeAnswered
             \/ \E c \in Channels : ReceiveChunk(c) \/ ReceiveComplete(c)
             \/ \E id \in Ids : Age(id)
             \/ UNCHANGED vars
    <3>1. clean /\ result' = result
      BY <2>6 DEF ResumeAnswered, SendChunk, SendComplete, Post, ChunkConfirmed,
                  ChunkUnknown, ProbeAnswered, ReceiveChunk, ReceiveComplete, Age, vars
    <3> QED BY <2>1, <3>1
  <2> QED BY <2>2, <2>3, <2>4, <2>6 DEF Next, BoardStep
<1> QED BY <1>1, <1>2, CleanStep, TypeCorrect, PTL DEF Spec

(* Every image in the server's store is a whole image some call was made   *)
(* with, under that call's id or one the server gave, and upload returns   *)
(* WIFI_OK only for an image in the store: for any images and ids, however *)
(* calls, crashes, resets and late requests follow one another.            *)
THEOREM StoreIsSound ==
  Spec => [](Transfer!WholeImagesOnly /\ Transfer!SuccessIsStored)
<1> DEFINE Sound == Transfer!WholeImagesOnly /\ Transfer!SuccessIsStored
<1>1. Transfer!TransferInit => Sound
  BY DEF Transfer!TransferInit, Transfer!WholeImagesOnly, Transfer!SuccessIsStored
<1>2. Sound /\ [Transfer!TransferNext]_(Transfer!transferVars) => Sound'
  <2> SUFFICES ASSUME Sound, [Transfer!TransferNext]_(Transfer!transferVars)
               PROVE  Sound'
    OBVIOUS
  <2> USE DEF Transfer!WholeImagesOnly, Transfer!SuccessIsStored
  <2>1. CASE UNCHANGED Transfer!transferVars
    BY <2>1 DEF Transfer!transferVars, Transfer!MayStore, Transfer!Fits
  <2>2. ASSUME NEW t \in Tasks, NEW p \in Payloads, Transfer!Begin(t, p)
        PROVE  Sound'
    BY <2>2 DEF Transfer!Begin, Transfer!MayStore
  <2>3. ASSUME NEW id \in Ids, NEW p \in Payloads, Transfer!Store(id, p)
        PROVE  Sound'
    <3>1. Transfer!WholeImagesOnly'
      <4> SUFFICES ASSUME NEW image \in stored'
                   PROVE  \E q \in Payloads : /\ image.bytes = Whole(q)
                                              /\ Transfer!MayStore(image.id, q)'
        OBVIOUS
      <4>1. offered' = offered /\ stored' = stored \union {[id |-> id, bytes |-> Whole(p)]}
        BY <2>3 DEF Transfer!Store
      <4>2. CASE image \in stored
        BY <4>1, <4>2 DEF Transfer!MayStore
      <4>3. CASE image = [id |-> id, bytes |-> Whole(p)]
        BY <2>3, <4>1, <4>3 DEF Transfer!Store, Transfer!MayStore
      <4> QED BY <4>1, <4>2, <4>3
    <3>2. Transfer!SuccessIsStored'
      <4>1. /\ stored \subseteq stored' /\ asked' = asked /\ payload' = payload
            /\ (IF pc = "idle" THEN result ELSE "busy")'
                 = IF pc = "idle" THEN result ELSE "busy"
        BY <2>3 DEF Transfer!Store
      <4> QED BY <4>1 DEF Transfer!Fits
    <3> QED BY <3>1, <3>2
  <2>4. CASE Transfer!Succeed
    BY <2>4 DEF Transfer!Succeed, Transfer!MayStore, Transfer!Fits
  <2>5. CASE Transfer!GiveUp
    BY <2>5 DEF Transfer!GiveUp, Transfer!MayStore, Transfer!Fits
  <2> QED BY <2>1, <2>2, <2>3, <2>4, <2>5 DEF Transfer!TransferNext
<1> QED
  BY <1>1, <1>2, TransferImplemented, PTL
  DEF TransferRefined, Transfer!TransferSpec
==============================================================================
