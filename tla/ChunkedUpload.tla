---------------------------- MODULE ChunkedUpload ----------------------------
(***************************************************************************)
(* The resumable image upload: WiFi_HttpPostImage on the board against the *)
(* /api/upload/chunk, /resume and /complete handlers of the server.        *)
(*                                                                         *)
(* Lengths and offsets count chunks.  A file is the sequence of the images *)
(* its chunks came from: chunk i of image p is p at place i, so two images *)
(* differ in every chunk, and the CRC of /complete is equality of contents *)
(* (no two contents collide).  An HTTP exchange is a request on a channel  *)
(* that the server turns into a reply; a request the board gave up on may  *)
(* still reach the server from its closed socket, in one of the Slots.     *)
(***************************************************************************)
EXTENDS Integers, Sequences

CONSTANTS Payloads,      \* images
          PayloadLen,    \* number of chunks of each image
          RealTasks,     \* ids of schedule tasks
          MaxId,         \* bound: the ids the server can hand out
          MaxRetries,    \* UPLOAD_CHUNK_MAX_RETRIES
          Slots,         \* bound: requests of closed sockets still under way
          MaxCalls,      \* bound: uploads started
          MaxFaults,     \* bound: server crashes and board resets
          NoFile, Hole

Fallback == 0
Ids == 1..MaxId
Tasks == RealTasks \union {Fallback}
Live == "live"
Channels == Slots \union {Live}

ASSUME UploadConstants ==
  /\ PayloadLen \in [Payloads -> Nat \ {0}]
  /\ MaxId \in Nat
  /\ RealTasks \subseteq Ids
  /\ MaxRetries \in Nat
  /\ MaxCalls \in Nat
  /\ MaxFaults \in Nat
  /\ Live \notin Slots
  /\ Hole \notin Payloads
  /\ NoFile \notin Seq(Payloads \union {Hole})

VARIABLES pc,            \* where the upload call is
          asked,         \* the task id the caller passed
          task,          \* resolved_task_id
          payload,       \* the image in s_image_buffer
          offset,
          failures,      \* consecutive_failures, then complete_failures
          probe,         \* probe_before_resend
          sock,          \* the keep-alive socket is open
          result,        \* what the last call returned
          wire,          \* per channel: a request, a reply or nothing
          tmp,           \* task_<id>.tmp, or NoFile
          off,           \* task_<id>.offset, 0 when there is none
          aged,          \* ids whose partial is past _INCOMPLETE_TTL_S
          nextId,        \* the counter of next_task_id
          stored,        \* images handed to _process_uploaded_image
          calls, faults, \* counters of the bounds
          offered,       \* history: <<asked, payload>> of every call
          clean,         \* history: nothing has gone wrong for this call
          torn           \* history: ids truncated but not yet re-zeroed

callVars   == <<asked, payload, calls, offered>>
serverVars == <<tmp, off, aged, nextId, stored, torn>>
vars == <<pc, task, offset, failures, probe, sock, result, wire, clean, faults,
          callVars, serverVars>>

Quiet == [op |-> "none"]
Request(op, o) == [op |-> op, task |-> task, offset |-> o, body |-> payload]
Reply(c, t, n) == [op |-> "reply", code |-> c, task |-> t, recv |-> n]
IsRequest(m) == m.op \in {"chunk", "complete"}
Answered(c) == wire[Live].op = "reply" /\ wire[Live].code = c

Total == PayloadLen[payload]
Whole(p) == [i \in 1..PayloadLen[p] |-> p]
Blank(p) == [i \in 1..PayloadLen[p] |-> Hole]

(* f.seek(offset); f.write(chunk)                                          *)
WriteAt(f, o, p) == IF o < Len(f) THEN [f EXCEPT ![o + 1] = p] ELSE Append(f, p)

(* What /resume reports; a missing file reports 0.                         *)
Reported(t) == IF t \in Ids /\ tmp[t] # NoFile THEN off[t] ELSE 0

(* Mutant of Loop: finalizes one chunk early.                              *)
LoopOneShort(o) == IF o + 1 < Total THEN "chunk" ELSE "complete"

Loop(o) == IF o < Total THEN "chunk" ELSE "complete"

(* The partial the server holds under t is one this image can go on from,  *)
(* or one the board will overwrite.                                        *)
Resumable(t, p) ==
  Reported(t) \in 1..(PayloadLen[p] - 1) =>
    /\ Len(tmp[t]) = PayloadLen[p]
    /\ \A i \in 1..off[t] : tmp[t][i] = p
------------------------------------------------------------------------------
(* The board: WiFi_HttpPostImage.                                          *)

StartUpload(t, p) ==
  /\ pc = "idle"
  /\ calls < MaxCalls
  /\ calls' = calls + 1
  /\ asked' = t /\ task' = t /\ payload' = p
  /\ offset' = 0 /\ failures' = 0 /\ probe' = FALSE /\ sock' = FALSE
  /\ result' = "none"
  /\ pc' = IF t = Fallback THEN "chunk" ELSE "resume"
  /\ offered' = offered \union {<<t, p>>}
  /\ clean' = ((\A c \in Channels : wire[c] = Quiet) /\ Resumable(t, p))
  /\ UNCHANGED <<wire, faults, serverVars>>

(* The answer to the resume query is used only when it is a proper prefix. *)
ResumeAnswered ==
  /\ pc = "resume"
  /\ pc' = "chunk"
  /\ offset' = IF Reported(task) \in 1..(Total - 1) THEN Reported(task) ELSE 0
  /\ UNCHANGED <<task, failures, probe, sock, result, wire, clean, faults,
                 callVars, serverVars>>

ResumeUnanswered ==
  /\ pc = "resume"
  /\ pc' = "chunk"
  /\ clean' = FALSE
  /\ UNCHANGED <<task, offset, failures, probe, sock, result, wire, faults,
                 callVars, serverVars>>

Post(op, o, next) ==
  /\ wire' = [wire EXCEPT ![Live] = Request(op, o)]
  /\ sock' = TRUE
  /\ pc' = next
  /\ UNCHANGED <<task, offset, failures, probe, result, clean, faults,
                 callVars, serverVars>>

SendChunk == pc = "chunk" /\ Post("chunk", offset, "await")

SendComplete == pc = "complete" /\ Post("complete", offset, "ack")

Return(res) ==
  /\ pc' = "idle"
  /\ result' = res
  /\ probe' = FALSE
  /\ sock' = FALSE

(* Mutant of Fail: the attempt is not counted.                             *)
FailUncounted(ask, open, again) ==
  /\ failures' = failures
  /\ pc' = again
  /\ probe' = FALSE
  /\ sock' = open
  /\ UNCHANGED <<task, offset, result, faults, callVars, serverVars>>

(* One more failure: give up past the retry limit, otherwise try again,    *)
(* asking the server first when ask is set.  clean is lowered by callers.  *)
Fail(ask, open, again) ==
  /\ failures' = failures + 1
  /\ IF failures' > MaxRetries
     THEN Return("error")
     ELSE /\ pc' = IF ask /\ again = "chunk" THEN "probe" ELSE again
          /\ probe' = FALSE
          /\ sock' = open
          /\ UNCHANGED result
  /\ UNCHANGED <<task, offset, faults, callVars, serverVars>>

ConnectFails ==
  /\ pc \in {"chunk", "complete"}
  /\ ~sock
  /\ Fail(probe, FALSE, pc)
  /\ clean' = FALSE
  /\ UNCHANGED wire

(* Mutant of Hangup: a reply is taken for a request still under way.       *)
HangupAnything ==
  \/ wire' = [wire EXCEPT ![Live] = Quiet]
  \/ \E s \in Slots : wire' = [wire EXCEPT ![s] = wire[Live], ![Live] = Quiet]

(* The board closes its socket: the request on it is lost, or still on its *)
(* way; a reply on it is never read.                                       *)
Hangup ==
  \/ wire' = [wire EXCEPT ![Live] = Quiet]
  \/ /\ IsRequest(wire[Live])
     /\ \E s \in Slots : /\ wire[s] = Quiet
                         /\ wire' = [wire EXCEPT ![s] = wire[Live], ![Live] = Quiet]

NoAnswer ==
  /\ pc \in {"await", "ack"}
  /\ Hangup
  /\ Fail(TRUE, FALSE, IF pc = "await" THEN "chunk" ELSE "complete")
  /\ clean' = FALSE

ChunkConfirmed ==
  /\ pc = "await"
  /\ Answered(200)
  /\ wire[Live].recv > offset
  /\ task' = wire[Live].task
  /\ offset' = wire[Live].recv
  /\ pc' = Loop(offset')
  /\ failures' = 0
  /\ wire' = [wire EXCEPT ![Live] = Quiet]
  /\ UNCHANGED <<probe, sock, result, clean, faults, callVars, serverVars>>

(* A 200 that does not advance: counted as a failure on a good socket.     *)
ChunkNotAdvanced ==
  /\ pc = "await"
  /\ Answered(200)
  /\ wire[Live].recv <= offset
  /\ Fail(probe, TRUE, "chunk")
  /\ wire' = [wire EXCEPT ![Live] = Quiet]
  /\ UNCHANGED clean

(* 409: start over from 0 under the same id; not counted as a failure.     *)
ChunkUnknown ==
  /\ pc = "await"
  /\ Answered(409)
  /\ offset' = 0
  /\ pc' = "chunk"
  /\ failures' = 0
  /\ probe' = TRUE
  /\ sock' = FALSE
  /\ wire' = [wire EXCEPT ![Live] = Quiet]
  /\ UNCHANGED <<task, result, clean, faults, callVars, serverVars>>

ProbeAnswered ==
  /\ pc = "probe"
  /\ IF Reported(task) > offset
     THEN offset' = Reported(task) /\ failures' = 0
     ELSE UNCHANGED <<offset, failures>>
  /\ pc' = Loop(offset')
  /\ UNCHANGED <<task, probe, sock, result, wire, clean, faults, callVars, serverVars>>

ProbeUnanswered ==
  /\ pc = "probe"
  /\ pc' = "chunk"
  /\ clean' = FALSE
  /\ UNCHANGED <<task, offset, failures, probe, sock, result, wire, faults,
                 callVars, serverVars>>

CompleteAccepted ==
  /\ pc = "ack"
  /\ Answered(200)
  /\ Return("ok")
  /\ wire' = [wire EXCEPT ![Live] = Quiet]
  /\ UNCHANGED <<task, offset, failures, clean, faults, callVars, serverVars>>

CompleteRefused ==
  /\ pc = "ack"
  /\ \E c \in {404, 409, 422} : Answered(c)
  /\ Fail(FALSE, FALSE, "complete")
  /\ wire' = [wire EXCEPT ![Live] = Quiet]
  /\ UNCHANGED clean

(* UPLOAD_TOTAL_DEADLINE_MS, tested at the top of both loops.              *)
DeadlineHit ==
  /\ pc \in {"chunk", "complete"}
  /\ Return("error")
  /\ clean' = FALSE
  /\ UNCHANGED <<task, offset, failures, wire, faults, callVars, serverVars>>
------------------------------------------------------------------------------
(* The server: upload_chunk and upload_complete.                           *)

Answer(c, m) == wire' = [wire EXCEPT ![c] = IF c = Live THEN m ELSE Quiet]

(* An offset-0 chunk first sweeps the stale partials and resolves the      *)
(* fallback marker; then the file is opened afresh.                        *)
ResolvedId(r) == IF r.offset = 0 /\ r.task = Fallback THEN nextId ELSE r.task
Swept(r, f, none) ==
  IF r.offset = 0 THEN [i \in Ids |-> IF i \in aged THEN none ELSE f[i]] ELSE f
Opened(r) == IF r.offset = 0 THEN Blank(r.body) ELSE tmp[r.task]
(* Mutant of Expected: any offset is taken for the next one.               *)
ExpectedAnything(r) == r.offset

Expected(r) == IF r.offset = 0 THEN 0 ELSE off[r.task]

ReceiveChunk(c) ==
  LET r == wire[c]
      id == ResolvedId(r)
  IN /\ r.op = "chunk"
     /\ id \in Ids
     /\ \/ /\ r.offset > 0
           /\ tmp[id] = NoFile
           /\ Answer(c, Reply(409, id, 0))
           /\ UNCHANGED <<tmp, off, aged, nextId, torn>>
        \/ /\ r.offset > 0
           /\ tmp[id] # NoFile
           /\ r.offset # Expected(r)
           /\ Answer(c, Reply(200, id, Expected(r)))
           /\ UNCHANGED <<tmp, off, aged, nextId, torn>>
        \/ /\ r.offset > 0 => tmp[id] # NoFile
           /\ r.offset = Expected(r)
           /\ tmp' = [Swept(r, tmp, NoFile) EXCEPT ![id] = WriteAt(Opened(r), r.offset, r.body)]
           /\ off' = [Swept(r, off, 0) EXCEPT ![id] = r.offset + 1]
           /\ aged' = IF r.offset = 0 THEN {} ELSE aged \ {id}
           /\ nextId' = IF id # r.task THEN nextId + 1 ELSE nextId
           /\ torn' = IF r.offset = 0 THEN torn \ (aged \union {id}) ELSE torn
           /\ Answer(c, Reply(200, id, r.offset + 1))
     /\ UNCHANGED <<pc, task, offset, failures, probe, sock, result, clean, faults,
                    stored, callVars>>

(* The board hangs up within an offset-0 chunk: the handler has swept and  *)
(* taken an id before it waits for the body, and is abandoned there.       *)
ReceiveCutChunk(c) ==
  LET r == wire[c]
  IN /\ r.op = "chunk"
     /\ r.offset = 0
     /\ ResolvedId(r) \in Ids
     /\ wire' = [wire EXCEPT ![c] = Quiet]
     /\ tmp' = Swept(r, tmp, NoFile)
     /\ off' = Swept(r, off, 0)
     /\ aged' = {}
     /\ torn' = torn \ aged
     /\ nextId' = IF r.task = Fallback THEN nextId + 1 ELSE nextId
     /\ clean' = FALSE
     /\ UNCHANGED <<pc, task, offset, failures, probe, sock, result, faults,
                    stored, callVars>>

Remove(id) ==
  /\ tmp' = [tmp EXCEPT ![id] = NoFile]
  /\ off' = [off EXCEPT ![id] = 0]
  /\ aged' = aged \ {id}
  /\ torn' = torn \ {id}

(* Mutant of Intact: the CRC is not checked.                               *)
IntactUnchecked(r) == TRUE

(* The CRC the board sent fits the contents of the file.                   *)
Intact(r) == tmp[r.task] = Whole(r.body)

ReceiveComplete(c) ==
  LET r == wire[c]
      id == r.task
      got == IF id \in Ids THEN tmp[id] ELSE NoFile
  IN /\ r.op = "complete"
     /\ \/ /\ got = NoFile
           /\ Answer(c, Reply(404, id, 0))
           /\ UNCHANGED <<tmp, off, aged, stored, torn, clean>>
        \/ /\ got # NoFile
           /\ off[id] # PayloadLen[r.body]
           /\ Answer(c, Reply(409, id, 0))
           /\ UNCHANGED <<tmp, off, aged, stored, torn, clean>>
        \/ /\ got # NoFile
           /\ off[id] = PayloadLen[r.body]
           /\ ~Intact(r)
           /\ Answer(c, Reply(422, id, 0))
           /\ UNCHANGED <<tmp, off, aged, stored, torn, clean>>
        \/ /\ got # NoFile
           /\ off[id] = PayloadLen[r.body]
           /\ Intact(r)
           /\ Remove(id)
           /\ \/ /\ stored' = stored \union {[id |-> id, bytes |-> got]}
                 /\ Answer(c, Reply(200, id, 0))
                 /\ UNCHANGED clean
              \/ /\ Answer(c, Reply(422, id, 0))    \* processing failed
                 /\ clean' = FALSE
                 /\ UNCHANGED stored
     /\ UNCHANGED <<pc, task, offset, failures, probe, sock, result, faults,
                    nextId, callVars>>
------------------------------------------------------------------------------
(* The environment: an hour without a write, a crash of the server, a      *)
(* reset of the board.                                                     *)

Age(id) ==
  /\ pc = "idle"
  /\ tmp[id] # NoFile
  /\ id \notin aged
  /\ aged' = aged \union {id}
  /\ UNCHANGED <<pc, task, offset, failures, probe, sock, result, wire, clean, faults,
                 tmp, off, nextId, stored, torn, callVars>>

(* What a crash inside a handler leaves in the two sidecar files: the      *)
(* steps of the handler up to some point.                                  *)
TornChunk(r, id) ==
  LET f == Swept(r, tmp, NoFile)
      o == Swept(r, off, 0)
      none == IF r.offset = 0 THEN torn \ aged ELSE torn
  IN /\ r.op = "chunk"
     /\ id \in Ids
     /\ r.offset > 0 => tmp[id] # NoFile
     /\ r.offset = Expected(r)
     /\ \/ tmp' = f /\ off' = o /\ torn' = none           \* swept only
        \/ /\ r.offset = 0                                \* truncated
           /\ tmp' = [f EXCEPT ![id] = Blank(r.body)]
           /\ off' = o
           /\ torn' = none \union {id}
        \/ /\ r.offset = 0                                \* offset zeroed
           /\ tmp' = [f EXCEPT ![id] = Blank(r.body)]
           /\ off' = [o EXCEPT ![id] = 0]
           /\ torn' = none \ {id}
        \/ /\ tmp' = [f EXCEPT ![id] = WriteAt(Opened(r), r.offset, r.body)]
           /\ off' = [o EXCEPT ![id] = r.offset]          \* chunk written
           /\ torn' = IF r.offset = 0 THEN none \ {id} ELSE torn
     /\ aged' = IF r.offset = 0 THEN {} ELSE aged

TornComplete(r) ==
  /\ r.op = "complete"
  /\ r.task \in Ids
  /\ tmp[r.task] # NoFile
  /\ off[r.task] = PayloadLen[r.body]
  /\ Intact(r)
  /\ tmp' = [tmp EXCEPT ![r.task] = NoFile]
  /\ off' = off \/ off' = [off EXCEPT ![r.task] = 0]
  /\ torn' = torn \ {r.task}
  /\ aged' = aged \ {r.task}

(* The counter of next_task_id lives in the process; the files survive.    *)
Crash ==
  /\ faults < MaxFaults
  /\ faults' = faults + 1
  /\ \/ UNCHANGED <<tmp, off, aged, torn>>
     \/ \E c \in Channels : \/ IsRequest(wire[c]) /\ TornChunk(wire[c], ResolvedId(wire[c]))
                            \/ TornComplete(wire[c])
  /\ nextId' = 1
  /\ wire' = [c \in Channels |-> Quiet]
  /\ clean' = FALSE
  /\ UNCHANGED <<pc, task, offset, failures, probe, sock, result, stored, callVars>>

(* Watchdog or power loss: the call and the frame in RAM are gone.         *)
BoardReset ==
  /\ faults < MaxFaults
  /\ faults' = faults + 1
  /\ pc # "idle"
  /\ Hangup
  /\ Return("none")
  /\ UNCHANGED <<task, offset, failures, clean, callVars, serverVars>>
------------------------------------------------------------------------------
Init ==
  /\ pc = "idle" /\ result = "none"
  /\ asked = Fallback /\ task = Fallback
  /\ payload \in Payloads
  /\ offset = 0 /\ failures = 0 /\ probe = FALSE /\ sock = FALSE
  /\ wire = [c \in Channels |-> Quiet]
  /\ tmp = [i \in Ids |-> NoFile]
  /\ off = [i \in Ids |-> 0]
  /\ aged = {} /\ torn = {}
  /\ nextId = 1
  /\ stored = {}
  /\ calls = 0 /\ faults = 0
  /\ offered = {} /\ clean = TRUE

BoardStep ==
  \/ ResumeAnswered \/ ResumeUnanswered
  \/ SendChunk \/ SendComplete \/ ConnectFails \/ NoAnswer
  \/ ChunkConfirmed \/ ChunkNotAdvanced \/ ChunkUnknown
  \/ ProbeAnswered \/ ProbeUnanswered
  \/ CompleteAccepted \/ CompleteRefused
  \/ DeadlineHit

Next ==
  \/ \E t \in Tasks, p \in Payloads : StartUpload(t, p)
  \/ BoardStep
  \/ \E c \in Channels : ReceiveChunk(c) \/ ReceiveCutChunk(c) \/ ReceiveComplete(c)
  \/ \E id \in Ids : Age(id)
  \/ Crash
  \/ BoardReset

Spec == Init /\ [][Next]_vars

(* The super-loop keeps running and every wait in the call is bounded      *)
(* (HTTP_RESPONSE_TIMEOUT_MS, SOCKET_STALL_MS), so an unfinished call      *)
(* always takes another step.  Nothing is assumed of the network or the    *)
(* server.                                                                 *)
FairSpec == Spec /\ WF_vars(BoardStep)
------------------------------------------------------------------------------
File == Seq(Payloads \union {Hole}) \union {NoFile}

Messages ==
  {Quiet}
  \union [op : {"chunk", "complete"}, task : Ids \union {Fallback}, offset : Nat, body : Payloads]
  \union [op : {"reply"}, code : {200, 404, 409, 422}, task : Ids \union {Fallback}, recv : Nat]

(* Types of the state; the server only ever answers on the live socket.    *)
TypeOK ==
  /\ pc \in {"idle", "resume", "chunk", "await", "probe", "complete", "ack"}
  /\ asked \in Tasks
  /\ task \in Ids \union {Fallback}
  /\ payload \in Payloads
  /\ offset \in Nat
  /\ failures \in Nat
  /\ probe \in BOOLEAN /\ sock \in BOOLEAN /\ clean \in BOOLEAN
  /\ result \in {"none", "ok", "error"}
  /\ wire \in [Channels -> Messages]
  /\ \A s \in Slots : wire[s].op # "reply"
  /\ tmp \in [Ids -> File]
  /\ off \in [Ids -> Nat]
  /\ aged \subseteq Ids /\ torn \subseteq Ids
  /\ nextId \in Nat \ {0}
  /\ stored \subseteq [id : Ids, bytes : Seq(Payloads \union {Hole})]
  /\ calls \in Nat /\ faults \in Nat
  /\ offered \subseteq Tasks \X Payloads

Contiguous(f, n) == n <= Len(f) /\ \A i \in 1..n : f[i] # Hole

(* The offset sidecar is the highest contiguous offset received: every     *)
(* chunk below it is in the file.  (Not while a crash has left a truncated *)
(* file beside the offset of its previous contents.)                       *)
OffsetIsContiguous ==
  \A id \in Ids \ torn : tmp[id] # NoFile => Contiguous(tmp[id], off[id])

(* An upload on a link that answers, against a server that holds nothing   *)
(* of another image under this id, succeeds within one call.               *)
CleanCallSucceeds == result = "error" => ~clean

(* Every upload call returns: the main loop gets its turn back whatever    *)
(* the network and the server do.                                          *)
CallReturns == pc # "idle" ~> pc = "idle"

(* The upload implements the abstract transfer: only whole images offered  *)
(* under an id are stored under it, and a call that returns WIFI_OK        *)
(* stored its image.                                                       *)
Transfer == INSTANCE ImageTransfer WITH
  current <- <<asked, payload>>,
  outcome <- IF pc = "idle" THEN result ELSE "busy"

TransferRefined == Transfer!TransferSpec
------------------------------------------------------------------------------
(* What the sources say and the code does not do.                          *)

(* wifi.c: "a retried /complete against already-up-to-date sidecar state   *)
(* just re-validates and re-processes".  A 404 to a /complete would mean   *)
(* that the image was not processed already.                               *)
CompleteRetryRevalidates ==
  pc = "ack" /\ Answered(404) => [id |-> task, bytes |-> Whole(payload)] \notin stored

(* test_chunked_upload.py: a chunk that lands twice "must not double-write *)
(* or desync the tracked offset".  While chunks are sent, the server has   *)
(* at least what it confirmed to the board.                                *)
TrackedOffsetKept == pc \in {"chunk", "await", "probe"} => Reported(task) >= offset
==============================================================================
