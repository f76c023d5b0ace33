--------------------------- MODULE BoardLoopProofs ----------------------------
(***************************************************************************)
(* What holds of s_image_buffer, the schedule and the sequence in the main *)
(* loop of the board, for any schedules, ids, queue and number of retries. *)
(***************************************************************************)
EXTENDS BoardLoop, SequenceTheorems, TLAPS

(* The records of the model, by name.                                      *)
Jobs == [kind : Kinds \union {"none"}, task : Nat, place : Nat, content : Contents]
Uploads == [size : Contents, task : Nat, attempts : 0..(MaxAttempts - 1)]

(* What is assigned as a whole is of its type.                             *)
LEMMA RecordTypes ==
  /\ NoJob \in Jobs
  /\ NoUpload \in Uploads
  /\ Frames \subseteq Contents /\ Erased \in Contents /\ Scratch \in Contents
  /\ Erased \notin Frames
  BY LoopConstants DEF Jobs, Uploads, NoJob, NoUpload, Kinds, Contents, Erased,
     Frames, NoTask, Scratch

(* A slot of the schedule holds a task id, or zero.                        *)
LEMMA SlotType ==
  ASSUME TypeOK, NEW i \in Nat
  PROVE  Slot(i) \in Nat
  BY LoopConstants DEF TypeOK, Slot, NoTask

(* A schedule that is not empty has a first task.                          *)
LEMMA ScheduleLength ==
  ASSUME NEW s \in Schedules \union {<<>>}
  PROVE  /\ Len(s) \in Nat
         /\ s # <<>> => 0 < Len(s)
<1>1. s \in Seq(Nat \ {0})
  BY EmptySeq, LoopConstants
<1> QED BY <1>1, EmptySeq, LenProperties

(* The type of what a capture assigns.                                     *)
LEMMA CaptureType ==
  ASSUME NEW kind \in Kinds, NEW task \in Nat, NEW place \in Nat,
         Capture(kind, task, place)
  PROVE  /\ shot' \in {"odd", "even"} /\ buffer' \in Frames
         /\ job' \in Jobs /\ pc' \in Phases /\ moved' \in BOOLEAN
<1>1. shot' \in {"odd", "even"} /\ buffer' \in Frames
  BY DEF Capture, Frames
<1> QED BY <1>1, RecordTypes DEF Capture, Jobs, Phases

(* The next place of a sequence.                                           *)
LEMMA NextJob ==
  ASSUME NEW j \in Jobs
  PROVE  /\ [j EXCEPT !.task = @ + 1, !.place = @ + 1] \in Jobs
         /\ [j EXCEPT !.task = @ + 1, !.place = @ + 1, !.content = Erased] \in Jobs
<1>1. Erased \in Contents
  BY RecordTypes
<1>2. j.task + 1 \in Nat /\ j.place + 1 \in Nat
  BY DEF Jobs
<1>3. [j EXCEPT !.task = @ + 1, !.place = @ + 1] \in Jobs
  BY <1>2 DEF Jobs
<1>4. [j EXCEPT !.task = @ + 1, !.place = @ + 1, !.content = Erased] \in Jobs
  BY <1>1, <1>2 DEF Jobs
<1> QED BY <1>3, <1>4

(* The schedule's index stays below the number of its tasks.               *)
LEMMA AdvanceType ==
  ASSUME TypeOK, Advance
  PROVE  /\ index' \in Nat /\ cycles' \in {0, 1}
         /\ tasks # <<>> => index' < Len(tasks)
<1>1. index \in Nat /\ cycles \in {0, 1} /\ Len(tasks) \in Nat
      /\ (tasks # <<>> => 0 < Len(tasks))
  BY ScheduleLength DEF TypeOK
<1> QED BY <1>1 DEF Advance

(* The types are inductive as they stand.                                  *)
LEMMA TypePreserved == TypeOK /\ [Next]_vars => TypeOK'
<1> SUFFICES ASSUME TypeOK, [Next]_vars PROVE TypeOK'
  OBVIOUS
<1> USE LoopConstants, RecordTypes
<1>0. job \in Jobs /\ pending \in Uploads /\ Len(tasks) \in Nat
      /\ (tasks # <<>> => 0 < Len(tasks))
      /\ QueueSize \in Nat /\ CaptureIds \subseteq Nat
  BY ScheduleLength DEF TypeOK, Jobs, Uploads
<1>1. ASSUME NEW id \in CaptureIds, CaptureNow(id) PROVE TypeOK'
  <2>1. queue' \in Seq(CaptureIds) /\ Len(queue') <= QueueSize
    BY <1>1 DEF CaptureNow, TypeOK
  <2> QED BY <1>1, <2>1 DEF CaptureNow, Command, TypeOK, flags, schedule, history
<1>2. ASSUME NEW id \in BaseIds, CaptureSequence(id)
      PROVE  TypeOK'
  BY <1>2 DEF CaptureSequence, Command, TypeOK, Phases, schedule, history
<1>3. ASSUME NEW s \in Schedules \union {<<>>}, ReceiveSchedule(s) PROVE TypeOK'
  <2>1. tasks' = s /\ index' = 0 /\ (s # <<>> => 0 < Len(s))
    BY <1>3, ScheduleLength DEF ReceiveSchedule
  <2>2. cut' \in BOOLEAN /\ moved' \in BOOLEAN /\ attempted' \subseteq Nat
    BY <1>3 DEF ReceiveSchedule, ScheduleChanges, Uploading, TypeOK
  <2> QED BY <1>3, <2>1, <2>2 DEF ReceiveSchedule, Command, TypeOK, flags
<1>4. CASE DeleteSchedule
  <2>1. tasks' = <<>> /\ index' = 0
    BY <1>4 DEF DeleteSchedule
  <2>2. cut' \in BOOLEAN /\ moved' \in BOOLEAN /\ stopped' \in BOOLEAN
        /\ attempted' \subseteq Nat
    BY <1>4 DEF DeleteSchedule, ScheduleChanges, Uploading, TypeOK
  <2> QED BY <1>4, <2>1, <2>2 DEF DeleteSchedule, Command, TypeOK
<1>5. CASE FirmwareUpdate
  BY <1>5 DEF FirmwareUpdate, Command, TypeOK, Phases, schedule, history
<1>6. ASSUME NEW ok \in BOOLEAN, RetryEnds(ok) PROVE TypeOK'
  <2>1. pending.attempts + 1 < MaxAttempts
          => [pending EXCEPT !.attempts = @ + 1] \in Uploads
    BY <1>0 DEF Uploads
  <2>2. pending' \in Uploads /\ buffer' \in Contents
    BY <1>6, <2>1, <1>0 DEF RetryEnds, RetryLeaves, TypeOK
  <2> QED
    BY <1>6, <2>2 DEF RetryEnds, RetryLeaves, UploadEnds, TypeOK, Jobs, Uploads, Phases,
       flags, schedule
<1>7. CASE ShotEnds
  <2>1. job' \in Jobs
    BY <1>7, <1>0, NextJob DEF ShotEnds
  <2> QED BY <1>7, <2>1 DEF ShotEnds, TypeOK, Jobs, Phases, flags, schedule
<1>8. ASSUME NEW ok \in BOOLEAN, TaskEnds(ok) PROVE TypeOK'
  <2>1. Slot(job.place) \in Nat
    BY <1>0, SlotType DEF Jobs
  <2>2. pending' \in Uploads /\ buffer' \in Contents
    BY <1>8, <2>1, <1>0 DEF TaskEnds, TypeOK, Uploads
  <2>3. index' \in Nat /\ cycles' \in {0, 1} /\ (tasks # <<>> => index' < Len(tasks))
    BY <1>8, AdvanceType DEF TaskEnds
  <2> QED
    BY <1>8, <2>2, <2>3 DEF TaskEnds, UploadEnds, TypeOK, Jobs, Uploads, Phases, flags
<1>9. CASE CaptureEnds("queue", "sequence")
  BY <1>9 DEF CaptureEnds, UploadEnds, Uploading, TypeOK, Phases, Jobs, flags, schedule
<1>10. CASE CaptureEnds("button", "ota")
  BY <1>10 DEF CaptureEnds, UploadEnds, Uploading, TypeOK, Phases, Jobs, flags, schedule
<1>11. CASE SkipRetry
  BY <1>11 DEF SkipRetry, TypeOK, Phases, flags, schedule, history
<1>12. CASE Retry
  <2>1. job' \in Jobs
    BY <1>12, <1>0 DEF Retry, Jobs, Uploads, Kinds, TypeOK
  <2> QED BY <1>12, <2>1 DEF Retry, TypeOK, Jobs, Phases, flags, schedule, history
<1>13. CASE ServeQueue
  <2>1. "queue" \in Kinds /\ 0 \in Nat
    BY DEF Kinds
  <2>2. queue # <<>> => Head(queue) \in Nat /\ Tail(queue) \in Seq(CaptureIds)
                        /\ Len(Tail(queue)) <= QueueSize
    <3> SUFFICES ASSUME queue # <<>>
                 PROVE  Head(queue) \in Nat /\ Tail(queue) \in Seq(CaptureIds)
                        /\ Len(Tail(queue)) <= QueueSize
      OBVIOUS
    <3>1. queue \in Seq(CaptureIds) /\ Len(queue) \in Nat /\ Len(queue) <= QueueSize
      BY LenProperties DEF TypeOK
    <3>2. Head(queue) \in CaptureIds /\ Tail(queue) \in Seq(CaptureIds)
          /\ Len(Tail(queue)) = Len(queue) - 1
      BY <3>1, HeadTailProperties
    <3>3. Head(queue) \in Nat
      BY <3>2
    <3>4. Len(Tail(queue)) <= QueueSize
      BY <3>1, <3>2, <1>0
    <3> QED BY <3>2, <3>3, <3>4
  <2>3. job' \in Jobs /\ buffer' \in Contents /\ pc' \in Phases
        /\ shot' \in {"odd", "even"} /\ moved' \in BOOLEAN
    BY <1>13, <2>1, <2>2, <1>0, CaptureType DEF ServeQueue, NoCapture, TypeOK, Phases
  <2> QED BY <1>13, <2>2, <2>3 DEF ServeQueue, TypeOK, Jobs, flags, schedule
<1>14. CASE ServeSequence
  <2>1. job' \in Jobs
    BY <1>14, <1>0 DEF ServeSequence, Jobs, NoJob, Kinds, TypeOK, NoTask
  <2> QED BY <1>14, <2>1 DEF ServeSequence, TypeOK, Jobs, Phases, schedule
<1>15. CASE Shot
  <2>1. "sequence" \in Kinds /\ job.task \in Nat /\ job.place \in Nat
    BY <1>0 DEF Kinds, Jobs
  <2>2. job' \in Jobs /\ buffer' \in Contents /\ pc' \in Phases
        /\ shot' \in {"odd", "even"} /\ moved' \in BOOLEAN
    <3>1. CASE Capture("sequence", job.task, job.place)
      BY <3>1, <2>1, CaptureType
    <3>2. CASE /\ job' = [job EXCEPT !.task = @ + 1, !.place = @ + 1]
               /\ UNCHANGED <<pc, buffer, shot, moved>>
      <4>1. job' \in Jobs
        BY <3>2, <1>0, NextJob
      <4> QED BY <3>2, <4>1 DEF TypeOK
    <3> QED BY <1>15, <3>1, <3>2 DEF Shot
  <2> QED BY <1>15, <2>2 DEF Shot, TypeOK, Jobs, flags, schedule
<1>16. CASE SequenceEnds
  BY <1>16 DEF SequenceEnds, TypeOK, Phases, Jobs, flags, schedule
<1>17. CASE ServeButton
  <2>1. "button" \in Kinds /\ 0 \in Nat /\ ButtonTask \in Nat
    BY DEF Kinds, ButtonTask
  <2>2. job' \in Jobs /\ buffer' \in Contents /\ pc' \in Phases
        /\ shot' \in {"odd", "even"} /\ moved' \in BOOLEAN
    BY <1>17, <2>1, <1>0, CaptureType DEF ServeButton, NoCapture, TypeOK, Phases
  <2> QED BY <1>17, <2>2 DEF ServeButton, TypeOK, Jobs, flags, schedule
<1>18. CASE ServeOta
  BY <1>18 DEF ServeOta, TypeOK, Phases, schedule
<1>19. CASE SkipSchedule
  BY <1>19 DEF SkipSchedule, TypeOK, Phases, flags, schedule, history
<1>20. CASE RunTask
  <2>1. index \in Nat /\ Slot(index) \in Nat /\ "schedule" \in Kinds
    BY SlotType DEF TypeOK, Kinds
  <2>2. job' \in Jobs /\ buffer' \in Contents /\ pc' \in Phases
        /\ shot' \in {"odd", "even"} /\ moved' \in BOOLEAN
    BY <1>20, <2>1, <1>0, CaptureType DEF RunTask, NoCapture, TypeOK, Phases
  <2>3. index' \in Nat /\ cycles' \in {0, 1} /\ (tasks # <<>> => index' < Len(tasks))
    BY <1>20, AdvanceType DEF RunTask, TypeOK
  <2>4. attempted' \subseteq Nat /\ cut' \in BOOLEAN
    BY <1>20, <2>1 DEF RunTask, TypeOK
  <2> QED BY <1>20, <2>2, <2>3, <2>4 DEF RunTask, TypeOK, Jobs, flags
<1>21. CASE Reset
  <2>1. queue' \in Seq(CaptureIds) /\ Len(queue') = 0
    BY <1>21, EmptySeq DEF Reset
  <2>2. handled' \in 0..MaxCommands
    BY <1>21 DEF Reset, TypeOK
  <2>3. tasks' = <<>> /\ index' = 0 /\ attempted' = {}
    BY <1>21 DEF Reset
  <2>4. job' = NoJob /\ pending' = NoUpload /\ buffer' = Erased
    BY <1>21 DEF Reset
  <2>5. Len(queue') <= QueueSize
    BY <2>1, <1>0
  <2>6. pc' \in Phases /\ base' \in BaseIds \union {NoTask} /\ cycles' \in {0, 1}
        /\ shot' \in {"odd", "even"}
        /\ {requested', abort', ota', moved', overlaid', cut', stopped'} \subseteq
             BOOLEAN
    BY <1>21 DEF Reset, TypeOK, Phases
  <2> QED BY <2>1, <2>2, <2>3, <2>4, <2>5, <2>6 DEF TypeOK, Jobs, Uploads
<1>22. CASE UNCHANGED vars
  BY <1>22 DEF vars, flags, schedule, history, TypeOK, Phases
<1> QED
  BY <1>1, <1>2, <1>3, <1>4, <1>5, <1>6, <1>7, <1>8, <1>9, <1>10, <1>11, <1>12, <1>13,
       <1>14, <1>15, <1>16, <1>17, <1>18, <1>19, <1>20, <1>21, <1>22 DEF Next,
       HandleCommand, EndUpload, Serve

(* Every component of the state keeps its type.                            *)
THEOREM TypeCorrect == Spec => []TypeOK
<1>1. Init => TypeOK
  <2> SUFFICES ASSUME Init PROVE TypeOK
    OBVIOUS
  <2>1. <<>> \in Seq(CaptureIds) /\ Len(<<>>) = 0 /\ QueueSize \in Nat
    BY EmptySeq, LoopConstants
  <2>2. job \in Jobs /\ pending \in Uploads /\ buffer \in Contents
    BY RecordTypes DEF Init
  <2>3. queue \in Seq(CaptureIds) /\ Len(queue) <= QueueSize
    BY <2>1, LoopConstants DEF Init
  <2>4. handled \in 0..MaxCommands /\ index \in Nat /\ tasks = <<>>
    BY LoopConstants DEF Init
  <2>5. pc \in Phases /\ base \in BaseIds \union {NoTask} /\ cycles \in {0, 1}
        /\ shot \in {"odd", "even"} /\ attempted \subseteq Nat
        /\ {requested, abort, ota, moved, overlaid, cut, stopped} \subseteq BOOLEAN
    BY DEF Init, Phases
  <2> QED BY <2>2, <2>3, <2>4, <2>5 DEF TypeOK, Jobs, Uploads
<1> QED BY <1>1, TypePreserved, PTL DEF Spec
------------------------------------------------------------------------------
(* Whose the buffer is: of the capture whose upload is under way, or of    *)
(* the upload that waits, and never of both.                               *)
Owned ==
  /\ pc = "shots" => ~Waiting /\ job.kind = "sequence"
  /\ pc = "upload" => (Waiting <=> job.kind = "retry")
  /\ pc = "upload" /\ job.kind # "retry" => buffer = job.content
  /\ Waiting /\ ~overlaid => buffer = pending.size
  /\ overlaid => Waiting

(* Whose task a frame carries, until the schedule changes under it.        *)
Labelled ==
  /\ pc = "upload" /\ ~overlaid =>
       /\ job.content \in Frames
       /\ job.content.task = job.task \/ (job.kind = "retry" /\ moved)
  /\ Uploading("schedule") => job.task = Slot(job.place) \/ moved
  /\ Waiting /\ ~overlaid =>
       /\ pending.size \in Frames
       /\ pending.size.task = pending.task \/ moved

(* What a capture leaves for its upload.                                   *)
LEMMA CaptureLeaves ==
  ASSUME NEW kind \in Kinds, NEW task \in Nat, NEW place \in Nat,
         Capture(kind, task, place)
  PROVE  /\ buffer' \in Frames /\ buffer'.task = task
         /\ job'.kind = kind /\ job'.task = task /\ job'.place = place
         /\ job'.content = buffer' /\ pc' = "upload" /\ ~moved'
  BY CaptureType DEF Capture

(* A frame that is registered is not taken for none.                       *)
LEMMA Registered ==
  ASSUME TypeOK, NEW size \in Frames, NEW task, NEW n
  PROVE  [size |-> size, task |-> task, attempts |-> n] # NoUpload
  BY RecordTypes DEF NoUpload

(* Ownership and labels are inductive together.                            *)
LEMMA OwnerPreserved ==
  TypeOK /\ Owned /\ Labelled /\ [Next]_vars => Owned' /\ Labelled'
<1> SUFFICES ASSUME TypeOK, Owned, Labelled, [Next]_vars PROVE Owned' /\ Labelled'
  OBVIOUS
<1>0. job \in Jobs /\ pending \in Uploads
  BY DEF TypeOK, Jobs, Uploads
<1>1. ASSUME NEW id \in CaptureIds, CaptureNow(id)
      PROVE  Owned' /\ Labelled'
  BY <1>1 DEF CaptureNow, Command, Owned, Labelled, Waiting, Uploading, Slot, flags,
       schedule, history
<1>2. ASSUME NEW id \in BaseIds, CaptureSequence(id)
      PROVE  Owned' /\ Labelled'
  BY <1>2 DEF CaptureSequence, Command, Owned, Labelled, Waiting, Uploading, Slot,
       schedule, history
<1>3. ASSUME NEW s \in Schedules \union {<<>>}, ReceiveSchedule(s)
      PROVE  Owned' /\ Labelled'
  BY <1>3 DEF ReceiveSchedule, Command, ScheduleChanges, Owned, Labelled, Waiting,
       Uploading, Slot, flags
<1>4. CASE DeleteSchedule
  BY <1>4 DEF DeleteSchedule, Command, ScheduleChanges, Owned, Labelled, Waiting,
       Uploading, Slot
<1>5. CASE FirmwareUpdate
  BY <1>5 DEF FirmwareUpdate, Command, Owned, Labelled, Waiting, Uploading, Slot,
       schedule, history
<1>6. ASSUME NEW ok \in BOOLEAN, RetryEnds(ok) PROVE Owned' /\ Labelled'
  <2>1. CASE RetryLeaves(TRUE)
    <3>1. pending'.size = pending.size /\ pending'.task = pending.task
      BY <2>1, <1>0 DEF RetryLeaves, Uploads
    <3>2. Waiting
      BY <2>1 DEF RetryLeaves, UploadEnds, Uploading, Owned
    <3>3. pc' = "queue" /\ UNCHANGED <<buffer, moved>> /\ (overlaid' <=> overlaid)
      BY <2>1 DEF RetryLeaves, UploadEnds
    <3>4. Waiting'
      BY <2>1, <1>0 DEF RetryLeaves, Waiting, Uploads, NoUpload
    <3> QED BY <3>1, <3>2, <3>3, <3>4 DEF Owned, Labelled, Uploading
  <2>2. CASE RetryLeaves(FALSE)
    BY <2>2 DEF RetryLeaves, UploadEnds, Owned, Labelled, Waiting, Uploading, Slot
  <2> QED BY <1>6, <2>1, <2>2 DEF RetryEnds, RetryLeaves
<1>7. CASE ShotEnds
  BY <1>7 DEF ShotEnds, Uploading, Owned, Labelled, Waiting, Slot, flags, schedule
<1>8. ASSUME NEW ok \in BOOLEAN, TaskEnds(ok) PROVE Owned' /\ Labelled'
  <2>1. ~Waiting /\ ~overlaid /\ buffer = job.content /\ buffer \in Frames
        /\ (buffer.task = Slot(job.place) \/ moved)
    BY <1>8 DEF TaskEnds, UploadEnds, Owned, Labelled, Waiting, Uploading, Slot
  <2>2. ~ok => Waiting'
    BY <1>8, <2>1, Registered DEF TaskEnds, Waiting
  <2>3. pc' = "commands" /\ job' = NoJob /\ UNCHANGED <<moved, overlaid>>
    BY <1>8 DEF TaskEnds, UploadEnds
  <2>4. ok => pending' = NoUpload
    BY <1>8, <2>1 DEF TaskEnds, Waiting
  <2>5. ~ok => /\ pending' = [size |-> buffer, task |-> Slot(job.place), attempts |-> 0]
               /\ buffer' = buffer
    BY <1>8, <2>2 DEF TaskEnds, Waiting
  <2> QED BY <2>1, <2>2, <2>3, <2>4, <2>5 DEF Owned, Labelled, Waiting, Uploading
<1>9. CASE CaptureEnds("queue", "sequence")
  BY <1>9 DEF CaptureEnds, UploadEnds, Uploading, Owned, Labelled, Waiting, Slot, flags,
       schedule
<1>10. CASE CaptureEnds("button", "ota")
  BY <1>10 DEF CaptureEnds, UploadEnds, Uploading, Owned, Labelled, Waiting, Slot,
       flags, schedule
<1>11. CASE SkipRetry
  BY <1>11 DEF SkipRetry, Owned, Labelled, Waiting, Uploading, Slot, flags, schedule,
       history
<1>12. CASE Retry
  <2>1. job'.kind = "retry" /\ job'.content = buffer /\ job'.task = pending.task
    BY <1>12 DEF Retry
  <2> QED BY <1>12, <2>1 DEF Retry, Owned, Labelled, Waiting, Uploading, Slot, flags,
       schedule, history
<1>13. CASE ServeQueue
  <2>1. CASE queue # <<>> /\ ~Waiting /\ Capture("queue", Head(queue), 0)
    <3>1. "queue" \in Kinds /\ 0 \in Nat /\ Head(queue) \in CaptureIds
      BY <2>1, HeadTailProperties DEF Kinds, TypeOK
    <3>2. Head(queue) \in Nat
      BY <3>1, LoopConstants
    <3> QED BY <1>13, <2>1, <3>1, <3>2, CaptureLeaves DEF ServeQueue, Owned, Labelled,
         Waiting, Uploading, Slot, flags, schedule
  <2>2. CASE NoCapture("sequence")
    BY <1>13, <2>2 DEF ServeQueue, NoCapture, Owned, Labelled, Waiting, Uploading, Slot,
         flags, schedule
  <2> QED BY <1>13, <2>1, <2>2 DEF ServeQueue
<1>14. CASE ServeSequence
  <2>1. CASE ~Waiting /\ pc' = "shots" /\ job' = [NoJob EXCEPT !.kind = "sequence",
       !.task = base]
    BY <1>14, <2>1 DEF ServeSequence, NoJob, Owned, Labelled, Waiting, Uploading, Slot,
         schedule
  <2>2. CASE pc' = "button"
    BY <1>14, <2>2 DEF ServeSequence, Owned, Labelled, Waiting, Uploading, Slot,
         schedule
  <2> QED BY <1>14, <2>1, <2>2 DEF ServeSequence
<1>15. CASE Shot
  <2>1. CASE Capture("sequence", job.task, job.place)
    <3>1. "sequence" \in Kinds /\ job.task \in Nat /\ job.place \in Nat
      BY <1>0 DEF Kinds, Jobs
    <3> QED BY <1>15, <2>1, <3>1, CaptureLeaves DEF Shot, Owned, Labelled, Waiting,
         Uploading, Slot, flags, schedule
  <2>2. CASE /\ job' = [job EXCEPT !.task = @ + 1, !.place = @ + 1]
             /\ UNCHANGED <<pc, buffer, shot, moved>>
    BY <1>15, <2>2, <1>0 DEF Shot, Jobs, Owned, Labelled, Waiting, Uploading, Slot,
         flags, schedule
  <2> QED BY <1>15, <2>1, <2>2 DEF Shot
<1>16. CASE SequenceEnds
  BY <1>16 DEF SequenceEnds, Owned, Labelled, Waiting, Uploading, Slot, flags, schedule
<1>17. CASE ServeButton
  <2>1. CASE Capture("button", ButtonTask, 0) /\ ~Waiting
    <3>1. "button" \in Kinds /\ ButtonTask \in Nat /\ 0 \in Nat
      BY DEF Kinds, ButtonTask
    <3> QED BY <1>17, <2>1, <3>1, CaptureLeaves DEF ServeButton, Owned, Labelled,
         Waiting, Uploading, Slot, flags, schedule
  <2>2. CASE NoCapture("ota")
    BY <1>17, <2>2 DEF ServeButton, NoCapture, Owned, Labelled, Waiting, Uploading,
         Slot, flags, schedule
  <2> QED BY <1>17, <2>1, <2>2 DEF ServeButton
<1>18. CASE ServeOta
  <2>1. pc' = "schedule" /\ UNCHANGED <<pending, moved, tasks>>
    BY <1>18 DEF ServeOta, schedule
  <2>2. CASE overlaid' = (overlaid \/ Waiting)
    BY <2>1, <2>2 DEF Owned, Labelled, Waiting, Uploading
  <2>3. CASE UNCHANGED <<buffer, overlaid>>
    BY <2>1, <2>3 DEF Owned, Labelled, Waiting, Uploading
  <2> QED BY <1>18, <2>2, <2>3 DEF ServeOta
<1>19. CASE SkipSchedule
  BY <1>19 DEF SkipSchedule, Owned, Labelled, Waiting, Uploading, Slot, flags, schedule,
       history
<1>20. CASE RunTask
  <2>1. CASE Capture("schedule", Slot(index), index)
    <3>1. "schedule" \in Kinds /\ Slot(index) \in Nat /\ index \in Nat
      BY SlotType DEF Kinds, TypeOK
    <3>2. UNCHANGED <<tasks, pending, overlaid>> /\ ~Waiting
      BY <1>20 DEF RunTask
    <3>3. /\ job'.kind = "schedule" /\ job'.content = buffer' /\ buffer' \in Frames
          /\ job'.place = index /\ job'.task = Slot(index) /\ buffer'.task = Slot(index)
          /\ pc' = "upload"
      BY <2>1, <3>1, CaptureLeaves
    <3>4. Slot(job.place)' = Slot(index)
      BY <3>2, <3>3 DEF Slot
    <3> QED BY <3>2, <3>3, <3>4 DEF Owned, Labelled, Waiting, Uploading
  <2>2. CASE NoCapture("commands")
    BY <1>20, <2>2 DEF RunTask, NoCapture, Owned, Labelled, Waiting, Uploading, Slot,
         flags
  <2> QED BY <1>20, <2>1, <2>2 DEF RunTask
<1>21. CASE Reset
  BY <1>21 DEF Reset, Owned, Labelled, Waiting, Uploading, Slot
<1>22. CASE UNCHANGED vars
  BY <1>22 DEF vars, flags, schedule, history, Owned, Labelled, Waiting, Uploading, Slot
<1> QED
  BY <1>1, <1>2, <1>3, <1>4, <1>5, <1>6, <1>7, <1>8, <1>9, <1>10, <1>11, <1>12, <1>13,
       <1>14, <1>15, <1>16, <1>17, <1>18, <1>19, <1>20, <1>21, <1>22 DEF Next,
       HandleCommand, EndUpload, Serve

(* What the two theorems after it follow from.                             *)
LEMMA OwnedAlways == Spec => [](TypeOK /\ Owned /\ Labelled)
<1>1. Init => Owned /\ Labelled
  BY DEF Init, Owned, Labelled, Waiting, Uploading
<1> QED BY <1>1, TypeCorrect, OwnerPreserved, PTL DEF Spec

(* The frame of a waiting upload stays in the buffer until the upload is   *)
(* done or given up; only an OTA download may overwrite it.                *)
THEOREM PendingFrameIntact == Spec => []PendingIntact
<1>1. Owned => PendingIntact
  BY DEF Owned, PendingIntact
<1> QED BY <1>1, OwnedAlways, PTL

(* What is uploaded is the frame that was captured for that task.          *)
THEOREM UploadsCapturedFrame == Spec => []UploadsItsFrame
<1>1. Labelled => UploadsItsFrame
  BY DEF Labelled, UploadsItsFrame
<1> QED BY <1>1, OwnedAlways, PTL
------------------------------------------------------------------------------
(* The tasks begun in this cycle are those before the index, and the one   *)
(* at it while its upload is under way.                                    *)
Begun ==
  /\ ~cut /\ index # 0 /\ ~Uploading("schedule") => attempted = 1..index
  /\ ~cut /\ Uploading("schedule") => attempted = 1..(index + 1) /\ index < Len(tasks)

Reported == cycles' # cycles /\ ~cut' => attempted' = DOMAIN tasks'

(* Advance, after a task that was at the index.                            *)
LEMMA AdvanceCounts ==
  ASSUME TypeOK, Advance, UNCHANGED tasks, pc' = "commands",
         ~cut' => attempted' = 1..(index + 1) /\ index < Len(tasks)
  PROVE  Begun' /\ Reported
<1>1. index \in Nat /\ Len(tasks) \in Nat /\ DOMAIN tasks = 1..Len(tasks)
  <2>1. tasks \in Seq(Nat \ {0})
    BY EmptySeq, LoopConstants DEF TypeOK
  <2> QED BY <2>1, LenProperties DEF TypeOK
<1> QED BY <1>1 DEF Advance, Begun, Reported, Uploading

(* The count is inductive, and every report finds it complete.             *)
LEMMA CountPreserved == TypeOK /\ Begun /\ [Next]_vars => Begun' /\ Reported
<1> SUFFICES ASSUME TypeOK, Begun, [Next]_vars PROVE Begun' /\ Reported
  OBVIOUS
<1>0. job \in Jobs /\ pending \in Uploads
  BY DEF TypeOK, Jobs, Uploads
<1>1. ASSUME NEW id \in CaptureIds, CaptureNow(id)
      PROVE  Begun' /\ Reported
  BY <1>1 DEF CaptureNow, Command, Begun, Reported, Uploading, flags, schedule, history
<1>2. ASSUME NEW id \in BaseIds, CaptureSequence(id)
      PROVE  Begun' /\ Reported
  BY <1>2 DEF CaptureSequence, Command, Begun, Reported, Uploading, schedule, history
<1>3. ASSUME NEW s \in Schedules \union {<<>>}, ReceiveSchedule(s)
      PROVE  Begun' /\ Reported
  BY <1>3 DEF ReceiveSchedule, Command, ScheduleChanges, Begun, Reported, Uploading,
       flags
<1>4. CASE DeleteSchedule
  BY <1>4 DEF DeleteSchedule, Command, ScheduleChanges, Begun, Reported, Uploading
<1>5. CASE FirmwareUpdate
  BY <1>5 DEF FirmwareUpdate, Command, Begun, Reported, Uploading, schedule, history
<1>6. ASSUME NEW ok \in BOOLEAN, RetryEnds(ok)
      PROVE  Begun' /\ Reported
  BY <1>6 DEF RetryEnds, RetryLeaves, UploadEnds, Uploading, Begun, Reported, flags,
       schedule
<1>7. CASE ShotEnds
  BY <1>7 DEF ShotEnds, Uploading, Begun, Reported, flags, schedule
<1>8. ASSUME NEW ok \in BOOLEAN, TaskEnds(ok) PROVE Begun' /\ Reported
  <2>1. Advance /\ UNCHANGED <<tasks, cut, attempted>> /\ pc' = "commands"
        /\ Uploading("schedule")
    BY <1>8 DEF TaskEnds, UploadEnds
  <2> QED BY <2>1, AdvanceCounts DEF Begun
<1>9. CASE CaptureEnds("queue", "sequence")
  BY <1>9 DEF CaptureEnds, UploadEnds, Uploading, Begun, Reported, flags, schedule
<1>10. CASE CaptureEnds("button", "ota")
  BY <1>10 DEF CaptureEnds, UploadEnds, Uploading, Begun, Reported, flags, schedule
<1>11. CASE SkipRetry
  BY <1>11 DEF SkipRetry, Begun, Reported, Uploading, flags, schedule, history
<1>12. CASE Retry
  BY <1>12 DEF Retry, Begun, Reported, Uploading, flags, schedule, history
<1>13. CASE ServeQueue
  BY <1>13 DEF ServeQueue, Capture, NoCapture, Begun, Reported, Uploading, flags,
       schedule
<1>14. CASE ServeSequence
  BY <1>14 DEF ServeSequence, Begun, Reported, Uploading, NoJob, schedule
<1>15. CASE Shot
  BY <1>15 DEF Shot, Capture, Begun, Reported, Uploading, flags, schedule
<1>16. CASE SequenceEnds
  BY <1>16 DEF SequenceEnds, Begun, Reported, Uploading, flags, schedule
<1>17. CASE ServeButton
  BY <1>17 DEF ServeButton, Capture, NoCapture, Begun, Reported, Uploading, flags,
       schedule
<1>18. CASE ServeOta
  BY <1>18 DEF ServeOta, Begun, Reported, Uploading, schedule
<1>19. CASE SkipSchedule
  BY <1>19 DEF SkipSchedule, Begun, Reported, Uploading, flags, schedule, history
<1>20. CASE RunTask
  <2>1. index \in Nat /\ index < Len(tasks) /\ UNCHANGED tasks
    BY <1>20 DEF RunTask, TypeOK
  <2>2. ~cut' => attempted' = 1..(index + 1)
    <3>1. CASE index = 0
      BY <1>20, <3>1 DEF RunTask
    <3>2. CASE index # 0
      <4>1. ~cut' => attempted = 1..index /\ attempted' = attempted \union {index + 1}
        BY <1>20, <3>2 DEF RunTask, Begun, Uploading
      <4>2. (1..index) \union {index + 1} = 1..(index + 1)
        BY <2>1
      <4> QED BY <4>1, <4>2
    <3> QED BY <3>1, <3>2
  <2>3. CASE Capture("schedule", Slot(index), index) /\ UNCHANGED <<index, cycles>>
    BY <2>1, <2>2, <2>3 DEF Capture, Begun, Reported, Uploading
  <2>4. CASE NoCapture("commands") /\ Advance
    BY <2>1, <2>2, <2>4, AdvanceCounts DEF NoCapture
  <2> QED BY <1>20, <2>3, <2>4 DEF RunTask
<1>21. CASE Reset
  BY <1>21 DEF Reset, Begun, Reported, Uploading
<1>22. CASE UNCHANGED vars
  BY <1>22 DEF vars, flags, schedule, history, Begun, Reported, Uploading
<1> QED
  BY <1>1, <1>2, <1>3, <1>4, <1>5, <1>6, <1>7, <1>8, <1>9, <1>10, <1>11, <1>12, <1>13,
       <1>14, <1>15, <1>16, <1>17, <1>18, <1>19, <1>20, <1>21, <1>22 DEF Next,
       HandleCommand, EndUpload, Serve

(* cycle_complete is only published when every task of the schedule was    *)
(* begun, unless the schedule was changed in the middle of an upload.      *)
THEOREM CompleteMeansComplete == Spec => CycleMeansAllTasks
<1>1. Init => Begun
  BY DEF Init, Begun, Uploading
<1>2. TypeOK /\ Begun /\ [Next]_vars => [cycles' # cycles /\ ~cut' => attempted' =
     DOMAIN tasks']_vars
  BY CountPreserved DEF Reported
<1> QED BY <1>1, <1>2, TypeCorrect, CountPreserved, PTL DEF Spec, CycleMeansAllTasks
------------------------------------------------------------------------------
(* A delete_schedule during a sequence leaves the abort flag up until the  *)
(* sequence is over.                                                       *)
Halted == stopped => abort

(* The abort flag is only lowered where a new sequence begins.             *)
LEMMA HaltPreserved ==
  Halted /\ [Next]_vars
    => Halted' /\ (shot' # shot /\ job'.kind = "sequence" => ~stopped)
<1> SUFFICES ASSUME Halted, [Next]_vars
             PROVE  Halted' /\ (shot' # shot /\ job'.kind = "sequence" => ~stopped)
  OBVIOUS
<1>1. ASSUME NEW id \in CaptureIds, CaptureNow(id)
      PROVE  Halted' /\ (shot' # shot /\ job'.kind = "sequence" => ~stopped)
  BY <1>1 DEF CaptureNow, Command, Halted, Uploading, flags, schedule, history
<1>2. ASSUME NEW id \in BaseIds, CaptureSequence(id)
      PROVE  Halted' /\ (shot' # shot /\ job'.kind = "sequence" => ~stopped)
  BY <1>2 DEF CaptureSequence, Command, Halted, Uploading, schedule, history
<1>3. ASSUME NEW s \in Schedules \union {<<>>}, ReceiveSchedule(s)
      PROVE  Halted' /\ (shot' # shot /\ job'.kind = "sequence" => ~stopped)
  BY <1>3 DEF ReceiveSchedule, Command, ScheduleChanges, Halted, Uploading, flags
<1>4. CASE DeleteSchedule
  BY <1>4 DEF DeleteSchedule, Command, ScheduleChanges, Halted, Uploading
<1>5. CASE FirmwareUpdate
  BY <1>5 DEF FirmwareUpdate, Command, Halted, Uploading, schedule, history
<1>6. ASSUME NEW ok \in BOOLEAN, RetryEnds(ok)
      PROVE  Halted' /\ (shot' # shot /\ job'.kind = "sequence" => ~stopped)
  BY <1>6 DEF RetryEnds, RetryLeaves, UploadEnds, Uploading, Halted, flags, schedule
<1>7. CASE ShotEnds
  BY <1>7 DEF ShotEnds, Uploading, Halted, flags, schedule
<1>8. ASSUME NEW ok \in BOOLEAN, TaskEnds(ok)
      PROVE  Halted' /\ (shot' # shot /\ job'.kind = "sequence" => ~stopped)
  BY <1>8 DEF TaskEnds, UploadEnds, Uploading, Advance, Halted, flags
<1>9. CASE CaptureEnds("queue", "sequence")
  BY <1>9 DEF CaptureEnds, UploadEnds, Uploading, Halted, flags, schedule
<1>10. CASE CaptureEnds("button", "ota")
  BY <1>10 DEF CaptureEnds, UploadEnds, Uploading, Halted, flags, schedule
<1>11. CASE SkipRetry
  BY <1>11 DEF SkipRetry, Halted, Uploading, flags, schedule, history
<1>12. CASE Retry
  BY <1>12 DEF Retry, Halted, Uploading, flags, schedule, history
<1>13. CASE ServeQueue
  BY <1>13 DEF ServeQueue, Capture, NoCapture, Halted, Uploading, flags, schedule
<1>14. CASE ServeSequence
  BY <1>14 DEF ServeSequence, Halted, Uploading, schedule
<1>15. CASE Shot
  BY <1>15 DEF Shot, Capture, Halted, Uploading, flags, schedule
<1>16. CASE SequenceEnds
  BY <1>16 DEF SequenceEnds, Halted, Uploading, flags, schedule
<1>17. CASE ServeButton
  BY <1>17 DEF ServeButton, Capture, NoCapture, Halted, Uploading, flags, schedule
<1>18. CASE ServeOta
  BY <1>18 DEF ServeOta, Halted, Uploading, schedule
<1>19. CASE SkipSchedule
  BY <1>19 DEF SkipSchedule, Halted, Uploading, flags, schedule, history
<1>20. CASE RunTask
  BY <1>20 DEF RunTask, Capture, NoCapture, Advance, Halted, Uploading, flags
<1>21. CASE Reset
  BY <1>21 DEF Reset, Halted, Uploading
<1>22. CASE UNCHANGED vars
  BY <1>22 DEF vars, flags, schedule, history, Halted, Uploading
<1> QED
  BY <1>1, <1>2, <1>3, <1>4, <1>5, <1>6, <1>7, <1>8, <1>9, <1>10, <1>11, <1>12, <1>13,
       <1>14, <1>15, <1>16, <1>17, <1>18, <1>19, <1>20, <1>21, <1>22 DEF Next,
       HandleCommand, EndUpload, Serve

(* No frame of an aborted sequence is captured after the abort.            *)
THEOREM AbortedSequenceStops == Spec => AbortStops
<1>1. Init => Halted
  BY DEF Init, Halted
<1>2. Halted /\ [Next]_vars
        => [shot' # shot /\ job'.kind = "sequence" => ~stopped]_vars
  BY HaltPreserved
<1> QED BY <1>1, <1>2, HaltPreserved, PTL DEF Spec, AbortStops
==============================================================================
