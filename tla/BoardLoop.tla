------------------------------ MODULE BoardLoop ------------------------------
(***************************************************************************)
(* The work of the board's main loop that shares s_image_buffer: the       *)
(* upload that waits for its retry, queued captures, capture sequences,    *)
(* the button, an OTA download (whose scratch space it is) and the tasks   *)
(* of the schedule.  One iteration serves them in this order.              *)
(*                                                                         *)
(* Commands are handled at the top of the loop and, as WiFi_HttpPostImage  *)
(* calls MQTT_ProcessLoop, inside every upload.  When a task is due, and a *)
(* retry, is left open: ScheduleClock has the time.  A frame is the task   *)
(* it was captured for, and odd or even, to tell it from the one before.   *)
(***************************************************************************)
EXTENDS Integers, Sequences

CONSTANTS Schedules,     \* task lists a schedule command may carry
          CaptureIds,    \* task ids of capture_now
          BaseIds,       \* first task ids of capture sequences
          SequenceLength,\* captures of a sequence
          QueueSize,     \* usable slots of s_capture_queue
          MaxAttempts,   \* PENDING_UPLOAD_MAX_ATTEMPTS
          MaxCommands    \* bound: commands handled

ASSUME LoopConstants ==
  /\ Schedules \subseteq Seq(Nat \ {0})
  /\ CaptureIds \subseteq Nat /\ BaseIds \subseteq Nat
  /\ {SequenceLength, QueueSize, MaxAttempts} \subseteq Nat \ {0}
  /\ MaxCommands \in Nat

NoTask == 0                \* the id in a zeroed slot of s_schedule
ButtonTask == 0            \* any id of the board's own

Frames == [task : Nat, shot : {"odd", "even"}]
Erased == [task |-> NoTask, shot |-> "erased"]     \* secure_erase
Scratch == [task |-> NoTask, shot |-> "scratch"]   \* left by an OTA download
Contents == Frames \union {Erased, Scratch}

NoUpload == [size |-> Erased, task |-> NoTask, attempts |-> 0]
NoJob == [kind |-> "none", task |-> NoTask, place |-> 0, content |-> Erased]

Kinds == {"retry", "queue", "sequence", "button", "schedule"}

VARIABLES pc,            \* where in the loop
          job,           \* the upload that is under way
          buffer,        \* content of s_image_buffer
          pending,       \* s_pending_upload_*; its size is the frame registered
          queue,         \* s_capture_queue
          requested,     \* s_sequence_requested
          base,          \* s_sequence_base_task_id
          abort,         \* s_sequence_abort
          tasks,         \* s_schedule.tasks
          index,         \* s_schedule.current_index
          ota,           \* s_ota_requested
          cycles,        \* changes when cycle_complete is published
          handled,       \* counter of the bound
          shot,          \* history: whether the last frame was odd or even
          moved,         \* history: the schedule changed during the frame's upload
          overlaid,      \* history: an OTA download ran while an upload waited
          attempted,     \* history: tasks begun in this cycle
          cut,           \* history: the schedule came during a task's upload
          stopped        \* history: delete_schedule came during the sequence

flags == <<requested, base, abort, ota>>
schedule == <<tasks, index>>
history == <<moved, overlaid, attempted, cut, stopped>>
vars == <<pc, job, buffer, pending, queue, flags, schedule, cycles, handled,
          shot, history>>

Phases == {"commands", "queue", "sequence", "shots", "button", "ota",
           "schedule", "upload"}

TypeOK ==
  /\ pc \in Phases
  /\ job \in [kind : Kinds \union {"none"}, task : Nat, place : Nat,
              content : Contents]
  /\ buffer \in Contents
  /\ pending \in [size : Contents, task : Nat, attempts : 0..(MaxAttempts - 1)]
  /\ queue \in Seq(CaptureIds) /\ Len(queue) <= QueueSize
  /\ {requested, abort, ota, moved, overlaid, cut, stopped} \subseteq BOOLEAN
  /\ base \in BaseIds \union {NoTask}
  /\ tasks \in Schedules \union {<<>>}
  /\ index \in Nat /\ (tasks # <<>> => index < Len(tasks))
  /\ cycles \in {0, 1}
  /\ handled \in 0..MaxCommands /\ shot \in {"odd", "even"}
  /\ attempted \subseteq Nat
------------------------------------------------------------------------------
Waiting == pending # NoUpload
Uploading(kind) == pc = "upload" /\ job.kind = kind

(* The task id in a slot of s_schedule, zero past its end.                 *)
Slot(i) == IF i + 1 \in DOMAIN tasks THEN tasks[i + 1] ELSE NoTask

(* on_command_received, by type.                                           *)
Command ==
  /\ pc \in {"commands", "upload"}
  /\ handled < MaxCommands
  /\ handled' = handled + 1
  /\ UNCHANGED <<pc, job, buffer, pending, cycles, shot>>

(* Mutant of CaptureNow: a full queue grows.                               *)
CaptureNowGrowing(id) ==
  /\ Command
  /\ queue' = Append(queue, id)
  /\ UNCHANGED <<flags, schedule, history>>

(* capture_now: a full queue loses its oldest request.                     *)
CaptureNow(id) ==
  /\ Command
  /\ queue' = Append(IF Len(queue) = QueueSize THEN Tail(queue) ELSE queue, id)
  /\ UNCHANGED <<flags, schedule, history>>

CaptureSequence(id) ==
  /\ Command
  /\ base' = id /\ requested' = TRUE
  /\ UNCHANGED <<queue, abort, ota, schedule, history>>

(* What a change of the schedule does to the upload of one of its tasks.   *)
ScheduleChanges ==
  /\ cut' = Uploading("schedule")
  /\ moved' = (moved \/ Uploading("schedule"))
  /\ attempted' = {}

DeleteSchedule ==
  /\ Command
  /\ tasks' = <<>> /\ index' = 0
  /\ abort' = TRUE
  /\ stopped' = (stopped \/ Uploading("sequence"))
  /\ ScheduleChanges
  /\ UNCHANGED <<queue, requested, base, ota, overlaid>>

(* Mutant of ReceiveSchedule: the index of the old schedule stays.         *)
ReceiveScheduleAtIndex(s) ==
  /\ Command
  /\ tasks' = s
  /\ index' = IF index < Len(s) THEN index ELSE 0
  /\ ScheduleChanges
  /\ UNCHANGED <<queue, flags, overlaid, stopped>>

(* A schedule replaces the old one; one that cannot be parsed clears it.   *)
ReceiveSchedule(s) ==
  /\ Command
  /\ tasks' = s /\ index' = 0
  /\ ScheduleChanges
  /\ UNCHANGED <<queue, flags, overlaid, stopped>>

FirmwareUpdate ==
  /\ Command
  /\ ota' = TRUE
  /\ UNCHANGED <<queue, requested, base, abort, schedule, history>>
------------------------------------------------------------------------------
(* A capture that works, and the upload that follows it.                   *)
Capture(kind, task, place) ==
  /\ shot' = IF shot = "odd" THEN "even" ELSE "odd"
  /\ buffer' = [task |-> task, shot |-> shot']
  /\ job' = [kind |-> kind, task |-> task, place |-> place, content |-> buffer']
  /\ moved' = FALSE
  /\ pc' = "upload"

NoCapture(next) ==
  /\ pc' = next
  /\ UNCHANGED <<job, buffer, shot, moved>>

(* WiFi_HttpPostImage returns, at its deadline if not before.              *)
UploadEnds(kind, next) ==
  /\ Uploading(kind)
  /\ job' = NoJob
  /\ pc' = next

(* _service_pending_upload: nothing waits, or its time has not come.       *)
SkipRetry ==
  /\ pc = "commands"
  /\ pc' = "queue"
  /\ UNCHANGED <<job, buffer, pending, queue, flags, schedule, cycles, handled, shot, history>>

(* The raw frame in the buffer is encoded and sent again.                  *)
Retry ==
  /\ pc = "commands" /\ Waiting
  /\ job' = [kind |-> "retry", task |-> pending.task, place |-> 0, content |-> buffer]
  /\ pc' = "upload"
  /\ UNCHANGED <<buffer, pending, queue, flags, schedule, cycles, handled, shot, history>>

(* A retry that ends leaves the upload waiting, or clears it.              *)
RetryLeaves(still) ==
  /\ UploadEnds("retry", "queue")
  /\ IF still THEN pending' = [pending EXCEPT !.attempts = @ + 1] /\ UNCHANGED buffer
              ELSE pending' = NoUpload /\ buffer' = Erased
  /\ overlaid' = (overlaid /\ still)
  /\ UNCHANGED <<queue, flags, schedule, cycles, handled, shot,
                 moved, attempted, cut, stopped>>

(* Mutant of RetryEnds: an upload is never given up.                       *)
RetryEndsUncounted(ok) ==
  \/ ok /\ RetryLeaves(FALSE)
  \/ /\ ~ok /\ UploadEnds("retry", "queue")
     /\ UNCHANGED <<buffer, pending, queue, flags, schedule, cycles, handled, shot, history>>

(* _clear_pending_upload on success and after the last attempt.            *)
RetryEnds(ok) == RetryLeaves(~ok /\ pending.attempts + 1 < MaxAttempts)
------------------------------------------------------------------------------
(* One queued request is taken from the ring; while an upload waits it is  *)
(* answered with an error, and gone.                                       *)
ServeQueue ==
  /\ pc = "queue"
  /\ \/ queue # <<>> /\ queue' = Tail(queue)
        /\ \/ ~Waiting /\ Capture("queue", Head(queue), 0)
           \/ NoCapture("sequence")
     \/ queue = <<>> /\ UNCHANGED queue /\ NoCapture("sequence")
  /\ UNCHANGED <<pending, flags, schedule, cycles, handled,
                 overlaid, attempted, cut, stopped>>

(* The end of a queued or a button capture: the frame is erased, sent or   *)
(* not.                                                                    *)
CaptureEnds(kind, next) ==
  /\ UploadEnds(kind, next)
  /\ buffer' = Erased
  /\ UNCHANGED <<pending, queue, flags, schedule, cycles, handled, shot,
                 moved, overlaid, attempted, cut, stopped>>

(* The button is pressed, or not.                                          *)
ServeButton ==
  /\ pc = "button"
  /\ \/ ~Waiting /\ Capture("button", ButtonTask, 0)
     \/ NoCapture("ota")
  /\ UNCHANGED <<pending, queue, flags, schedule, cycles, handled,
                 overlaid, attempted, cut, stopped>>

(* Mutant of ServeSequence: begins although an upload waits.               *)
ServeSequenceAlways ==
  /\ pc = "sequence"
  /\ requested' = FALSE
  /\ IF requested
       THEN pc' = "shots" /\ abort' = FALSE /\ stopped' = FALSE
            /\ job' = [NoJob EXCEPT !.kind = "sequence", !.task = base]
       ELSE pc' = "button" /\ UNCHANGED <<abort, job, stopped>>
  /\ UNCHANGED <<buffer, pending, queue, base, ota, schedule, cycles, handled, shot,
                 moved, overlaid, attempted, cut>>

(* _do_capture_sequence: refused while an upload waits or when the camera  *)
(* does not start; otherwise the abort flag is cleared.                    *)
ServeSequence ==
  /\ pc = "sequence"
  /\ requested' = FALSE
  /\ \/ /\ requested /\ ~Waiting
        /\ pc' = "shots" /\ abort' = FALSE /\ stopped' = FALSE
        /\ job' = [NoJob EXCEPT !.kind = "sequence", !.task = base]
     \/ /\ pc' = "button"
        /\ UNCHANGED <<abort, job, stopped>>
  /\ UNCHANGED <<buffer, pending, queue, base, ota, schedule, cycles, handled, shot,
                 moved, overlaid, attempted, cut>>

(* Mutant of Shot: the abort flag is only looked at before the first one.  *)
ShotUnchecked ==
  /\ pc = "shots" /\ job.place < SequenceLength /\ (abort => job.place > 0)
  /\ \/ Capture("sequence", job.task, job.place)
     \/ /\ job' = [job EXCEPT !.task = @ + 1, !.place = @ + 1]
        /\ UNCHANGED <<pc, buffer, shot, moved>>
  /\ UNCHANGED <<pending, queue, flags, schedule, cycles, handled,
                 overlaid, attempted, cut, stopped>>

(* The next capture of the sequence; one that fails is left out.           *)
Shot ==
  /\ pc = "shots" /\ job.place < SequenceLength /\ ~abort
  /\ \/ Capture("sequence", job.task, job.place)
     \/ /\ job' = [job EXCEPT !.task = @ + 1, !.place = @ + 1]
        /\ UNCHANGED <<pc, buffer, shot, moved>>
  /\ UNCHANGED <<pending, queue, flags, schedule, cycles, handled,
                 overlaid, attempted, cut, stopped>>

ShotEnds ==
  /\ Uploading("sequence")
  /\ job' = [job EXCEPT !.task = @ + 1, !.place = @ + 1, !.content = Erased]
  /\ pc' = "shots"
  /\ UNCHANGED <<buffer, pending, queue, flags, schedule, cycles, handled, shot,
                 moved, overlaid, attempted, cut, stopped>>

SequenceEnds ==
  /\ pc = "shots" /\ (job.place = SequenceLength \/ abort)
  /\ buffer' = Erased
  /\ job' = NoJob
  /\ stopped' = FALSE
  /\ pc' = "button"
  /\ UNCHANGED <<pending, queue, flags, schedule, cycles, handled, shot,
                 moved, overlaid, attempted, cut>>
------------------------------------------------------------------------------
(* _do_ota_update, when requested, and the poll for a new version after    *)
(* it.  The download, if it begins, is written to s_image_buffer; nobody   *)
(* asks whether an upload waits there.                                     *)
ServeOta ==
  /\ pc = "ota"
  /\ pc' = "schedule"
  /\ ota' \in {FALSE, TRUE}
  /\ \/ ota /\ buffer' = Scratch /\ overlaid' = (overlaid \/ Waiting)
     \/ UNCHANGED <<buffer, overlaid>>
  /\ UNCHANGED <<job, pending, queue, requested, base, abort, schedule, cycles,
                 handled, shot, moved, attempted, cut, stopped>>

(* After a successful download the board swaps banks and starts afresh;    *)
(* any other reset does the same to what is in RAM.                        *)
Reset ==
  /\ pc' = "commands" /\ job' = NoJob
  /\ buffer' = Erased /\ pending' = NoUpload /\ queue' = <<>>
  /\ requested' = FALSE /\ base' = NoTask /\ abort' = FALSE /\ ota' = FALSE
  /\ tasks' = <<>> /\ index' = 0
  /\ attempted' = {} /\ cut' = FALSE /\ stopped' = FALSE /\ overlaid' = FALSE
  /\ handled < MaxCommands /\ handled' = handled + 1
  /\ UNCHANGED <<cycles, shot, moved>>
------------------------------------------------------------------------------
(* current_index++, and at the end of the schedule, as it is now, back to  *)
(* the first task and cycle_complete.                                      *)
Advance ==
  IF index + 1 >= Len(tasks) THEN index' = 0 /\ cycles' = 1 - cycles
                             ELSE index' = index + 1 /\ UNCHANGED cycles

(* Nothing to do, not due, or deferred for the upload that waits.          *)
SkipSchedule ==
  /\ pc = "schedule"
  /\ pc' = "commands"
  /\ UNCHANGED <<job, buffer, pending, queue, flags, schedule, cycles, handled, shot, history>>

(* A task is due.                                                          *)
RunTask ==
  /\ pc = "schedule"
  /\ index < Len(tasks) /\ ~Waiting
  /\ attempted' = IF index = 0 THEN {1} ELSE attempted \union {index + 1}
  /\ cut' = (cut /\ index # 0)
  /\ \/ Capture("schedule", Slot(index), index) /\ UNCHANGED <<index, cycles>>
     \/ NoCapture("commands") /\ Advance
  /\ UNCHANGED <<pending, queue, flags, tasks, handled,
                 overlaid, stopped>>

(* Mutant of TaskEnds: the frame is erased also when it is to be retried.  *)
TaskEndsErasing(ok) ==
  /\ UploadEnds("schedule", "commands")
  /\ pending' = IF ok THEN pending
                ELSE [size |-> buffer, task |-> Slot(job.place), attempts |-> 0]
  /\ buffer' = Erased
  /\ Advance
  /\ UNCHANGED <<queue, flags, tasks, handled, shot, moved, overlaid,
                 attempted, cut, stopped>>

(* A failed upload is registered for retry, under the id that is in the    *)
(* task's slot now; the frame is erased unless an upload waits.            *)
TaskEnds(ok) ==
  /\ UploadEnds("schedule", "commands")
  /\ pending' = IF ok THEN pending
                ELSE [size |-> buffer, task |-> Slot(job.place), attempts |-> 0]
  /\ buffer' = IF pending' = NoUpload THEN Erased ELSE buffer
  /\ Advance
  /\ UNCHANGED <<queue, flags, tasks, handled, shot, moved, overlaid,
                 attempted, cut, stopped>>
------------------------------------------------------------------------------
Init ==
  /\ pc = "commands" /\ job = NoJob /\ buffer = Erased /\ pending = NoUpload
  /\ queue = <<>> /\ requested = FALSE /\ base = NoTask /\ abort = FALSE /\ ota = FALSE
  /\ tasks = <<>> /\ index = 0 /\ cycles = 0 /\ handled = 0 /\ shot = "odd"
  /\ moved = FALSE
  /\ overlaid = FALSE /\ attempted = {} /\ cut = FALSE /\ stopped = FALSE

HandleCommand ==
  \/ \E id \in CaptureIds : CaptureNow(id)
  \/ \E id \in BaseIds : CaptureSequence(id)
  \/ \E s \in Schedules \union {<<>>} : ReceiveSchedule(s)
  \/ DeleteSchedule \/ FirmwareUpdate

(* A blocking upload ends: it has a deadline.                              *)
EndUpload ==
  \E ok \in BOOLEAN :
    \/ RetryEnds(ok) \/ ShotEnds \/ TaskEnds(ok)
    \/ CaptureEnds("queue", "sequence") \/ CaptureEnds("button", "ota")

Serve ==
  \/ SkipRetry \/ Retry \/ ServeQueue \/ ServeSequence \/ Shot
  \/ SequenceEnds \/ ServeButton \/ ServeOta \/ SkipSchedule \/ RunTask

Next == HandleCommand \/ EndUpload \/ Serve \/ Reset

Spec == Init /\ [][Next]_vars

(* The loop goes round, uploads end, and the tick a retry waits for comes. *)
FairSpec == Spec /\ WF_vars(Serve) /\ WF_vars(EndUpload) /\ SF_vars(Retry)
------------------------------------------------------------------------------
(* The frame of an upload that waits for its retry is neither overwritten  *)
(* nor erased, unless an OTA download was let into its buffer.             *)
PendingIntact == Waiting /\ ~overlaid => buffer = pending.size

(* What is uploaded is a captured frame, under the task it was captured    *)
(* for: not one that has been erased, nor another's.  A retry takes the id *)
(* from the new schedule if that came during the first attempt, and sends  *)
(* what an OTA download has left if that was let in.                       *)
UploadsItsFrame ==
  pc = "upload" /\ ~overlaid =>
    /\ job.content \in Frames
    /\ job.content.task = job.task \/ (job.kind = "retry" /\ moved)

(* cycle_complete means that every task of the schedule was begun, unless  *)
(* the schedule arrived during a task's upload: then its first task is     *)
(* passed over, or the cycle is reported without any.                      *)
CycleMeansAllTasks ==
  [][cycles' # cycles /\ ~cut' => attempted' = DOMAIN tasks']_vars

(* After a delete_schedule during a sequence no further frame of that      *)
(* sequence is captured.                                                   *)
AbortStops ==
  [][shot' # shot /\ job'.kind = "sequence" => ~stopped]_vars

(* An upload that waits is, in the end, done or given up.                  *)
PendingResolved == Waiting ~> ~Waiting
==============================================================================
