# Hesperus in TLA+

Hesperus is a camera board (STM32U585, an EMW3080 WiFi module behind SPI) and a server
(FastAPI, MQTT through Mosquitto, SQLite).  The board takes pictures on command or on a
schedule, uploads them over a bad link, and sleeps in between; the server sends commands,
receives images and keeps the schedules.  This directory models the parts in which messages,
retries, crashes and sleep meet.

Modules are checked by TLC on small instances (`tlc -config X.cfg M`) and some are proved
about by TLAPS for every value of their constants (`tlapm M.tla`).  `PROJECT.json` maps every
definition to the lines it models, and lists the runs, the hazards and the theorems.

## The system: inventory

| Component | State | Operations | Talks to |
|---|---|---|---|
| Upload, board (`wifi.c`, `WiFi_HttpPostImage`) | resolved id, offset, failures, probe flag, keep-alive socket | resume query, chunk POST, probe, /complete, deadline | upload handlers by HTTP; the MQTT client, from inside its waits |
| Upload, server (`routes.py`) | per id a `.tmp` and an `.offset` file | chunk, resume, complete, stale sweep | next_task_id, image store |
| Task ids (`benchmark/ids.py`) | a counter in the process | next_task_id | upload, agent, capture routes |
| Command chokepoint (`mqtt/client.py`) | `_board_state`, `_command_queue` | send_board_command, on_message, _flush_queue, cycle_complete | broker, scheduler database |
| MQTT client (`mqtt_handler.c`) | socket, `s_connected` | connect, subscribe, publish, process one packet, disconnect | broker; command callback in `main.c` |
| Super-loop (`main.c`) | sleep switch, publish failures, reconnect backoff | poll, heartbeat, reconnect, sleep and wake | all of the board |
| Capture ring (`main.c`) | `s_capture_queue`, head, tail | enqueue from the MQTT callback, dequeue in the loop | super-loop |
| Pending upload, image buffer (`main.c`) | `s_pending_upload_*`, `s_image_buffer` | capture, retry, abandon, OTA scratch | upload, camera, OTA |
| Schedule execution (`main.c`, `scheduler.c`) | `s_schedule`, completion flags, RTC alarm | receive, due, execute, cycle reset | super-loop, sleep |
| Capture sequence (`main.c`) | request, abort flag, delays | start, wait, abort | commands, upload |
| Button and status LED (`main.c`, `board_status.c`) | held flag, press tick, phase, override and its parked predecessor | interrupt, gesture poll, set, clear | credentials, portal |
| OTA (`ota_update.c`) | boot counter in a backup register, two banks | check, download, flash, swap, validate, mark | firmware endpoint |
| Persistence (`wifi_credentials.c`, `board_settings.c`) | one flash page in each bank | load, save, erase | portal, settings commands |
| Schedule service (`scheduler/service.py`) | schedules, tasks, `is_active` | create, activate, deactivate, delete, sweep | chokepoint, dashboard |
| Agent, planning, analysis, dashboard, benchmarks | | LLM calls, user interface | chokepoint, REST |

**What is hard.** The board is one thread with interrupts, but its network waits run the MQTT
callback, so a command lands in the middle of an upload.  A request the board gave up on may
still reach the server.  The server process may stop between two file operations, and its
counters and queue are in memory only.  MQTT is QoS 0 with clean sessions.  The board's view of
its connection and the server's view of the board are both late.

**What makes each part correct.**

- Upload: only whole images are stored, under an id they were offered under; success is
  reported only for a stored image; every call returns; a call on a good link succeeds.
- Commands: run at most once, in the order they were sent; the queue is not overtaken; a board
  that is awake becomes reachable.
- Ring: within capacity nothing is lost; beyond it the oldest request goes.
- Image buffer: a frame waiting for its retry is not touched by anything else.
- Schedule: each task runs once in a cycle; a deleted schedule runs no more; server and board
  agree on the active one when messages have settled.
- OTA: a firmware that cannot boot is rolled back; one that did is not.
- Button: a factory reset needs one continuous hold; overrides are restored in nesting order.
- Persistence: after power loss at any point there are valid credentials or none, never torn.

## Modules

| Module | What it is |
|---|---|
| `ImageTransfer` | the promise of an upload, abstract |
| `ChunkedUpload` | board and server of the resumable upload, and the link; implements `ImageTransfer` |
| `LossyFifo` | the promise of a command path, abstract: may lose, never repeats or reorders |
| `CommandDelivery` | chokepoint, broker, MQTT client, heartbeat and sleep; implements `LossyFifo` |
| `CaptureRing` | the ring with the arithmetic of the C code; implements `LossyFifo` |
| `ScheduleService` | requests about schedules cut at their awaits, the database, the link and the schedule the board runs |
| `ScheduleClock` | when the board runs a task: due window, stale tasks, alarm and STOP2 over a clock that goes round |
| `BoardLoop` | what the main loop does with `s_image_buffer`, with commands handled inside every upload |
| `CredentialPages` | the credentials page of each flash bank, rewritten in steps |
| `ButtonGesture` | the button's interrupt and the poll that makes gestures of it |
| `BoardBoot` | composes the last two with the boot, the boot counter, OTA's bank swap and the portal |
| `MC*` | the instances TLC checks |
| `ChunkedUploadProofs`, `LossyFifoProofs`, `CommandDeliveryProofs`, `CaptureRingProofs`, `ScheduleServiceProofs`, `ScheduleClockProofs`, `BoardLoopProofs`, `BoardBootProofs` | the theorems |

### ChunkedUpload

`StartUpload` to `DeadlineHit` are the exits of the steps of `WiFi_HttpPostImage`, in its order; `pc` says where
the call is: `resume` (query at entry), `chunk` and `await` (loop of phase 1), `probe`,
`complete` and `ack` (phase 2).  `Fail` is the code shared by every failing attempt (count,
give up, retry, maybe probe), and `Hangup` the closing of the socket.  `ReceiveChunk` and `ReceiveComplete` are whole handlers;
`Crash` covers the points between their file operations (`TornChunk`, `TornComplete`), and
`ReceiveCutChunk` the handler abandoned where it awaits the body.

The link is a channel with one request or reply.  When the board closes its socket, the
request is lost or stays under way in one of `Slots`, to arrive at any later time: the
server's access log, quoted in `wifi.c:1294`, shows exactly this.  Replies on closed sockets are never read.

Data is abstracted to chunks: an image is a length and a name, a file says of each chunk which
image it came from or that it is a hole, and the CRC is equality (a collision is taken to be
impossible).  All images differ in every chunk, which is the worst case for mixing.  The resume query
is answered at one instant: it is a read, so a late answer is an older state, and the board
waits for it on a socket of its own. JPEG, timing, backoff and authentication are left out.
Fallback ids (0 and 10000-40000) are one marker.

- `TypeOK`.
- `OffsetIsContiguous`: the comment at `routes.py:376`, for all interleavings.  A file that a
  crash truncated beside the offset of its previous contents is excepted; `torn` names it.
- `CleanCallSucceeds`: if nothing went wrong on the link and the server, and no foreign partial
  was under the id, the call does not return an error.  `clean` is a history variable every
  action for a fault lowers.
- `CallReturns` (liveness): every call gives the main loop back.
- `TransferRefined`: refinement of `ImageTransfer`, whose `WholeImagesOnly` and `SuccessIsStored` are
  what a caller gets from it.
- `CompleteRetryRevalidates`, `TrackedOffsetKept`: what comments and tests say, refuted below.

### CommandDelivery

`SendCommand`, `NoteStatus`, `FlushQueue` are the chokepoint; `Publish` and `LoseStatus` the broker;
`HeartbeatSent`, `HeartbeatFails`, `HeartbeatOffline` the heartbeat of the super-loop with its
counter of failed publishes; `GoDormant` and `Wake` the two halves of the sleep branch around
STOP2; `Reset` and `Boot` a restart of the board.  A session at the broker is `none`, `open` or
`subscribed`, because nothing looks at whether subscribing worked after the boot.
`ProcessLoop(k, intact)` reads `k` packets at once and handles the first: the code looks only at
the start of its buffer.  The commands themselves are `arm` and `disarm` (sleep mode) or other.

- `TypeOK`.
- `QueueOnlyWhileDormant`: commands are never published past waiting ones.
- `FifoRefined`: refinement of `LossyFifo` with what is in the stream and in the queue pending;
  `InOrder` is what that gives: commands run at most once and in the order sent.
- `AwakeIsReachable` (liveness): the "escape hatch" of `main.c:1988`.
- `DormantNeverLost`: the README's promise, refuted below.

### CaptureRing

`Count` is `(uint8_t)((head - tail) % SIZE)` with C's promotion to int, a remainder that
truncates toward zero and a cast back.  `Enqueue` and `Dequeue` never interleave within
themselves (both run in the main thread), so they are single actions.

### ScheduleService

A request (route, agent tool or the `cycle_complete` handler) is a coroutine with a database
session of its own, and every `await` of the code is a step: `Begin` starts one, `step` says where
it waits, and what it has read stays in its record (`known`, `saw`, `payload`).  `List` and `Commit` are
the halves of `activate_schedule`: the session updates the rows it *saw* active, and rolls back if
one is gone.  A row the session still holds keeps the values it was first read with
(`expire_on_commit=False`), whatever later queries return.  That matters for `create_schedule` of the
agent: `Browse` reads all rows and holds them (`known`) for a note about the active one, `Insert`
stores the new schedule, and the `List` of its activation goes by what `Browse` saw.  The other requests
that store one are `Create`: `POST /schedules`, and the capture sequences, which hold no earlier read.  `Refresh` and `Publish` read and send the tasks; `Clear` sends `delete_schedule`,
whichever schedule the request was about, because the board clears the one it runs without
looking at the id.  `wire` is the command channel; its losses are `Lose`, and `BoardReset` is a
board that forgets a schedule kept in RAM, which nothing sends again.  `Restart` is a stop of the server: requests under way are
gone, and `cleanup_stale_schedules` deletes inactive rows at the next start.  Task lists are edition
numbers; a row created under the id of a deleted one (SQLite hands ids out again) is a new edition.

History variables name the reasons for which a property is excused.  `overtaken` holds the requests
that have read what is active, to activate one by it, before another activation committed; `raced`
says that the last activation to commit was one of them.  `trouble`: `overlap` (requests ran at the same time), `loss`,
`reset` (the board forgot its schedule), `quick` (a capture sequence stored as an active schedule the board is never sent),
`misdirected` (a `delete_schedule` sent while another schedule was active), `cycle` (a
`cycle_complete` deactivated everything).

- `TypeOK`; `OneActive`: two schedules are active only if the last activation was overtaken.  The
  next one that nobody overtakes leaves its target alone, whatever earlier ones left behind.
- `ActiveRuns`: when all is quiet the active schedule is the one the board runs, in its last edition.
- `RunningIsActive`: when all is quiet the board runs nothing the database shows inactive, also
  after resets of the board and misdirected `delete_schedule`s: both only leave it with less to run.

### ScheduleClock

`Tick` moves an RTC of `Day` ticks; a loop that is free has looked at the schedule (`polled`)
before it does, and a loop that is `away` (in a blocking call) or `asleep` has not.  `lag` counts the
ticks of blocking calls since the loop looked last, or woke.  All the work of an iteration comes
before that look: `RetryUpload`, `Heartbeat` with the reconnection, and `ServeWork`, which stands for
PS-REST, the capture queue, sequences, the button, OTA and its check, new credentials and the ping;
each may come at any time, take any number of ticks, and a capture among them may leave a frame to
retry.  So a command the server had queued for a sleeping board is served before the task the board
woke up for, and may outlast its window.  What ends in a reset (the portal, a finished OTA) is
`BoardBoot`'s; here it would only be `Init` again.
`RunTask`, `Defer`, `Idle` and `SetNextAlarm` are the exits of the scheduled-task block;
`SetNextAlarm` skips the stale tasks for good, as `Scheduler_SetNextAlarm` writes `current_index`.

- `TypeOK`; `AwakeRunsOnce`: a board that never sleeps runs a task once in its window, for
  schedules whose first and last window are apart.  A schedule of a single task does not meet that:
  the index returns to 0 with the window still open, and the task runs again at once, although
  `main.c:1948` says "completed for today".  In sleep mode that happens to every schedule's last task.
- `NoOversleep`: the alarm is not later than a task of this day that is still to run.  Only an alarm
  of the same day is meant (`now <= alarm`): tasks are sorted by time of day (`scheduler.c:195`), so a
  schedule for 23:00 and 01:00 received in the evening waits for 01:00 and sleeps past 23:00.
- `AwakeKeepsRunning` (liveness): a board that is never told to sleep runs each task again and again.
  It is not enough that the loop goes round: other work may cover a window every day.  The premise
  `LooksAround(t)` is that around each time of day the loop looks at the schedule on infinitely many
  days, with no frame waiting; what follows from it is that the index never gets stuck, at
  a task that was missed or behind the last one.  In sleep mode a schedule whose tasks are all stale
  leaves the index at the end, where nothing sets it back (`scheduler.c:248`), and is dead.
- `WakesAndRuns` (liveness): a board that slept to a task, with no frame waiting, runs it, unless
  the task is `Covered`: the window closes on a loop that was in blocking calls since it woke or
  looked last, for longer than the window, or a frame left by one of them waits in the window.

### BoardLoop

`pc` goes through one iteration: commands and retry, queued capture, sequence, button, OTA,
schedule.  `upload` is a blocking `WiFi_HttpPostImage`; commands come at the top of the loop and
inside every upload, since that calls `MQTT_ProcessLoop`.  A frame is the task it was captured for
and a parity, `Erased` or an OTA download's `Scratch`; `job.content` is what the upload sends.
What is read again after the upload (`Slot(job.place)`, `Advance`) is read from the schedule as it
then is.

- `TypeOK`; `PendingIntact`: a frame waiting for its retry stays in the buffer.  The exception,
  `overlaid`, is real: `_do_ota_update` downloads into the buffer without asking whether an upload
  waits there, so the comment at `main.c:133-138` ("byte-identical") does not hold after a failed
  download.
- `UploadsItsFrame`: what is sent is a captured frame under the task it was captured for.  A schedule replaced
  during the first attempt gives the retry another id (`moved`).
- `CycleMeansAllTasks`: `cycle_complete` follows an attempt at every task, unless the schedule
  arrived during a task's upload (`cut`): then its first task is passed over, or the cycle is
  reported without any.
- `AbortStops`: no frame is captured after a `delete_schedule` that came during the sequence.  One
  that comes between request and start is lost: the start clears the flag (`main.c:2804`).
- `PendingResolved` (liveness): the wait for a retry ends.

### CredentialPages, ButtonGesture, BoardBoot

`CredentialPages`: a rewrite erases bank 1, bank 2, then programs the active address and the other;
power may go at each (`Cut`).  `may` holds what may load by what was asked, `faulty` says that the
last rewrite met a flash error: those are only logged, and one page of two is a success, so the
other page may keep the past.

`ButtonGesture`: the poll is `Sample`, `Decide`, `Resolve`, because the interrupt may rewrite the
flag and the tick between its reads.  `down` is the time the button has really been down.

`BoardBoot`: the boot in the order of `main`; `Reset` and `PowerLoss` come between any two steps.
Images are `good`, `bad` (never reach `OTA_MarkBootSuccessful`) or `torn`.

- `TypeOK`; `SavedIsLoaded`: what loads is what was saved last; a rewrite that was cut off leaves
  old, new or nothing, and no older pair.
- `BootsWhole`: the active bank was flashed to the end.  This holds because the only swap that ever
  happens follows a complete write: the boot counter never triggers one (below).  A counter that
  worked could go back to a bank that an interrupted update left torn, and would count server
  outages and visits to the portal as failed boots.
- `SwapKeepsCredentials`: a bank swap loads the same credentials, without a flash error.
- `ResetNeedsHold`: a factory reset takes an unbroken hold of the commit time, with its warning
  unless a blocking call kept the loop from polling.  A tap that comes between the two reads of the poll that was
  to see an earlier press released is the exception (`struck`): the comment at `main.c:2344`
  ("can never fire from a stray tap") leaves out that window of a few instructions.
- `RollsBack`: what the documentation says, refuted below.

## Runs and bounds

| Run | Checks | Instance |
|---|---|---|
| `upload` | all of `ChunkedUpload`'s properties under `FairSpec`, about 480 000 states | images of 2 and 3 chunks, one task id and the marker, 2 ids, 1 retry, 1 request under way from a closed socket, 2 calls, 1 fault |
| `ring` | `CaptureRing`, about 8 000 states | 4 slots, 8 requests |
| `delivery` | `CommandDelivery` under `FairSpec`, about 64 000 states | 3 commands, 2 statuses under way, 1 restart or reset, 2 publish failures |
| `schedules` | `ScheduleService`, about 2 070 000 states | 2 schedules, 2 coroutines, 4 requests, 2 editions, 2 commands on the wire |
| `schedule_clock` | `ScheduleClock` under `FairSpec`, about 295 000 states | a day of 8 ticks, window 1, all schedules of 1 and 2 times, 3 ticks away, 1 retry |
| `board_loop` | `BoardLoop` under `FairSpec`, about 140 000 states | schedules of 2 and 1 tasks, a sequence of 2, a queue of 1, 2 attempts, 4 commands or resets |
| `board_boot` | `BoardBoot`, about 1 060 000 states | 2 pairs of credentials, button times 1, 2, 3, counter limit 2 |
| `upload_complete_retry` | violation of `CompleteRetryRevalidates` | 1 call, no fault |
| `upload_tracked_offset` | violation of `TrackedOffsetKept` | 1 call, no fault |
| `ring_overflow` | violation of `NewestKept` | as `ring` |
| `delivery_dormant` | violation of `DormantNeverLost` | as `delivery`, under `SteadySpec` |
| `boot_rollback` | violation of `RollsBack` | 1 pair of credentials, counter limit 3 |

Two lengths let a partial of one image be resumed, overrun or refused by the other; two calls
let the second meet what the first left; one slot lets an old request meet a new one; two
ids let the marker's id collide with a task's after a restart.  One fault is a crash or a reset at any point, and the
losses of the link are not bounded.  Four slots and eight requests take the ring round its
end twice.  Three commands are the fewest with one queued, one flushed and one overtaking.
Two coroutines are the fewest
that overlap, and four requests allow two schedules to be created, one to be activated and a
second request to come in between, or the agent's `create_schedule` to be overtaken between its first read and its
commit; with symmetry over both.  A window of 1 in a day of 8
leaves room for tasks in one window, in adjacent ones, in the past half day and in the next, and three
ticks away cover a whole window (one tick before to one after).  Two schedules of different length let one replace the other
beyond its end; four commands are a schedule, a change of it inside an upload and two more.  A
queue of one slot overflows at the second request.  The button's three times are as near
as they can be.  Where a run says `CHECK_DEADLOCK FALSE` the instance stops because its calls, or its commands,
are used up.

The passing runs are what the inductive invariants, below, were found with.  A definition called a
mutant in its comment is a plausible bug of the code; it is used nowhere, and putting it in
the place of the definition after it makes the property named in `PROJECT.json` fail.

## What the violations show

- A `/complete` whose answer was lost is answered 404 when it is retried, because the files are
  removed before processing.  The board reports a stored image as failed and sends it again.
- A first chunk that lands again, late, truncates a transfer that has moved on.  The refinement
  still holds: no wrong image gets stored.
- A ring that is full with its head below its tail is not seen to be full.  The next request
  empties it.
- With a perfect network, two commands queued during sleep are flushed at once, read at once,
  and the second is dropped.
- A firmware that never comes up is booted for the fourth time, and for ever: `RTC_Init` resets
  the backup domain, where the boot counter is, on every boot before `OTA_ValidateBoot` reads it.

Disagreements seen while modelling and given no run of their own are in the exceptions
named above (`overlaid`, `struck`, the single task of a day, two active schedules after an overtaken
activation although `service.py:167` deactivates "all others"), and one more:
`captive_portal.c:659-661` says a failed connection "re-enters captive portal automatically", which
`main.c` has disabled; it retries for ever, until the button is held.

## Fairness

`ChunkedUpload`: weak fairness of the board's steps, taken together.  The super-loop has one
thread and all waits in the call are bounded (`HTTP_RESPONSE_TIMEOUT_MS`, the socket stall
limit, connect timeouts), and each ends in one of those steps.  Nothing is assumed of the
network or the server.

`CommandDelivery`: the heartbeat is due every few seconds in the super-loop, so `HeartbeatFails`
is weakly fair.  Strong fairness of `Boot`, of `HeartbeatSent`, of a reconnect that connects and of
`ReceiveStatus` says that the network is not down for ever: what is tried again and again
works at some time.  It is not assumed that a subscription is ever made on a reconnect, since the code does not
try again after a failed one.

`ScheduleClock`: the alarm and the return from a blocking call are weakly fair: waits are bounded.
The loop's look at the schedule (`Poll`) is strongly fair.  Other work switches it off and on, but
an iteration does each of its works at most once and then looks, in one thread, so it cannot be put off for ever; how
long it is put off is not bounded beyond `MaxAway`.  `Tick` is strongly fair, because it is switched
off and on while a look is outstanding.  Retries, heartbeats, work and commands need not come.

`BoardLoop`: weak fairness of the loop and of the end of an upload (it has a deadline), strong
fairness of `Retry`: the tick a retry waits for is reached, so the test for it succeeds at some
turn of the loop.  How long PS-REST, which stops that tick, puts it off is not modelled.

## What is proved

For every value of the constants, within the named assumptions of the modules
(`UploadConstants`, `DeliveryConstants`, `RingConstants`, `ScheduleConstants`, `ClockConstants`,
`LoopConstants`, `CredentialConstants`, `ButtonConstants`, `BootConstants`):

- `ChunkedUploadProofs`: `TypeCorrect`, `ContiguousAlways`, `TransferImplemented`, `StoreIsSound`,
  `CleanSucceeds`.
  Types alone are inductive.  Contiguity needs them: a chunk is written only at the tracked
  offset or into a fresh file, so the prefix stays filled; the steps of a crashed handler are
  taken one at a time, and the one that truncates is the one `torn` excuses.  The refinement
  needs `Exchange`, of three parts: `CallOffered` (what a running call sends was offered, and its
  task is the one asked for unless that was the marker), `RequestsOffered` (the image of every
  request under way, on any socket, may be stored under the id it names), and `LiveExchange`
  (what is on the live socket fits the step the call waits in, and a positive answer to
  `/complete` there means the image is in the store).  One lemma shows that every step keeps
  them; then every action maps to a step of `ImageTransfer` or to a stutter.  `StoreIsSound` takes
  the promise back from the abstract module: its two invariants are proved of `TransferSpec` and
  hold of the upload by the refinement.  A clean call succeeds by `CleanCall`, which says what it
  cannot meet: while `clean` holds no request of an earlier call is under way, the call does not probe,
  and once it has sent chunks the server holds exactly the first `offset` of this image (`Prefix`),
  so each chunk is taken at the offset it is sent for (`ChunkTaken`), its acknowledgement moves the
  offset on (`CleanAck`), and the `/complete` finds a file as long as the image (`WholeAccepted`).
  TLC checked `CleanCall` as an invariant of the instance before the proof.
- `LossyFifoProofs`: `FifoKeepsOrder`, on the abstract module alone.  The order is not inductive; it
  needs `Sorted`: what is pending is in order too and comes after what was handled.  Leaving elements
  out keeps that (`LeftIsSorted`).  `CommandsInOrder` and `DequeuedInOrder` carry it over to the
  two modules that implement the FIFO, through an instance of this proof module.
- `CommandDeliveryProofs`: `TypeCorrect`, `QueueDiscipline`, `FifoImplemented`, `CommandsInOrder`.  The queue
  discipline follows from `NoteStatus` alone once typed.  The refinement is about sequences: `LeavesOut`
  (defined by an increasing embedding) is reflexive, holds for a prefix cut off and for the queue
  without the stream, and is shown for each way an action drops commands.
- `CaptureRingProofs`: `TypeCorrect`, `NothingLost`, `FifoImplemented`, `DequeuedInOrder`.  The types need `Written`
  (what is held was written), or a dequeue could return a number nobody sent.  `EnqueueContents`
  takes the C arithmetic apart into its three outcomes (one more held, the oldest lost, all lost:
  `SeenFull` says that a full ring is recognised only with its head not below its tail); the
  rest is about sequences: `Exact` says that the numbers dequeued and held run from 1 to `sent`.
- `ScheduleServiceProofs`: `Typing`, `OneActiveHolds`, `ActiveIsRun`, `RunIsShown`.  One active schedule is not inductive; it needs
  `ListingIsCurrent`: of a request that is not `overtaken`, at its commit whatever is active is in what it saw, so
  only its target is left; and before that, of the rows it holds those that are active are in what it saw, since `List`
  reads only the others anew.  `NothingActivated` covers every action that only takes rows away.  That database and
  board agree when all is quiet speaks of no state in between, so each half needs an invariant that does.
  `Alone`: without `overlap` at most one request works.  `Last` is what the board will run once the
  wire is empty.  `Told`: with no request at work every active schedule is `Due` (it is `Last`, in
  its edition), and a request at work excepts, from the step it is at, only the schedule it still has
  to tell the board about.  `Shown`: `Last` is active, except while a request has still to publish
  (then its schedule is) or to clear.  Each has a case for a request that begins, one that goes
  on at each of its awaits, and the rest.
- `ScheduleClockProofs`: `TypeCorrect`, `SleepsToTheNext` (from `Alarmed`: while the board sleeps the
  alarm is the task at the index, and the tasks are in the order of the day), `RunsOnceAwake` (from
  `Once`: a task that ran and whose window has stayed open since is before the index, or the index
  is back at 0 and the last task's window has been open since; the windows of the first and the last
  task are apart, so the clock cannot be in both).
- `BoardLoopProofs`: `TypeCorrect`, `PendingFrameIntact`, `UploadsCapturedFrame` (from `Owned`:
  while an upload waits the buffer is its frame and only a retry runs; and `Labelled`: a
  frame and the place it was captured for agree until the schedule changes), `CompleteMeansComplete`
  (`Begun`: the tasks begun are those up to the index), `AbortedSequenceStops` (`Halted`: a stopped sequence
  has its abort flag set).
- `BoardBootProofs`: `TypeCorrect`, `LoadsWhatWasSaved`, `AlwaysBootsWhole`, `SwapIsTransparent`,
  `HoldResets`.  `StepSplits` takes a step of the whole apart into one of the pages and one of the
  button, so each has an inductive invariant of its own.  `PagesInv` says where a rewrite is (`Shape`),
  what the pages it has passed hold (`Progress`), that pages agree between faultless
  rewrites (`Agree`), and that the new pair may load while it is written (`Allowed`).
  `ButtonInv` relates the time the code measures to the time the button is down: a held button is
  down at least as long as the code's count.  `FirmwareInv`: only the bank that is not active is ever torn, and
  the counter is below its limit whenever it is compared.

The proofs assume nothing of TLC's bounds: `MaxCalls`, `MaxSent` and so on are any naturals.

Every safety invariant and every action property of the passing runs has its theorem.  Only
model-checked: the liveness properties `CallReturns`, `AwakeIsReachable`, `PendingResolved`,
`AwakeKeepsRunning` and `WakesAndRuns`, as temporal reasoning under fairness is beyond the provers here.

## Not modelled

`upload_async.c` is dead code by its own header.  The camera, the JPEG encoder, the portal's access
point and pages and the OTA download's sockets are hardware or I/O.  The LLM agent, planning and analysis
reach the board only through the chokepoint and the requests of `ScheduleService`.  Dashboard,
benchmarks and deployment hold no authority.  HAL, BSP, MX_WIFI and cJSON are third-party and appear
as their callers use them; they are nine tenths of the repository's lines.

The LED's priorities and overrides (`board_status.c`) decide nothing.  The settings page and the DHCP lease are
each one value with a checksum.  The marks `completed_at` that an upload sets on tasks
(`routes.py:291`) decide only which inactive schedules the clean-up at a start deletes, and `Restart`
leaves that open.
`main.c` tests `s_ota_in_progress` in several places where it cannot be set, as the update does not
return to the loop; those guards are left out.  A schedule too large to parse leaves everything as
it was, which is a stutter.  The delays of a sequence are read from an array a second request may
rewrite; only times depend on it.

## Plan

What is left, in the order of importance.

1. Composition of `BoardLoop` and `ScheduleClock`: the retry's delay in ticks that PS-REST stops.
2. The LED's overrides with the portal and the factory-reset warning (`board_status.c:128`).
3. The sockets of an OTA download (`ota_update.c:659`) against the module's limit.
