---------------------------- MODULE ScheduleClock ----------------------------
(***************************************************************************)
(* When the board runs the tasks of its schedule: the due window of the    *)
(* main loop, the stale tasks that Scheduler_SetNextAlarm skips, the alarm *)
(* it sleeps to in STOP2, and the loop being away in an upload, a retry, a *)
(* reconnection or the other work of an iteration while the clock goes on. *)
(*                                                                         *)
(* The RTC is a clock of Day ticks that goes round.  While the loop is     *)
(* free it looks at the schedule at least once in a tick; in an iteration, *)
(* everything else it does comes before that look.                         *)
(***************************************************************************)
EXTENDS Integers, Sequences, Functions

CONSTANTS Day,           \* ticks of a day (86400 s)
          Window,        \* ticks of the due window, on each side (30 s)
          MaxTasks,      \* bound: tasks of a schedule (MAX_SCHEDULED_TASKS)
          MaxAway,       \* bound: ticks between two looks at the schedule
          MaxAttempts    \* UPLOAD_RETRY_MAX_ATTEMPTS

ASSUME ClockConstants ==
  /\ {Day, Window, MaxTasks, MaxAway, MaxAttempts} \subseteq Nat \ {0}
  /\ 4 * Window < Day

Times == 0..(Day - 1)

VARIABLES now,           \* the RTC
          tasks,         \* times of s_schedule.tasks
          index,         \* s_schedule.current_index
          armed,         \* s_sleep_enabled
          mode,          \* "polling", "away" (in a blocking call) or "asleep"
          alarm,         \* RTC alarm A
          pending,       \* attempts left for the upload that waits, 0: none
          polled,        \* the loop has looked at the schedule in this tick
          lag,           \* ticks in blocking calls since it last looked, or woke
          ran,           \* history: tasks run in the window that is open now
          repeated       \* history: tasks run twice in one window

vars == <<now, tasks, index, armed, mode, alarm, pending, polled, lag, ran, repeated>>

TypeOK ==
  /\ now \in Times /\ alarm \in Times
  /\ tasks \in Seq(Times) /\ Len(tasks) <= MaxTasks
  /\ index \in 0..Len(tasks)
  /\ mode \in {"polling", "away", "asleep"}
  /\ pending \in 0..MaxAttempts /\ lag \in 0..MaxAway
  /\ armed \in BOOLEAN /\ polled \in BOOLEAN
  /\ ran \subseteq DOMAIN tasks /\ repeated \subseteq DOMAIN tasks
------------------------------------------------------------------------------
(* Mutant of InWindow: no window for a task that is just past.             *)
InWindowAhead(t, n) == (t - n) % Day <= Window

(* The difference to the task's time, modulo a day, is small either way.   *)
InWindow(t, n) == LET diff == (t - n) % Day IN diff <= Window \/ diff >= Day - Window

HasTask == index < Len(tasks)
Due == HasTask /\ InWindow(tasks[index + 1], now)

(* Scheduler_SetNextAlarm: in the past half day, but not in the window.    *)
Stale(t) ==
  LET raw == IF t - now < -(Day \div 2) THEN t - now + Day ELSE t - now
  IN raw < -Window

(* Where skipping ends: the tasks before k are stale, the one there is not. *)
SkipsTo(k) ==
  /\ \A i \in index..(k - 1) : Stale(tasks[i + 1])
  /\ k < Len(tasks) => ~Stale(tasks[k + 1])

(* The tasks of a schedule by time of day (_sort_tasks_by_time).           *)
Sorted(s) ==
  {t \in {[i \in DOMAIN s |-> s[order[i]]] : order \in Bijection(DOMAIN s, DOMAIN s)} :
     \A i, j \in DOMAIN s : i <= j => t[i] <= t[j]}

(* The loop has looked at the schedule; the loop blocks.                   *)
Looked == lag' = 0
Away == mode' = "away" /\ polled' = FALSE
------------------------------------------------------------------------------
(* Mutant of ReceiveSchedule: the tasks are not sorted.                    *)
ReceiveUnsorted(s) ==
  /\ mode = "polling" /\ tasks = <<>>
  /\ tasks' = s
  /\ index' = 0
  /\ polled' = FALSE
  /\ UNCHANGED <<now, armed, mode, alarm, pending, lag, ran, repeated>>

(* Scheduler_ParseJSON sorts the tasks by time of day.  A schedule that    *)
(* replaces another starts from the same state, at any time of day.        *)
ReceiveSchedule(s) ==
  /\ mode = "polling" /\ tasks = <<>>
  /\ tasks' \in Sorted(s)
  /\ index' = 0
  /\ polled' = FALSE
  /\ UNCHANGED <<now, armed, mode, alarm, pending, lag, ran, repeated>>

(* sleep_mode                                                              *)
SetSleepMode ==
  /\ mode = "polling"
  /\ armed' = ~armed
  /\ polled' = FALSE
  /\ UNCHANGED <<now, tasks, index, mode, alarm, pending, lag, ran, repeated>>

(* Due, but an earlier frame still waits for its upload.                   *)
Defer ==
  /\ mode = "polling" /\ Due /\ pending > 0 /\ ~polled
  /\ polled' = TRUE
  /\ Looked
  /\ UNCHANGED <<now, tasks, index, armed, mode, alarm, pending, ran, repeated>>

(* Mutant of RunTask: the index goes on past the last task.                *)
RunTaskNoReset ==
  /\ mode = "polling" /\ Due /\ pending = 0
  /\ ran' = ran \union {index + 1}
  /\ repeated' = repeated \union (ran \intersect {index + 1})
  /\ index' = index + 1
  /\ pending' \in {0, MaxAttempts}
  /\ Away /\ Looked
  /\ UNCHANGED <<now, tasks, armed, alarm>>

(* Mutant of RunTask: the index only moves on if the upload succeeded.     *)
RunTaskUntilUploaded ==
  /\ mode = "polling" /\ Due /\ pending = 0
  /\ ran' = ran \union {index + 1}
  /\ repeated' = repeated \union (ran \intersect {index + 1})
  /\ pending' \in {0, MaxAttempts}
  /\ index' = IF pending' = 0 THEN (index + 1) % Len(tasks) ELSE index
  /\ Away /\ Looked
  /\ UNCHANGED <<now, tasks, armed, alarm>>

(* Capture and upload; after the last task the index goes back to 0.       *)
RunTask ==
  /\ mode = "polling" /\ Due /\ pending = 0
  /\ ran' = ran \union {index + 1}
  /\ repeated' = repeated \union (ran \intersect {index + 1})
  /\ index' = (index + 1) % Len(tasks)
  /\ pending' \in {0, MaxAttempts}
  /\ Away /\ Looked
  /\ UNCHANGED <<now, tasks, armed, alarm>>

(* _service_pending_upload                                                 *)
RetryUpload ==
  /\ mode = "polling" /\ pending > 0
  /\ pending' \in {0, pending - 1}
  /\ Away
  /\ UNCHANGED <<now, tasks, index, armed, alarm, lag, ran, repeated>>

(* The heartbeat, and the reconnection of WiFi and MQTT when it fails.     *)
Heartbeat ==
  /\ mode = "polling"
  /\ Away
  /\ UNCHANGED <<now, tasks, index, armed, alarm, pending, lag, ran, repeated>>

(* What an iteration does before it looks at the schedule: a rest          *)
(* (PS-REST), a queued capture, a sequence, the button, OTA and its check, *)
(* new credentials, a ping.  A capture is refused while a frame waits, and *)
(* may leave one.  What ends in a reset of the board is not followed here. *)
ServeWork ==
  /\ mode = "polling"
  /\ pending' \in IF pending = 0 THEN {0, MaxAttempts} ELSE {pending}
  /\ Away
  /\ UNCHANGED <<now, tasks, index, armed, alarm, lag, ran, repeated>>

(* Nothing due, and no reason to sleep.                                    *)
Idle ==
  /\ mode = "polling" /\ ~Due /\ ~polled
  /\ ~armed \/ ~HasTask
  /\ polled' = TRUE
  /\ Looked
  /\ UNCHANGED <<now, tasks, index, armed, mode, alarm, pending, ran, repeated>>

(* Sleep mode: stale tasks are skipped, for good.  If none is left, or the *)
(* alarm cannot be set, the loop goes on; if the next one is due the next  *)
(* iteration runs it; otherwise the alarm is set and STOP2 entered.        *)
SetNextAlarm ==
  /\ mode = "polling" /\ ~Due /\ armed /\ HasTask /\ ~polled
  /\ \E k \in index..Len(tasks) :
       /\ SkipsTo(k)
       /\ index' = k
       /\ LET none == k = Len(tasks)
              due == ~none /\ InWindow(tasks[k + 1], now)
          IN \/ /\ ~none /\ ~due
                /\ mode' = "asleep"
                /\ alarm' = tasks[k + 1]
                /\ UNCHANGED polled
             \/ ~due /\ polled' = TRUE /\ UNCHANGED <<mode, alarm>>
             \/ due /\ UNCHANGED <<mode, alarm, polled>>
  /\ Looked
  /\ UNCHANGED <<now, tasks, armed, pending, ran, repeated>>

(* The alarm, or B3, ends STOP2; both reconnect, B3 also disarms.          *)
WakeOnAlarm ==
  /\ mode = "asleep" /\ now = alarm
  /\ Away /\ lag' = 0
  /\ UNCHANGED <<now, tasks, index, armed, alarm, pending, ran, repeated>>

WakeOnButton ==
  /\ mode = "asleep"
  /\ armed' = FALSE
  /\ Away /\ lag' = 0
  /\ UNCHANGED <<now, tasks, index, alarm, pending, ran, repeated>>

Return ==
  /\ mode = "away"
  /\ mode' = "polling"
  /\ UNCHANGED <<now, tasks, index, armed, alarm, pending, polled, lag, ran, repeated>>

(* Mutant of Tick: the clock does not go round.                            *)
TickOn ==
  /\ mode = "polling" /\ polled /\ lag' = 0
  /\ now' = now + 1
  /\ polled' = FALSE
  /\ ran' = {}
  /\ UNCHANGED <<tasks, index, armed, mode, alarm, pending, repeated>>

(* Time goes on: not before a free loop has looked at the schedule, not    *)
(* past the alarm of a sleeping board.                                     *)
Tick ==
  /\ \/ mode = "polling" /\ polled /\ lag' = 0
     \/ mode = "away" /\ lag < MaxAway /\ lag' = lag + 1
     \/ mode = "asleep" /\ now # alarm /\ lag' = 0
  /\ now' = (now + 1) % Day
  /\ polled' = FALSE
  /\ ran' = {i \in ran : InWindow(tasks[i], now')}
  /\ UNCHANGED <<tasks, index, armed, mode, alarm, pending, repeated>>
------------------------------------------------------------------------------
Init ==
  /\ now \in Times /\ alarm = 0
  /\ tasks = <<>> /\ index = 0
  /\ armed \in BOOLEAN
  /\ mode = "polling" /\ pending = 0 /\ polled = FALSE /\ lag = 0
  /\ ran = {} /\ repeated = {}

Poll == Defer \/ RunTask \/ Idle \/ SetNextAlarm

Next ==
  \/ \E n \in 1..MaxTasks : \E s \in [1..n -> Times] : ReceiveSchedule(s)
  \/ SetSleepMode \/ Poll \/ RetryUpload \/ Heartbeat \/ ServeWork
  \/ WakeOnAlarm \/ WakeOnButton \/ Return \/ Tick

Spec == Init /\ [][Next]_vars

(* The loop goes round: blocking calls end, and an iteration does each of  *)
(* the other things at most once before it looks at the schedule, so that  *)
(* look comes however often it is put off.  Time passes: a tick that is    *)
(* possible again and again comes.                                         *)
Fairness ==
  /\ WF_vars(WakeOnAlarm) /\ WF_vars(Return)
  /\ SF_vars(Poll) /\ SF_vars(Tick)

FairSpec == Spec /\ Fairness
------------------------------------------------------------------------------
(* The windows of the first and the last task are apart, around the clock. *)
Apart ==
  tasks # <<>> =>
    LET gap == tasks[Len(tasks)] - tasks[1] IN 2 * Window < gap /\ gap < Day - 2 * Window

(* A board that is never told to sleep runs a task once in its window      *)
(* (main.c:1948: "completed for today"), if the windows of the first and   *)
(* the last task do not meet.  The index goes back to 0 with the last      *)
(* window still open: a schedule of one task runs it again at once, and in *)
(* sleep mode every schedule runs its last task again, as the tasks before *)
(* it are skipped as stale.                                                *)
AwakeRunsOnce == [](~armed) => [](Apart => repeated = {})

(* A sleeping board does not sleep past a task of this day that it still   *)
(* is to run: the alarm is that of the next one.  Across midnight it does: *)
(* the tasks are sorted by time of day, whatever the time is.              *)
NoOversleep ==
  mode = "asleep" /\ now <= alarm =>
    \A i \in (index + 1)..Len(tasks) : ~(now < tasks[i] /\ tasks[i] < alarm)

(* The loop looks at the schedule around the time of day t, with no frame  *)
(* waiting, on infinitely many days.                                       *)
LooksAround(t) == []<><<Poll /\ pending = 0 /\ InWindow(t, now)>>_vars

(* A board that is never told to sleep runs every task again and again,    *)
(* whatever it missed before, if there is no time of day around which the  *)
(* loop is every day in something else: an upload, a retry, a capture, OTA *)
(* or a reconnection may make it late for a task, and a missed task is     *)
(* taken up the next day (main.c:1948: "completed for today").             *)
AwakeKeepsRunning ==
  [](~armed) /\ (\A t \in Times : LooksAround(t))
    => \A i \in 1..MaxTasks : <>(i \in DOMAIN tasks) => []<>(i \in ran)

(* The window of task i has closed on a loop that did not look in it, or   *)
(* that has a frame to send first.                                         *)
Covered(i) ==
  /\ i \in DOMAIN tasks
  /\ \/ lag > Window /\ now = (tasks[i] + Window + 1) % Day
     \/ pending > 0 /\ InWindow(tasks[i], now)

(* A board that sleeps to the alarm of a task, with no frame waiting, runs *)
(* it in that window, unless the reconnection and the work that comes      *)
(* before the look at the schedule, such as a capture the server had       *)
(* queued, last longer than the window, or leave a frame waiting in it.    *)
WakesAndRuns ==
  \A i \in 1..MaxTasks :
    (mode = "asleep" /\ index + 1 = i /\ pending = 0) ~> (i \in ran \/ Covered(i))
==============================================================================
