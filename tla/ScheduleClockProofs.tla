------------------------- MODULE ScheduleClockProofs --------------------------
(***************************************************************************)
(* TypeOK, NoOversleep and AwakeRunsOnce of ScheduleClock, for a day of    *)
(* any length, any window below a quarter of it and any schedule.          *)
(***************************************************************************)
EXTENDS ScheduleClock, TLAPS

(* Remainders of what is near to 0.                                        *)
LEMMA Remainder ==
  ASSUME NEW d \in Nat \ {0}, NEW x \in Int
  PROVE  /\ x % d \in 0..(d - 1)
         /\ 0 <= x /\ x < d => x % d = x
         /\ -d <= x /\ x < 0 => x % d = x + d
         /\ x = d => x % d = 0
<1>1. x % d \in 0..(d - 1)
  OBVIOUS
<1>2. 0 <= x /\ x < d => x % d = x
  OBVIOUS
<1>3. -d <= x /\ x < 0 => x % d = x + d
  OBVIOUS
<1>4. x = d => x % d = 0
  OBVIOUS
<1> QED BY <1>1, <1>2, <1>3, <1>4

(* Indices from i up to a length.                                          *)
LEMMA Counting ==
  ASSUME NEW n \in Nat, NEW i \in Nat
  PROVE  /\ \A k \in i..n : k \in 0..n /\ (k # n => k + 1 \in 1..n)
         /\ i + 1 \in 1..n => (IF i + 1 = n THEN 0 ELSE i + 1) \in 0..n
         /\ 1..i \subseteq 1..(i + 1) /\ i + 1 \in 1..(i + 1)
OBVIOUS

(* The constants, one by one.                                              *)
LEMMA Constants ==
  /\ Day \in Nat \ {0} /\ Window \in Nat \ {0} /\ 4 * Window < Day
  /\ MaxTasks \in Nat \ {0} /\ MaxAway \in Nat \ {0} /\ MaxAttempts \in Nat \ {0}
BY ClockConstants

(* The next tick: midnight is 0.                                           *)
LEMMA NextTick ==
  ASSUME now \in Times
  PROVE  (now + 1) % Day = IF now + 1 = Day THEN 0 ELSE now + 1
<1>1. Day \in Nat \ {0} /\ now \in 0..(Day - 1) /\ now + 1 \in Int
  BY Constants DEF Times
<1>2. now + 1 < Day => (now + 1) % Day = now + 1
  BY <1>1
<1>3. now + 1 = Day => (now + 1) % Day = 0
  BY <1>1
<1> QED BY <1>1, <1>2, <1>3

(* The window of t is open: at most Window before or after, around the     *)
(* clock.                                                                  *)
LEMMA WindowIs ==
  ASSUME NEW t \in Times, NEW n \in Times
  PROVE  InWindow(t, n) <=> \/ (-Window <= n - t /\ n - t <= Window)
                            \/ n - t >= Day - Window
                            \/ n - t <= Window - Day
<1>1. /\ Day \in Nat \ {0} /\ Window \in Nat /\ 4 * Window < Day
      /\ t \in 0..(Day - 1) /\ n \in 0..(Day - 1) /\ t - n \in Int
  BY Constants DEF Times
<1>2. (t - n) % Day = IF t >= n THEN t - n ELSE t - n + Day
  <2>1. /\ 0 <= t - n /\ t - n < Day => (t - n) % Day = t - n
        /\ -Day <= t - n /\ t - n < 0 => (t - n) % Day = t - n + Day
    BY <1>1, Remainder
  <2> QED BY <1>1, <2>1
<1> QED BY <1>1, <1>2 DEF InWindow

(* TypeOK in two parts: the Booleans and the rest.                         *)
Flags == armed \in BOOLEAN /\ polled \in BOOLEAN

Values ==
  /\ now \in Times /\ alarm \in Times
  /\ tasks \in Seq(Times) /\ Len(tasks) \in 0..MaxTasks
  /\ index \in 0..Len(tasks)
  /\ mode \in {"polling", "away", "asleep"}
  /\ pending \in 0..MaxAttempts /\ lag \in 0..MaxAway
  /\ ran \subseteq DOMAIN tasks /\ repeated \subseteq DOMAIN tasks

(* The index after a task has run.                                         *)
LEMMA NextIndex ==
  ASSUME Values, HasTask
  PROVE  (index + 1) % Len(tasks) = IF index + 1 = Len(tasks) THEN 0 ELSE index + 1
<1>1. Len(tasks) \in Nat \ {0} /\ index \in 0..(Len(tasks) - 1)
  BY DEF Values, HasTask
<1>2. index + 1 < Len(tasks) => (index + 1) % Len(tasks) = index + 1
  BY <1>1
<1>3. Len(tasks) % Len(tasks) = 0
  BY <1>1
<1> QED BY <1>1, <1>2, <1>3
------------------------------------------------------------------------------
(* What a schedule that has been received is: times in order.              *)
InOrder(s) == \A i, j \in DOMAIN s : i <= j => s[i] <= s[j]

LEMMA SortedTimes ==
  ASSUME NEW n \in 1..MaxTasks, NEW s \in [1..n -> Times], NEW t \in Sorted(s)
  PROVE  t \in Seq(Times) /\ Len(t) = n /\ InOrder(t)
<1>1. n \in Nat /\ DOMAIN s = 1..n
  BY Constants
<1>2. PICK order \in Bijection(DOMAIN s, DOMAIN s) : t = [i \in DOMAIN s |-> s[order[i]]]
  BY DEF Sorted
<1>3. order \in [DOMAIN s -> DOMAIN s]
  BY DEF Bijection, Injection, Surjection, IsInjective
<1>4. t \in [1..n -> Times]
  BY <1>1, <1>2, <1>3
<1>5. t \in Seq(Times) /\ Len(t) = n
  BY <1>1, <1>4
<1>6. \A i, j \in DOMAIN s : i <= j => t[i] <= t[j]
  BY DEF Sorted
<1> QED BY <1>1, <1>4, <1>5, <1>6 DEF InOrder

(* Together they are TypeOK.                                               *)
LEMMA TypeParts == TypeOK <=> Flags /\ Values
<1>1. TypeOK => Flags
  BY DEF TypeOK, Flags
<1>2. TypeOK => Values
  BY Constants DEF TypeOK, Values
<1>3. Values => Len(tasks) <= MaxTasks
  BY Constants DEF Values
<1>4. Flags /\ Values => TypeOK
  BY <1>3, Zenon DEF Flags, Values, TypeOK
<1> QED BY <1>1, <1>2, <1>4

LEMMA FlagsPreserved == Flags /\ [Next]_vars => Flags'
BY Zenon DEF Flags, Next, Poll, ReceiveSchedule, SetSleepMode, Defer, RunTask, Idle,
  SetNextAlarm, RetryUpload, Heartbeat, ServeWork, WakeOnAlarm, WakeOnButton, Return, Tick,
  Away, vars

(* The rest of the types, by action.                                       *)
LEMMA ValuesPreserved == Values /\ [Next]_vars => Values'
<1> SUFFICES ASSUME Values, [Next]_vars PROVE Values'
  OBVIOUS
<1>0. DOMAIN tasks = 1..Len(tasks) /\ Len(tasks) \in Nat /\ index \in Nat
  BY DEF Values
<1> USE Constants
<1>1. ASSUME NEW n \in 1..MaxTasks, NEW s \in [1..n -> Times], ReceiveSchedule(s)
      PROVE  Values'
  <2>1. tasks' \in Seq(Times) /\ Len(tasks') = n
    BY <1>1, SortedTimes DEF ReceiveSchedule
  <2>2. ran = {} /\ repeated = {}
    BY <1>1 DEF ReceiveSchedule, Values
  <2> QED BY <1>1, <2>1, <2>2 DEF ReceiveSchedule, Values
<1>2. CASE SetSleepMode \/ Defer \/ Idle \/ Return
  BY <1>2 DEF SetSleepMode, Defer, Idle, Return, Looked, Values
<1>3. CASE RunTask
  <2>1. HasTask /\ index + 1 \in DOMAIN tasks
    BY <1>0, <1>3 DEF RunTask, Due, HasTask, Values
  <2>2. index' = IF index + 1 = Len(tasks) THEN 0 ELSE index + 1
    BY <1>3, <2>1, NextIndex DEF RunTask
  <2>3. index' \in 0..Len(tasks)
    BY <1>0, <2>1, <2>2, Counting
  <2> QED BY <1>3, <2>1, <2>3 DEF RunTask, Away, Looked, Values
<1>4. CASE SetNextAlarm
  <2>1. PICK k \in index..Len(tasks) :
          /\ index' = k
          /\ \/ k # Len(tasks) /\ mode' = "asleep" /\ alarm' = tasks[k + 1]
             \/ UNCHANGED <<mode, alarm>>
    BY <1>4 DEF SetNextAlarm
  <2>2. k \in 0..Len(tasks) /\ (k # Len(tasks) => k + 1 \in 1..Len(tasks))
    BY <1>0, Counting
  <2>3. \A i \in 1..Len(tasks) : tasks[i] \in Times
    BY DEF Values
  <2>4. k # Len(tasks) => tasks[k + 1] \in Times
    BY <2>2, <2>3
  <2> QED BY <1>4, <2>1, <2>2, <2>4 DEF SetNextAlarm, Looked, Values
<1>5. CASE RetryUpload \/ Heartbeat \/ ServeWork
  BY <1>5 DEF RetryUpload, Heartbeat, ServeWork, Away, Values
<1>8. CASE WakeOnAlarm \/ WakeOnButton
  BY <1>8 DEF WakeOnAlarm, WakeOnButton, Away, Values
<1>6. CASE Tick
  <2>1. now' \in Times
    BY <1>6, NextTick DEF Tick, Values, Times
  <2>2. lag' \in 0..MaxAway
    BY <1>6 DEF Tick, Values
  <2> QED BY <1>6, <2>1, <2>2 DEF Tick, Values
<1>7. CASE UNCHANGED vars
  BY <1>7 DEF vars, Values
<1> QED
  BY <1>1, <1>2, <1>3, <1>4, <1>5, <1>6, <1>7, <1>8 DEF Next, Poll

(* The types of the board's clock and schedule.                            *)
THEOREM TypeCorrect == Spec => []TypeOK
<1>1. Init => Flags
  BY Zenon DEF Init, Flags
<1>2. Init => Values
  BY Constants DEF Init, Values, Times
<1> QED BY <1>1, <1>2, FlagsPreserved, ValuesPreserved, TypeParts, PTL DEF Spec
------------------------------------------------------------------------------
(* A schedule is in order, and the alarm of a sleeping board is the time   *)
(* of the task at the index.                                               *)
Alarmed ==
  /\ InOrder(tasks)
  /\ mode = "asleep" => index + 1 \in DOMAIN tasks /\ alarm = tasks[index + 1]

LEMMA AlarmedPreserved == Values /\ Alarmed /\ [Next]_vars => Alarmed'
<1> SUFFICES ASSUME Values, Alarmed, [Next]_vars PROVE Alarmed'
  OBVIOUS
<1>0. DOMAIN tasks = 1..Len(tasks) /\ Len(tasks) \in Nat /\ index \in Nat
  BY DEF Values
<1>1. ASSUME NEW n \in 1..MaxTasks, NEW s \in [1..n -> Times], ReceiveSchedule(s)
      PROVE  Alarmed'
  BY <1>1, SortedTimes DEF ReceiveSchedule, Alarmed
<1>2. CASE SetNextAlarm
  <2>1. PICK k \in index..Len(tasks) :
          /\ index' = k /\ tasks' = tasks /\ mode = "polling"
          /\ \/ k # Len(tasks) /\ mode' = "asleep" /\ alarm' = tasks[k + 1]
             \/ UNCHANGED <<mode, alarm>>
    BY <1>2 DEF SetNextAlarm
  <2>2. k # Len(tasks) => k + 1 \in DOMAIN tasks
    BY <1>0, Counting
  <2> QED BY <2>1, <2>2 DEF Alarmed
<1>3. CASE RunTask \/ RetryUpload \/ Heartbeat \/ ServeWork \/ WakeOnAlarm \/ WakeOnButton
  BY <1>3 DEF RunTask, RetryUpload, Heartbeat, ServeWork, WakeOnAlarm, WakeOnButton, Away,
              Alarmed
<1>4. CASE SetSleepMode \/ Defer \/ Idle \/ Return \/ Tick \/ UNCHANGED vars
  BY <1>4 DEF SetSleepMode, Defer, Idle, Return, Tick, vars, Alarmed
<1> QED BY <1>1, <1>2, <1>3, <1>4 DEF Next, Poll

(* A sleeping board does not sleep past a task of this day it still is to  *)
(* run (Scheduler_SetNextAlarm).                                           *)
THEOREM SleepsToTheNext == Spec => []NoOversleep
<1>1. Init => Alarmed
  BY DEF Init, Alarmed, InOrder
<1>2. Values /\ Alarmed => NoOversleep
  <2> SUFFICES ASSUME Values, Alarmed, mode = "asleep",
                      NEW i \in (index + 1)..Len(tasks)
               PROVE  ~(tasks[i] < alarm)
    BY DEF NoOversleep
  <2>1. /\ index \in Nat /\ Len(tasks) \in Nat /\ DOMAIN tasks = 1..Len(tasks)
        /\ \A j \in DOMAIN tasks : tasks[j] \in Int
    BY Constants DEF Values, Times
  <2>2. i \in DOMAIN tasks /\ index + 1 \in DOMAIN tasks /\ index + 1 <= i
    BY <2>1 DEF Alarmed
  <2>3. alarm = tasks[index + 1] /\ tasks[index + 1] <= tasks[i]
    BY <2>2 DEF Alarmed, InOrder
  <2> QED BY <2>1, <2>2, <2>3
<1>3. Spec => []Values
  BY TypeCorrect, TypeParts, PTL
<1> QED BY <1>1, <1>2, <1>3, AlarmedPreserved, PTL DEF Spec
------------------------------------------------------------------------------
(* How long the window of t has been open for its time, before (negative)  *)
(* or after it.                                                            *)
Since(t, n) ==
  IF n - t > Window THEN n - t - Day ELSE IF n - t < -Window THEN n - t + Day ELSE n - t

First == tasks[1]
Last == tasks[Len(tasks)]

(* In an open window, Since is its place; a tick later in the same window  *)
(* it is one more.                                                         *)
LEMMA SinceIs ==
  ASSUME NEW t \in Times, NEW n \in Times, InWindow(t, n)
  PROVE  Since(t, n) \in (-Window)..Window
BY WindowIs, Constants DEF Since, Times

LEMMA SinceGrows ==
  ASSUME NEW t \in Times, now \in Times, now' = (now + 1) % Day,
         InWindow(t, now), InWindow(t, now')
  PROVE  Since(t, now') = Since(t, now) + 1
<1>1. now' = IF now + 1 = Day THEN 0 ELSE now + 1
  BY NextTick
<1>2. now' \in Times
  BY <1>1, Constants DEF Times
<1> QED BY <1>1, <1>2, WindowIs, Constants DEF Since, Times

(* If the last task has run in the window of t, the first cannot: its      *)
(* window is too far away.                                                 *)
LEMMA WindowsApart ==
  ASSUME NEW t \in Times, NEW a \in Times, NEW z \in Times, NEW n \in Times,
         a <= t, t <= z, 2 * Window < z - a, z - a < Day - 2 * Window,
         InWindow(t, n), Since(t, n) >= z - t - Window
  PROVE  ~InWindow(a, n)
BY WindowIs, Constants DEF Since, Times

(* While the last task runs, this is how far an open window of t is.       *)
LEMMA WindowsInOrder ==
  ASSUME NEW t \in Times, NEW z \in Times, NEW n \in Times,
         t <= z, z - t < Day - 2 * Window,
         InWindow(t, n), InWindow(z, n)
  PROVE  Since(t, n) >= z - t - Window
BY WindowIs, Constants DEF Since, Times
(* For a board that has never slept: a task that has run and whose window  *)
(* is still open is before the index, unless the index is back at 0; then  *)
(* the window of the last task has been open since, too.                   *)
Once ==
  /\ tasks = <<>> => index = 0
  /\ \A i \in ran : InWindow(tasks[i], now)
  /\ Apart =>
       /\ repeated = {}
       /\ index # 0 => ran \subseteq 1..index
       /\ index = 0 => \A i \in ran : Since(tasks[i], now) >= Last - tasks[i] - Window

(* The first and the last task bound the others.                           *)
LEMMA Bounds ==
  ASSUME Values, Alarmed, tasks # <<>>
  PROVE  /\ Len(tasks) \in Nat \ {0} /\ index \in Nat /\ DOMAIN tasks = 1..Len(tasks)
         /\ First \in Times /\ Last \in Times
         /\ \A i \in DOMAIN tasks : tasks[i] \in Times /\ First <= tasks[i] /\ tasks[i] <= Last
<1>1. Len(tasks) \in Nat \ {0} /\ index \in Nat /\ DOMAIN tasks = 1..Len(tasks)
  BY DEF Values
<1>2. 1 \in DOMAIN tasks /\ Len(tasks) \in DOMAIN tasks
      /\ \A i \in DOMAIN tasks : 1 <= i /\ i <= Len(tasks)
  BY <1>1
<1>3. \A i \in DOMAIN tasks : tasks[i] \in Times
  BY DEF Values
<1> QED BY <1>1, <1>2, <1>3 DEF Alarmed, InOrder, First, Last

(* A task that runs has no open window to run in again.                    *)
LEMMA RunsOnce ==
  ASSUME Values, Alarmed, Once, Apart, RunTask
  PROVE  Apart' => /\ repeated' = {}
                   /\ index' # 0 => ran' \subseteq 1..index'
                   /\ index' = 0 => \A i \in ran' :
                        (Since(tasks[i], now) >= Last - tasks[i] - Window)'
<1>1. /\ tasks # <<>> /\ index + 1 \in DOMAIN tasks /\ InWindow(tasks[index + 1], now)
      /\ tasks' = tasks /\ now' = now /\ now \in Times
      /\ ran' = ran \union {index + 1} /\ ran \subseteq DOMAIN tasks
      /\ repeated' = repeated \union (ran \intersect {index + 1})
      /\ HasTask /\ index' = (index + 1) % Len(tasks)
  BY DEF RunTask, Due, HasTask, Values
<1>2. /\ Len(tasks) \in Nat \ {0} /\ index \in Nat /\ DOMAIN tasks = 1..Len(tasks)
      /\ First \in Times /\ Last \in Times
      /\ \A i \in DOMAIN tasks : tasks[i] \in Times /\ First <= tasks[i] /\ tasks[i] <= Last
  BY <1>1, Bounds
<1>3. index' = IF index + 1 = Len(tasks) THEN 0 ELSE index + 1
  BY <1>1, NextIndex
<1>4. 2 * Window < Last - First /\ Last - First < Day - 2 * Window
  BY <1>1 DEF Apart, First, Last
<1>5. CASE index = 0
  <2>1. ran = {}
    <3> SUFFICES ASSUME NEW i \in ran PROVE FALSE
      OBVIOUS
    <3>1. i \in DOMAIN tasks /\ InWindow(tasks[i], now)
          /\ Since(tasks[i], now) >= Last - tasks[i] - Window
      BY <1>1, <1>5 DEF Once
    <3>2. ~InWindow(First, now)
      BY <1>1, <1>2, <1>4, <3>1, WindowsApart
    <3> QED BY <1>1, <1>5, <3>2 DEF First
  <2>2. Len(tasks) # 1
    BY <1>2, <1>4, Constants DEF First, Last, Times
  <2>3. index' = 1
    BY <1>2, <1>3, <1>5, <2>2
  <2>4. ran' = {1} /\ repeated' = {}
    BY <1>1, <1>5, <2>1 DEF Once
  <2> QED BY <2>3, <2>4
<1>6. CASE index # 0
  <2>1. ran \subseteq 1..index /\ index + 1 \notin ran
    BY <1>2, <1>6 DEF Once
  <2>2. repeated' = {}
    BY <1>1, <2>1 DEF Once
  <2>3. CASE index' # 0
    <3>1. index' = index + 1
      BY <1>3, <2>3
    <3>2. ran' \subseteq 1..(index + 1)
      BY <1>1, <1>2, <2>1, Counting
    <3> QED BY <2>2, <2>3, <3>1, <3>2
  <2>4. CASE index' = 0
    <3>1. InWindow(Last, now)
      <4>1. index + 1 # 0
        BY <1>2
      <4> QED BY <1>1, <1>3, <2>4, <4>1 DEF Last
    <3>2. ASSUME NEW i \in ran'
          PROVE  Since(tasks[i], now) >= Last - tasks[i] - Window
      <4>1. i \in DOMAIN tasks /\ InWindow(tasks[i], now)
        BY <1>1, <3>2 DEF Once
      <4>2. Last - tasks[i] < Day - 2 * Window
        BY <1>2, <1>4, <4>1, Constants DEF Times
      <4> QED BY <1>1, <1>2, <3>1, <4>1, <4>2, WindowsInOrder
    <3> QED BY <1>1, <2>2, <2>4, <3>2 DEF Last
  <2> QED BY <2>3, <2>4
<1> QED BY <1>5, <1>6

LEMMA OncePreserved ==
  Values /\ Alarmed /\ Once /\ ~armed /\ [Next]_vars => Once'
<1> SUFFICES ASSUME Values, Alarmed, Once, ~armed, [Next]_vars PROVE Once'
  OBVIOUS
<1>1. ASSUME NEW n \in 1..MaxTasks, NEW s \in [1..n -> Times], ReceiveSchedule(s)
      PROVE  Once'
  <2>1. ran' = {} /\ repeated' = {} /\ index' = 0
    BY <1>1 DEF ReceiveSchedule, Values
  <2> QED BY <2>1 DEF Once
<1>2. CASE RunTask
  <2>1. tasks # <<>> /\ tasks' = tasks /\ now' = now /\ (Apart' => Apart)
    BY <1>2 DEF RunTask, Due, HasTask, Values, Apart
  <2>2. \A i \in ran' : InWindow(tasks[i], now)
    BY <1>2 DEF RunTask, Due, Once
  <2> QED BY <1>2, <2>1, <2>2, RunsOnce DEF Once
<1>3. CASE Tick
  <2>1. /\ tasks' = tasks /\ index' = index /\ repeated' = repeated /\ now \in Times
        /\ now' = (now + 1) % Day /\ ran' = {i \in ran : InWindow(tasks[i], now')}
        /\ ran \subseteq DOMAIN tasks /\ \A i \in DOMAIN tasks : tasks[i] \in Times
    BY <1>3 DEF Tick, Values
  <2>2. ASSUME NEW i \in ran', Apart, index = 0
        PROVE  Since(tasks[i], now') >= Last - tasks[i] - Window
    <3>1. /\ tasks[i] \in Times /\ InWindow(tasks[i], now) /\ InWindow(tasks[i], now')
          /\ Since(tasks[i], now) >= Last - tasks[i] - Window
          /\ tasks # <<>>
      BY <2>1, <2>2 DEF Once
    <3>2. Since(tasks[i], now') = Since(tasks[i], now) + 1
      BY <2>1, <3>1, SinceGrows
    <3>3. Last \in Times
      BY <3>1, Bounds
    <3>4. Since(tasks[i], now) \in Int
      BY <2>1, <3>1, SinceIs, Constants
    <3> QED BY <3>1, <3>2, <3>3, <3>4, Constants DEF Times
  <2> QED BY <2>1, <2>2 DEF Once, Apart, Last
<1>4. CASE SetSleepMode \/ Defer \/ Idle \/ RetryUpload \/ Heartbeat \/ ServeWork
           \/ WakeOnAlarm \/ WakeOnButton \/ Return \/ UNCHANGED vars
  <2>1. UNCHANGED <<now, tasks, index, ran, repeated>>
    BY <1>4 DEF SetSleepMode, Defer, Idle, RetryUpload, Heartbeat, ServeWork,
                WakeOnAlarm, WakeOnButton, Return, vars
  <2> QED BY <2>1 DEF Once, Apart, Last
<1>5. ~SetNextAlarm
  BY DEF SetNextAlarm
<1> QED BY <1>1, <1>2, <1>3, <1>4, <1>5 DEF Next, Poll

(* A board that is never told to sleep runs a task once in its window, if  *)
(* the windows of the first and the last task do not meet (main.c:1948).   *)
THEOREM RunsOnceAwake == Spec => AwakeRunsOnce
<1>1. Init => Once /\ Alarmed
  BY DEF Init, Once, Alarmed, InOrder
<1>2. Once => (Apart => repeated = {})
  BY DEF Once
<1>3. Spec => []Values
  BY TypeCorrect, TypeParts, PTL
<1> QED
  BY <1>1, <1>2, <1>3, AlarmedPreserved, OncePreserved, PTL DEF Spec, AwakeRunsOnce
==============================================================================
