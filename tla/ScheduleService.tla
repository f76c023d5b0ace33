--------------------------- MODULE ScheduleService ---------------------------
(***************************************************************************)
(* Schedules on both sides: the rows of the server's database, the         *)
(* requests (routes, agent tools, the cycle_complete handler) that work on *)
(* them and tell the board, and the one schedule the board runs.           *)
(*                                                                         *)
(* A request is a coroutine with a session of its own.  It gives way at    *)
(* every database call, so each read and each commit is a step; what it    *)
(* read stays in its record.  A row the session still holds is not         *)
(* refreshed when it is read again (expire_on_commit=False), so a request  *)
(* may go on with what an earlier read said of it.  A task list is the     *)
(* number of its edition.                                                  *)
(***************************************************************************)
EXTENDS Naturals, Sequences

CONSTANTS Schedules,     \* ids of schedules
          Requests,      \* coroutines
          MaxEdition,    \* bound: editions of a task list
          MaxStarted,    \* bound: requests started
          MaxWire        \* bound: commands on their way to the board

ASSUME ScheduleConstants ==
  MaxEdition \in Nat \ {0} /\ MaxStarted \in Nat /\ MaxWire \in Nat

Steps == {"idle", "insert", "replan", "reread", "list", "commit", "refresh",
          "publish", "get", "clear", "complete"}
NoSchedule == [id |-> "none", edition |-> 0]
Idle == [step |-> "idle", target |-> "none", known |-> {}, saw |-> {},
         tells |-> TRUE, payload |-> 0]

VARIABLES rows,          \* ids that have a row
          active,        \* rows with is_active
          edition,       \* the task list of each row
          request,       \* what each coroutine is at, and what it has read
          wire,          \* commands on their way to the board
          board,         \* s_schedule
          completed,     \* cycle_complete statuses on their way to the server
          started,       \* counter of the bound
          overtaken,     \* history: requests that have read what is active, before
                         \* an activation committed
          raced,         \* history: the last activation to commit was overtaken
          trouble        \* history: what has come between server and board

database == <<rows, active, edition>>
link == <<wire, board, completed>>
races == <<overtaken, raced>>
vars == <<database, request, link, started, races, trouble>>

Troubles == {"overlap", "loss", "reset", "quick", "misdirected", "cycle"}
Commands == [id : Schedules \union {"none"}, edition : 0..MaxEdition]

TypeOK ==
  /\ rows \subseteq Schedules
  /\ active \subseteq rows
  /\ edition \in [Schedules -> 0..MaxEdition]
  /\ request \in [Requests -> [step : Steps, target : Schedules \union {"none"},
                               known : SUBSET Schedules, saw : SUBSET Schedules,
                               tells : BOOLEAN, payload : 0..MaxEdition]]
  /\ wire \in Seq(Commands) /\ Len(wire) <= MaxWire
  /\ board \in Commands
  /\ completed \in 0..1
  /\ started \in 0..MaxStarted
  /\ overtaken \subseteq Requests /\ raced \in BOOLEAN
  /\ trouble \subseteq Troubles
------------------------------------------------------------------------------
At(r, step) == request[r].step = step

Goto(r, step) ==
  request' = [request EXCEPT ![r] = IF step = "idle" THEN Idle ELSE [@ EXCEPT !.step = step]]

(* A request begins: at most MaxStarted of them do.  q is what it is at    *)
(* after its first database call.                                          *)
Begin(r, q) ==
  /\ At(r, "idle")
  /\ started < MaxStarted
  /\ started' = started + 1
  /\ request' = [request EXCEPT ![r] = q]
  /\ trouble' = IF \E other \in Requests \ {r} : ~At(other, "idle")
                  THEN trouble \union {"overlap"} ELSE trouble

For(s, step) == [Idle EXCEPT !.step = step, !.target = s]

(* It has read which rows are active, and will activate one by that.       *)
Reading(r) == At(r, "commit") \/ request[r].known # {}

(* send_board_command, through a link that keeps order.                    *)
Send(cmd) ==
  /\ Len(wire) < MaxWire
  /\ wire' = Append(wire, cmd)
------------------------------------------------------------------------------
(* A row for a new schedule; the id of a row that is gone may come again.  *)
NewRow(s) ==
  /\ s \notin rows
  /\ edition[s] < MaxEdition
  /\ rows' = rows \union {s}
  /\ edition' = [edition EXCEPT ![s] = @ + 1]
  /\ UNCHANGED active

(* POST /schedules (not activated) and the capture sequences, which are    *)
(* stored as schedules, activated, and never sent as such.                 *)
Create(r, s, activate) ==
  /\ NewRow(s)
  /\ Begin(r, IF activate THEN [For(s, "list") EXCEPT !.tells = FALSE] ELSE Idle)
  /\ UNCHANGED <<link, races>>

(* create_schedule of the agent reads all rows, for the name of the active *)
(* one, and holds them to its end ...                                      *)
Browse(r) ==
  /\ Begin(r, [For("none", "insert") EXCEPT !.known = rows, !.saw = active])
  /\ UNCHANGED <<database, link, races>>

(* ... while it stores the new schedule and activates it.                  *)
Insert(r) ==
  /\ At(r, "insert")
  /\ \E s \in Schedules :
       /\ NewRow(s)
       /\ request' = [request EXCEPT ![r].step = "list", ![r].target = s]
  /\ UNCHANGED <<link, started, races, trouble>>

(* POST /schedules/{id}/activate, activate_schedule                        *)
Activate(r, s) ==
  /\ Begin(r, For(s, "list"))
  /\ UNCHANGED <<database, link, races>>

(* A new task list is committed in place of the old one.                   *)
Rewrite(s) ==
  /\ edition[s] < MaxEdition
  /\ edition' = [edition EXCEPT ![s] = @ + 1]
  /\ UNCHANGED <<rows, active>>

(* PUT /schedules/{id}: the row is read again after the commit.            *)
Update(r, s) ==
  /\ s \in rows
  /\ Rewrite(s)
  /\ Begin(r, For(s, "reread"))
  /\ UNCHANGED <<link, races>>

(* Mutant of Reread: the new list of an active schedule is not sent.       *)
RereadSilently(r) ==
  /\ At(r, "reread")
  /\ Goto(r, "idle")
  /\ UNCHANGED <<database, link, started, races, trouble>>

Reread(r) ==
  /\ At(r, "reread")
  /\ Goto(r, IF request[r].target \in active THEN "list" ELSE "idle")
  /\ UNCHANGED <<database, link, started, races, trouble>>

(* modify_schedule reads whether the schedule is active before the planner *)
(* is asked ...                                                            *)
Modify(r, s) ==
  /\ s \in rows
  /\ Begin(r, [For(s, "replan") EXCEPT !.saw = active \intersect {s}])
  /\ UNCHANGED <<database, link, races>>

(* ... and acts on it afterwards.                                          *)
Replan(r) ==
  LET q == request[r]
  IN /\ At(r, "replan")
     /\ \/ /\ q.target \in rows
           /\ Rewrite(q.target)
           /\ Goto(r, IF q.saw # {} THEN "list" ELSE "idle")
        \/ Goto(r, "idle") /\ UNCHANGED database      \* no plan, or no row
     /\ UNCHANGED <<link, started, races, trouble>>

(* activate_schedule, first half: every row is read, but one the session   *)
(* holds stays as active as it was when it was read first.                 *)
List(r) ==
  LET q == request[r]
  IN /\ At(r, "list")
     /\ request' = [request EXCEPT
          ![r].step = "commit", ![r].known = {},
          ![r].saw = {s \in rows : IF s \in q.known THEN s \in q.saw ELSE s \in active}]
     /\ UNCHANGED <<database, link, started, races, trouble>>

(* The history of a commit: whoever else has read is overtaken by it.      *)
Overtake(r) ==
  /\ raced' = (r \in overtaken)
  /\ overtaken' = {q \in Requests \ {r} : Reading(q)}

(* Mutant of Commit: the others are not deactivated.                       *)
CommitAlone(r) ==
  LET q == request[r]
  IN /\ At(r, "commit")
     /\ q.target \in rows
     /\ active' = active \union {q.target}
     /\ Goto(r, IF q.tells THEN "refresh" ELSE "idle")
     /\ trouble' = IF q.tells THEN trouble ELSE trouble \union {"quick"}
     /\ Overtake(r)
     /\ UNCHANGED <<rows, edition, link, started>>

(* activate_schedule, second half.  The session updates the rows it saw    *)
(* active, not those that are; if one of them or the target has no row any *)
(* more it fails and rolls back.                                           *)
Commit(r) ==
  LET q == request[r]
  IN /\ At(r, "commit")
     /\ \/ /\ q.saw \union {q.target} \subseteq rows
           /\ active' = (active \ q.saw) \union {q.target}
           /\ Goto(r, IF q.tells THEN "refresh" ELSE "idle")
           /\ trouble' = IF q.tells THEN trouble ELSE trouble \union {"quick"}
           /\ Overtake(r)
        \/ /\ ~(q.saw \union {q.target} \subseteq rows)
           /\ Goto(r, "idle")
           /\ overtaken' = overtaken \ {r}
           /\ UNCHANGED <<active, raced, trouble>>
     /\ UNCHANGED <<rows, edition, link, started>>

(* db.refresh reads the tasks the payload will carry.                      *)
Refresh(r) ==
  LET s == request[r].target
  IN /\ At(r, "refresh")
     /\ request' = IF s \in rows
                     THEN [request EXCEPT ![r].step = "publish",
                                          ![r].payload = edition[s]]
                     ELSE [request EXCEPT ![r] = Idle]
     /\ UNCHANGED <<database, link, started, races, trouble>>

Publish(r) ==
  /\ At(r, "publish")
  /\ Send([id |-> request[r].target, edition |-> request[r].payload])
  /\ Goto(r, "idle")
  /\ UNCHANGED <<database, board, completed, started, races, trouble>>
------------------------------------------------------------------------------
(* POST /schedules/{id}/deactivate: the row is read ...                    *)
Deactivate(r, s) ==
  /\ s \in rows
  /\ Begin(r, [For(s, "get") EXCEPT !.saw = active \intersect {s}])
  /\ UNCHANGED <<database, link, races>>

(* ... and updated if it was read active.                                  *)
Deactivated(r) ==
  LET q == request[r]
  IN /\ At(r, "get")
     /\ \/ q.target \in rows /\ active' = active \ q.saw /\ Goto(r, "clear")
        \/ q.target \notin rows /\ UNCHANGED active /\ Goto(r, "idle")
     /\ UNCHANGED <<rows, edition, link, started, races, trouble>>

(* DELETE /schedules/{id}                                                  *)
Delete(r, s) ==
  /\ s \in rows
  /\ rows' = rows \ {s}
  /\ active' = active \ {s}
  /\ Begin(r, For(s, "clear"))
  /\ UNCHANGED <<edition, link, races>>

(* Mutant of Clear: the board is not told.                                 *)
ClearSilently(r) ==
  /\ At(r, "clear")
  /\ Goto(r, "idle")
  /\ UNCHANGED <<database, link, started, races, trouble>>

(* delete_schedule is sent whichever schedule the request was about.       *)
Clear(r) ==
  /\ At(r, "clear")
  /\ Send(NoSchedule)
  /\ Goto(r, "idle")
  /\ trouble' = IF active # {} THEN trouble \union {"misdirected"} ELSE trouble
  /\ UNCHANGED <<database, board, completed, started, races>>

(* on_message on cycle_complete: is any schedule active?                   *)
CycleComplete(r) ==
  /\ completed > 0
  /\ completed' = completed - 1
  /\ At(r, "idle")
  /\ Goto(r, IF active # {} THEN "complete" ELSE "idle")
  /\ UNCHANGED <<database, wire, board, started, races, trouble>>

(* Then all of them are deactivated, the one that completed or not.        *)
DeactivateAll(r) ==
  /\ At(r, "complete")
  /\ active' = {}
  /\ trouble' = trouble \union {"cycle"}
  /\ Goto(r, "idle")
  /\ UNCHANGED <<rows, edition, link, started, races>>
------------------------------------------------------------------------------
(* The board takes what it is sent, or forgets what it runs.               *)
Receive ==
  /\ wire # <<>>
  /\ board' = Head(wire)
  /\ wire' = Tail(wire)
  /\ UNCHANGED <<database, request, completed, started, races, trouble>>

Lose ==
  /\ wire # <<>>
  /\ wire' = Tail(wire)
  /\ trouble' = trouble \union {"loss"}
  /\ UNCHANGED <<database, request, board, completed, started, races>>

(* The schedule is in RAM, and nothing sends it again after a reset.       *)
BoardReset ==
  /\ board # NoSchedule
  /\ board' = NoSchedule
  /\ trouble' = trouble \union {"reset"}
  /\ UNCHANGED <<database, request, wire, completed, started, races>>

(* The server stops, and what its requests have not done stays undone.  As *)
(* it starts, cleanup_stale_schedules deletes inactive rows by their age.  *)
Restart ==
  /\ \E stale \in SUBSET (rows \ active) : rows' = rows \ stale
  /\ request' = [r \in Requests |-> Idle]
  /\ trouble' = IF \A r \in Requests : At(r, "idle") THEN trouble
                ELSE trouble \union {"loss"}
  /\ overtaken' = {}
  /\ UNCHANGED <<active, edition, link, started, raced>>

LoseStatus ==
  /\ completed > 0
  /\ completed' = completed - 1
  /\ UNCHANGED <<database, request, wire, board, started, races, trouble>>

(* Mutant of LastTask: reports what is already reported.                   *)
LastTaskAgain ==
  /\ board # NoSchedule
  /\ completed' = completed + 1
  /\ completed < 3
  /\ UNCHANGED <<database, request, wire, board, started, races, trouble>>

(* After the last task the board reports and keeps the schedule.           *)
LastTask ==
  /\ board # NoSchedule
  /\ completed = 0
  /\ completed' = 1
  /\ UNCHANGED <<database, request, wire, board, started, races, trouble>>
------------------------------------------------------------------------------
Init ==
  /\ rows = {} /\ active = {}
  /\ edition = [s \in Schedules |-> 0]
  /\ request = [r \in Requests |-> Idle]
  /\ wire = <<>> /\ board = NoSchedule /\ completed = 0
  /\ started = 0 /\ overtaken = {} /\ raced = FALSE /\ trouble = {}

Ask(r) ==
  \/ Browse(r)
  \/ \E s \in Schedules :
       \/ \E activate \in BOOLEAN : Create(r, s, activate)
       \/ Activate(r, s) \/ Update(r, s) \/ Modify(r, s)
       \/ Deactivate(r, s) \/ Delete(r, s)

Resume(r) ==
  \/ Insert(r) \/ Reread(r) \/ Replan(r) \/ List(r) \/ Commit(r) \/ Refresh(r) \/ Publish(r)
  \/ Deactivated(r) \/ Clear(r) \/ CycleComplete(r) \/ DeactivateAll(r)

Next ==
  \/ \E r \in Requests : Ask(r) \/ Resume(r)
  \/ Receive \/ Lose \/ LoseStatus \/ BoardReset \/ Restart \/ LastTask

Spec == Init /\ [][Next]_vars
------------------------------------------------------------------------------
(* Two schedules are active only if the last activation to commit had read *)
(* what is active before another one committed: in activate_schedule, or,  *)
(* as create_schedule of the agent does, long before.  One that nobody     *)
(* overtakes leaves its target alone, whatever earlier ones left behind    *)
(* (service.py: "deactivating all others").                                *)
OneActive == ~raced => \A s, t \in active : s = t

Quiet == (\A r \in Requests : At(r, "idle")) /\ wire = <<>>

(* Once all is quiet, the schedule the database shows active is the one    *)
(* the board runs, with its current tasks, if requests came one at a time, *)
(* nothing was lost, the board was not reset, no sequence was stored as a  *)
(* schedule, and no delete_schedule was sent while one stayed active.      *)
ActiveRuns ==
  Quiet /\ trouble \subseteq {"cycle"}
    => \A s \in active : board = [id |-> s, edition |-> edition[s]]

(* Once all is quiet, what the board runs is active in the database, also  *)
(* if it was reset at any time; a lost command, a completed cycle, a       *)
(* sequence or overlapping requests may leave it running unseen.           *)
RunningIsActive ==
  Quiet /\ trouble \subseteq {"misdirected", "reset"} /\ board # NoSchedule
    => board.id \in active
==============================================================================
