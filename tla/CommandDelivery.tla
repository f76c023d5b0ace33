--------------------------- MODULE CommandDelivery ---------------------------
(***************************************************************************)
(* Commands from the server to the board across deep sleep: the server's   *)
(* chokepoint send_board_command with its dormancy queue, the broker (QoS  *)
(* 0, clean sessions), and the board's MQTT client with the sleep branch   *)
(* of the main loop.                                                       *)
(*                                                                         *)
(* A command is its number and its effect on the sleep switch.  The stream *)
(* to the board holds what the broker wrote to the session's socket; the   *)
(* board reads any number of whole packets at once.                        *)
(***************************************************************************)
EXTENDS Integers, Sequences

CONSTANTS MaxSent,       \* bound: commands sent
          MaxUp,         \* bound: statuses on their way to the server
          MaxFaults,     \* bound: server restarts and board resets
          MaxFailures    \* MQTT_MAX_PUBLISH_FAILURES

ASSUME DeliveryConstants ==
  /\ MaxSent \in Nat /\ MaxUp \in Nat \ {0} /\ MaxFaults \in Nat
  /\ MaxFailures \in Nat \ {0}

Effects == {"arm", "disarm", "other"}      \* on s_sleep_enabled
Statuses == {"online", "deep_dormant", "other"}

VARIABLES power,         \* board: "booting", "awake" or "asleep" (STOP2)
          armed,         \* s_sleep_enabled
          connected,     \* s_connected of the MQTT client
          failures,      \* s_publish_failures
          session,       \* broker: "none", "open" or "subscribed"
          down,          \* commands in the board's stream
          up,            \* statuses on their way to the server
          boardState,    \* server: _board_state
          queue,         \* server: _command_queue
          sent,          \* number of commands sent
          handled,       \* history: commands the callback was run on
          everQueued,    \* history: commands that were put in the queue
          faults         \* counter of the bound

boardVars == <<power, armed, connected, failures>>
serverVars == <<boardState, queue, sent, everQueued>>
vars == <<boardVars, session, down, up, serverVars, handled, faults>>

Numbers(s) == [i \in DOMAIN s |-> s[i].number]
------------------------------------------------------------------------------
(* The server and the broker.                                              *)

(* A QoS 0 publish reaches the board's stream only while it is subscribed. *)
Publish(cmds) ==
  down' = IF session = "subscribed" THEN down \o cmds ELSE down

(* send_board_command                                                      *)
SendCommand(e) ==
  LET cmd == [number |-> sent + 1, effect |-> e]
  IN /\ sent < MaxSent
     /\ sent' = sent + 1
     /\ \/ /\ boardState = "deep_dormant"
           /\ queue' = Append(queue, cmd)
           /\ everQueued' = everQueued \union {cmd.number}
           /\ UNCHANGED down
        \/ /\ boardState # "deep_dormant"
           /\ Publish(<<cmd>>)
           /\ UNCHANGED <<queue, everQueued>>
     /\ UNCHANGED <<boardVars, session, up, boardState, handled, faults>>

(* Mutant of FlushQueue: publishes without clearing the queue.             *)
FlushKeeping == Publish(queue) /\ UNCHANGED queue

(* _flush_queue                                                            *)
FlushQueue == Publish(queue) /\ queue' = <<>>

(* Mutant of NoteStatus: only a heartbeat flushes.                         *)
NoteStatusHeartbeatOnly(s) ==
  CASE s = "online" -> boardState' = "online" /\ FlushQueue
    [] s = "deep_dormant" -> boardState' = "deep_dormant" /\ UNCHANGED <<queue, down>>
    [] s = "other" -> boardState' = "online" /\ UNCHANGED <<queue, down>>

(* on_message: any status but deep_dormant means the board is there.       *)
NoteStatus(s) ==
  \/ /\ s = "deep_dormant"
     /\ boardState' = "deep_dormant"
     /\ UNCHANGED <<queue, down>>
  \/ /\ s = "online"
     /\ boardState' = "online"
     /\ IF boardState # "online" THEN FlushQueue ELSE UNCHANGED <<queue, down>>
  \/ /\ s = "other"
     /\ boardState' = "online"
     /\ IF boardState = "deep_dormant" THEN FlushQueue ELSE UNCHANGED <<queue, down>>

ReceiveStatus ==
  /\ up # <<>>
  /\ NoteStatus(Head(up))
  /\ up' = Tail(up)
  /\ UNCHANGED <<boardVars, session, sent, everQueued, handled, faults>>

LoseStatus ==
  /\ up # <<>>
  /\ up' = Tail(up)
  /\ UNCHANGED <<boardVars, session, down, serverVars, handled, faults>>

(* The queue is in memory only.                                            *)
ServerRestart ==
  /\ faults < MaxFaults
  /\ faults' = faults + 1
  /\ boardState' = "unknown"
  /\ queue' = <<>>
  /\ UNCHANGED <<boardVars, session, down, up, sent, everQueued, handled>>
------------------------------------------------------------------------------
(* The board.                                                              *)

(* Mutant of Reconnect: s_connected is not set.                            *)
ReconnectUnnoted(s) ==
  /\ session' = s
  /\ connected' = connected
  /\ down' = <<>>

(* MQTT_Init and MQTT_SubscribeCommands: a new connection, a clean         *)
(* session; neither result is looked at, so a connection whose SUBSCRIBE   *)
(* failed stays up.  WiFi or the backoff may keep the attempt from coming  *)
(* about ("none").                                                         *)
Reconnect(s) ==
  /\ session' = s
  /\ connected' = (s # "none")
  /\ down' = <<>>

Report(s, st) ==
  IF s # "none" THEN Len(up) < MaxUp /\ up' = Append(up, st) ELSE up' = up

HeartbeatSent ==
  /\ power = "awake"
  /\ connected
  /\ session # "none"
  /\ Report(session, "online")
  /\ failures' = 0
  /\ UNCHANGED <<power, armed, connected, session, down, serverVars, handled, faults>>

(* Mutant of HeartbeatFails: the failure is not counted.                   *)
HeartbeatFailsUncounted ==
  /\ power = "awake"
  /\ connected
  /\ session = "none"
  /\ UNCHANGED vars

HeartbeatFails ==
  /\ power = "awake"
  /\ connected
  /\ session = "none"
  /\ \/ /\ failures + 1 < MaxFailures
        /\ failures' = failures + 1
        /\ UNCHANGED <<connected, session, down>>
     \/ /\ failures + 1 >= MaxFailures
        /\ failures' = 0
        /\ \E s \in {"none", "open", "subscribed"} : Reconnect(s)
  /\ UNCHANGED <<power, armed, up, serverVars, handled, faults>>

HeartbeatOffline(s) ==
  /\ power = "awake"
  /\ ~connected
  /\ Reconnect(s)
  /\ UNCHANGED <<power, armed, failures, up, serverVars, handled, faults>>

(* Captures, uploads and schedules report as they go.                      *)
ReportWork ==
  /\ power = "awake"
  /\ connected
  /\ session # "none"
  /\ Report(session, "other")
  /\ UNCHANGED <<boardVars, session, down, serverVars, handled, faults>>

(* MQTT_ProcessLoop: one recv takes the first k packets of the stream and  *)
(* only the first is looked at; it is lost too when it is cut or follows   *)
(* the end of a PINGRESP or SUBACK in the buffer.                          *)
ProcessLoop(k, intact) ==
  /\ power = "awake"
  /\ connected
  /\ k \in 1..Len(down)
  /\ down' = SubSeq(down, k + 1, Len(down))
  /\ \/ /\ intact
        /\ handled' = Append(handled, down[1].number)
        /\ armed' = CASE down[1].effect = "arm" -> TRUE
                      [] down[1].effect = "disarm" -> FALSE
                      [] down[1].effect = "other" -> armed
     \/ /\ ~intact
        /\ UNCHANGED <<handled, armed>>
  /\ UNCHANGED <<power, connected, failures, session, up, serverVars, faults>>

(* The sleep branch up to STOP2: announce, disconnect, radio off.          *)
GoDormant ==
  /\ power = "awake"
  /\ armed
  /\ power' = "asleep"
  /\ Report(session, "deep_dormant")
  /\ Reconnect("none")
  /\ UNCHANGED <<armed, failures, serverVars, handled, faults>>

Rearmed(button) == armed /\ ~button

(* The sleep branch after STOP2: by the RTC alarm or the button.           *)
Wake(button, s) ==
  /\ power = "asleep"
  /\ power' = "awake"
  /\ armed' = Rearmed(button)
  /\ Reconnect(s)
  /\ IF armed' THEN up' = up ELSE Report(s, "other")
  /\ UNCHANGED <<failures, serverVars, handled, faults>>

(* Power cycle, watchdog or RESET.                                         *)
Reset ==
  /\ faults < MaxFaults
  /\ faults' = faults + 1
  /\ power' = "booting"
  /\ armed' = FALSE
  /\ failures' = 0
  /\ Reconnect("none")
  /\ UNCHANGED <<up, serverVars, handled>>

(* main() up to the online status.  A boot that cannot connect or          *)
(* subscribe resets the chip and starts over (LED_SignalError).            *)
Boot ==
  /\ power = "booting"
  /\ power' = "awake"
  /\ Reconnect("subscribed")
  /\ Report("subscribed", "online")
  /\ UNCHANGED <<armed, failures, serverVars, handled, faults>>

(* The TCP connection dies; the board learns of it from failing publishes. *)
BreakLink ==
  /\ session # "none"
  /\ session' = "none"
  /\ down' = <<>>
  /\ UNCHANGED <<boardVars, up, serverVars, handled, faults>>
------------------------------------------------------------------------------
Sessions == {"none", "open", "subscribed"}

Init ==
  /\ power = "booting" /\ armed = FALSE
  /\ connected = FALSE /\ failures = 0
  /\ session = "none" /\ down = <<>> /\ up = <<>>
  /\ boardState = "unknown" /\ queue = <<>>
  /\ sent = 0 /\ handled = <<>> /\ everQueued = {} /\ faults = 0

SomeProcessLoop == \E k \in 1..MaxSent, intact \in BOOLEAN : ProcessLoop(k, intact)

(* All but a break of the link.                                            *)
Step ==
  \/ \E e \in Effects : SendCommand(e)
  \/ ReceiveStatus \/ LoseStatus \/ ServerRestart
  \/ HeartbeatSent \/ HeartbeatFails
  \/ \E s \in Sessions : HeartbeatOffline(s)
  \/ Reset \/ Boot
  \/ ReportWork
  \/ SomeProcessLoop
  \/ GoDormant
  \/ \E button \in BOOLEAN, s \in Sessions : Wake(button, s)

Next == Step \/ BreakLink

Spec == Init /\ [][Next]_vars

(* The heartbeat is sent on every 5 s tick of the main loop; a boot or a   *)
(* reconnect attempted for ever succeeds in the end, and so does a status  *)
(* message: the network is not down for good.                              *)
FairSpec ==
  /\ Spec
  /\ SF_vars(Boot)
  /\ WF_vars(HeartbeatFails)
  /\ SF_vars(HeartbeatSent)
  /\ SF_vars(HeartbeatOffline("open") \/ HeartbeatOffline("subscribed"))
  /\ SF_vars(ReceiveStatus)

(* Nothing goes wrong: every connection is made and subscribed, the board  *)
(* goes to sleep with nothing under way, and every packet it looks at is   *)
(* whole.                                                                  *)
Undisturbed ==
  /\ power' = "awake" => session' \in {session, "subscribed"}
  /\ (power = "awake" /\ power' = "asleep") => down = <<>> /\ up = <<>>
  /\ Len(down') < Len(down) => handled' # handled

SteadySpec == Init /\ [][Step /\ Undisturbed]_vars
------------------------------------------------------------------------------
Commands == [number : 1..MaxSent, effect : Effects]

(* Types of the state; the broker has no session the board has no part in. *)
TypeOK ==
  /\ power \in {"booting", "awake", "asleep"}
  /\ armed \in BOOLEAN /\ connected \in BOOLEAN
  /\ failures \in 0..(MaxFailures - 1)
  /\ session \in Sessions
  /\ session # "none" => connected /\ power = "awake"
  /\ down \in Seq(Commands)
  /\ up \in Seq(Statuses)
  /\ boardState \in {"unknown", "online", "deep_dormant"}
  /\ queue \in Seq(Commands)
  /\ sent \in 0..MaxSent
  /\ handled \in Seq(1..MaxSent)
  /\ everQueued \subseteq 1..MaxSent
  /\ faults \in 0..MaxFaults

(* The queue is flushed whenever the server learns the board is there: it  *)
(* never holds commands while new ones are published past it.              *)
QueueOnlyWhileDormant == queue # <<>> => boardState = "deep_dormant"

(* Across queueing, flushing, sleep, reconnects, resets and restarts the   *)
(* board runs each command at most once and in the order they were sent.   *)
Fifo == INSTANCE LossyFifo WITH pending <- Numbers(down \o queue)
FifoRefined == Fifo!FifoSpec

(* The escape hatch: a board that is awake and no longer set to sleep is   *)
(* treated as reachable again, unless a command sets it to sleep anew.     *)
AwakeIsReachable ==
  (power = "awake" /\ ~armed) ~> (boardState # "deep_dormant" \/ armed)

(* README: "commands issued during deep sleep are never lost".  A command  *)
(* that was queued has been handled or is still on its way.                *)
DormantNeverLost ==
  \A n \in everQueued :
    \/ \E i \in DOMAIN handled : handled[i] = n
    \/ \E i \in DOMAIN (down \o queue) : (down \o queue)[i].number = n
==============================================================================
