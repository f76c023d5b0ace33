------------------------ MODULE CommandDeliveryProofs ------------------------
(***************************************************************************)
(* Theorems about CommandDelivery: its types, the discipline of the        *)
(* server's queue, and that commands are run at most once and in the order *)
(* they were sent, whatever sleeps, resets and breaks in between.          *)
(***************************************************************************)
EXTENDS CommandDelivery, SequenceTheorems, TLAPS

USE DeliveryConstants

LEMMA CommandSequences ==
  /\ <<>> \in Seq(Commands)
  /\ \A s, t \in Seq(Commands) : s \o t \in Seq(Commands)
  /\ \A s \in Seq(Commands), c \in Commands : Append(s, c) \in Seq(Commands)
OBVIOUS

LEMMA CommandTail ==
  ASSUME NEW s \in Seq(Commands), NEW k \in 1..Len(s)
  PROVE  /\ SubSeq(s, k + 1, Len(s)) \in Seq(Commands)
         /\ Len(SubSeq(s, k + 1, Len(s))) = Len(s) - k
         /\ \A i \in 1..(Len(s) - k) : SubSeq(s, k + 1, Len(s))[i] = s[k + i]
<1>1. Len(s) \in Nat /\ k \in Nat /\ k <= Len(s)
  OBVIOUS
<1>2. \A i \in (k + 1)..Len(s) : s[i] \in Commands
  BY <1>1
<1> QED
  BY <1>1, <1>2, SubSeqProperties

(* Publishing and flushing keep the sequences well typed.                  *)
LEMMA PublishTypes ==
  ASSUME TypeOK, NEW cmds \in Seq(Commands), Publish(cmds)
  PROVE  down' \in Seq(Commands)
BY CommandSequences DEF Publish, TypeOK

LEMMA NoteStatusTypes ==
  ASSUME TypeOK, NEW s \in Statuses, NoteStatus(s)
  PROVE  /\ down' \in Seq(Commands) /\ queue' \in Seq(Commands)
         /\ boardState' \in {"online", "deep_dormant"}
<1>1. CASE UNCHANGED <<queue, down>>
  BY <1>1 DEF NoteStatus, FlushQueue, TypeOK
<1>2. CASE FlushQueue
  <2>1. down' \in Seq(Commands) /\ queue' \in Seq(Commands)
    BY <1>2, PublishTypes, CommandSequences DEF FlushQueue, TypeOK
  <2> QED
    BY <2>1 DEF NoteStatus
<1> QED
  BY <1>1, <1>2 DEF NoteStatus

LEMMA ReportTypes ==
  ASSUME TypeOK, NEW s, NEW st \in Statuses, Report(s, st)
  PROVE  up' \in Seq(Statuses)
<1>1. up \in Seq(Statuses)
  BY DEF TypeOK
<1>2. up' = up \/ up' = Append(up, st)
  BY DEF Report
<1> QED
  BY <1>1, <1>2

LEMMA ReconnectTypes ==
  ASSUME NEW s \in Sessions, Reconnect(s)
  PROVE  /\ session' \in Sessions /\ connected' \in BOOLEAN
         /\ down' \in Seq(Commands)
         /\ session' # "none" => connected'
<1>1. session' = s /\ down' = <<>> /\ connected' = (s # "none")
  BY DEF Reconnect
<1>2. down' \in Seq(Commands)
  BY <1>1, CommandSequences
<1>3. connected' \in BOOLEAN /\ (session' # "none" => connected')
  BY <1>1, Zenon
<1> QED
  BY <1>1, <1>2, <1>3

(* Every step of the server, the broker and the board keeps the types.     *)
LEMMA Typing == TypeOK /\ [Next]_vars => TypeOK'
<1> SUFFICES ASSUME TypeOK, [Next]_vars PROVE TypeOK'
  OBVIOUS
<1> USE DEF boardVars, serverVars
<1>1. ASSUME NEW e \in Effects, SendCommand(e) PROVE TypeOK'
  <2> DEFINE cmd == [number |-> sent + 1, effect |-> e]
  <2>1. sent' = sent + 1 /\ sent' \in 0..MaxSent /\ sent + 1 \in 1..MaxSent
    BY <1>1 DEF SendCommand, TypeOK
  <2>2. cmd \in Commands
    BY <2>1 DEF Commands
  <2>3. \/ queue' = Append(queue, cmd) /\ everQueued' = everQueued \union {sent + 1}
           /\ down' = down
        \/ Publish(<<cmd>>) /\ UNCHANGED <<queue, everQueued>>
    BY <1>1 DEF SendCommand
  <2>4. <<cmd>> \in Seq(Commands)
    BY <2>2
  <2>5. queue' \in Seq(Commands) /\ down' \in Seq(Commands)
    <3> HIDE DEF cmd
    <3> QED
      BY <2>2, <2>3, <2>4, PublishTypes, CommandSequences DEF TypeOK
  <2>6. everQueued' \subseteq 1..MaxSent
    BY <2>1, <2>3 DEF TypeOK
  <2>7. UNCHANGED <<power, armed, connected, failures, session, up, boardState, handled, faults>>
    BY <1>1 DEF SendCommand
  <2> QED
    BY <2>1, <2>5, <2>6, <2>7 DEF TypeOK
<1>2. CASE ReceiveStatus
  <2>1. Head(up) \in Statuses /\ up' \in Seq(Statuses)
    BY <1>2 DEF ReceiveStatus, TypeOK
  <2>2. NoteStatus(Head(up))
    BY <1>2 DEF ReceiveStatus
  <2> QED
    BY <1>2, <2>1, <2>2, NoteStatusTypes DEF ReceiveStatus, TypeOK
<1>3. CASE LoseStatus
  <2>1. up' \in Seq(Statuses)
    BY <1>3 DEF LoseStatus, TypeOK
  <2> QED
    BY <1>3, <2>1 DEF LoseStatus, TypeOK
<1>4. CASE ServerRestart
  <2>1. faults' \in 0..MaxFaults
    BY <1>4 DEF ServerRestart, TypeOK
  <2> QED
    BY <1>4, <2>1, CommandSequences DEF ServerRestart, TypeOK
<1>5. CASE HeartbeatSent \/ ReportWork
  <2>1. \E st \in Statuses : Report(session, st)
    BY <1>5 DEF HeartbeatSent, ReportWork, Statuses
  <2>2. up' \in Seq(Statuses)
    BY <2>1, ReportTypes
  <2>3. failures' \in 0..(MaxFailures - 1)
    BY <1>5 DEF HeartbeatSent, ReportWork, TypeOK
  <2>4. UNCHANGED <<power, armed, connected, session, down, boardState, queue, sent, everQueued,
                    handled, faults>>
    BY <1>5 DEF HeartbeatSent, ReportWork
  <2> QED
    BY <2>2, <2>3, <2>4 DEF TypeOK
<1>6. CASE HeartbeatFails
  <2>1. failures' \in 0..(MaxFailures - 1)
    <3>1. \/ failures + 1 < MaxFailures /\ failures' = failures + 1
          \/ failures' = 0
      BY <1>6 DEF HeartbeatFails
    <3>2. failures \in 0..(MaxFailures - 1)
      BY DEF TypeOK
    <3> QED
      BY <3>1, <3>2
  <2>2. power = "awake" /\ UNCHANGED <<power, armed, up, boardState, queue, sent, everQueued,
                                       handled, faults>>
    BY <1>6 DEF HeartbeatFails
  <2>3. CASE UNCHANGED <<connected, session, down>>
    BY <2>1, <2>2, <2>3 DEF TypeOK
  <2>4. CASE \E s \in {"none", "open", "subscribed"} : Reconnect(s)
    BY <2>1, <2>2, <2>4, ReconnectTypes DEF TypeOK, Sessions
  <2> QED
    BY <1>6, <2>3, <2>4 DEF HeartbeatFails
<1>7. ASSUME NEW s \in Sessions, HeartbeatOffline(s) PROVE TypeOK'
  BY <1>7, ReconnectTypes DEF HeartbeatOffline, TypeOK
<1>8. ASSUME NEW k \in 1..MaxSent, NEW intact \in BOOLEAN, ProcessLoop(k, intact)
      PROVE  TypeOK'
  <2>1. down' \in Seq(Commands)
    BY <1>8, CommandTail DEF ProcessLoop, TypeOK
  <2>2. down[1] \in Commands /\ down[1].number \in 1..MaxSent
    <3>1. down \in Seq(Commands) /\ k \in 1..Len(down)
      BY <1>8 DEF ProcessLoop, TypeOK
    <3>2. down[1] \in Commands
      BY <3>1
    <3> QED
      BY <3>2 DEF Commands
  <2>3. handled' \in Seq(1..MaxSent)
    <3>1. handled' = handled \/ handled' = Append(handled, down[1].number)
      BY <1>8 DEF ProcessLoop
    <3>2. handled \in Seq(1..MaxSent)
      BY DEF TypeOK
    <3> QED
      BY <2>2, <3>1, <3>2
  <2>4. armed' \in BOOLEAN
    <3>1. down[1].effect \in {"arm", "disarm", "other"}
      BY <2>2 DEF Commands, Effects
    <3>2. \/ armed' = CASE down[1].effect = "arm" -> TRUE
                        [] down[1].effect = "disarm" -> FALSE
                        [] down[1].effect = "other" -> armed
          \/ armed' = armed
      BY <1>8 DEF ProcessLoop
    <3>3. armed' \in {TRUE, FALSE, armed}
      BY <3>1, <3>2
    <3> QED
      BY <3>3 DEF TypeOK
  <2>5. UNCHANGED <<power, connected, failures, session, up, boardState, queue, sent, everQueued,
                    faults>>
    BY <1>8 DEF ProcessLoop
  <2> QED
    BY <2>1, <2>3, <2>4, <2>5 DEF TypeOK
<1>9. CASE GoDormant
  <2>1. "deep_dormant" \in Statuses /\ "none" \in Sessions
    BY DEF Statuses, Sessions
  <2>2. up' \in Seq(Statuses)
    BY <1>9, <2>1, ReportTypes DEF GoDormant
  <2>3. session' = "none" /\ connected' \in BOOLEAN /\ down' \in Seq(Commands)
    BY <1>9, <2>1, ReconnectTypes DEF GoDormant, Reconnect
  <2> QED
    BY <1>9, <2>1, <2>2, <2>3 DEF GoDormant, TypeOK
<1>10. ASSUME NEW button \in BOOLEAN, NEW s \in Sessions, Wake(button, s) PROVE TypeOK'
  <2>1. up' \in Seq(Statuses)
    <3>1. "other" \in Statuses
      BY DEF Statuses
    <3>2. up' = up \/ Report(s, "other")
      BY <1>10 DEF Wake
    <3> QED
      BY <3>1, <3>2, ReportTypes DEF TypeOK
  <2>2. armed' \in BOOLEAN /\ power' = "awake"
    BY <1>10 DEF Wake, Rearmed, TypeOK
  <2>3. session' \in Sessions /\ connected' \in BOOLEAN /\ down' \in Seq(Commands)
        /\ (session' # "none" => connected')
    BY <1>10, ReconnectTypes DEF Wake
  <2>4. UNCHANGED <<failures, boardState, queue, sent, everQueued, handled, faults>>
    BY <1>10 DEF Wake
  <2> QED
    BY <2>1, <2>2, <2>3, <2>4 DEF TypeOK
<1>11. CASE Reset
  <2>1. faults' \in 0..MaxFaults /\ failures' \in 0..(MaxFailures - 1)
    BY <1>11 DEF Reset, TypeOK
  <2>2. session' = "none" /\ connected' \in BOOLEAN /\ down' \in Seq(Commands)
        /\ "none" \in Sessions
    BY <1>11, ReconnectTypes DEF Reset, Reconnect, Sessions
  <2> QED
    BY <1>11, <2>1, <2>2 DEF Reset, TypeOK
<1>12. CASE Boot
  <2>1. "online" \in Statuses /\ "subscribed" \in Sessions
    BY DEF Statuses, Sessions
  <2>2. up' \in Seq(Statuses)
    BY <1>12, <2>1, ReportTypes DEF Boot
  <2>3. session' \in Sessions /\ connected' = TRUE /\ down' \in Seq(Commands)
    BY <1>12, <2>1, ReconnectTypes DEF Boot, Reconnect
  <2> QED
    BY <1>12, <2>2, <2>3 DEF Boot, TypeOK
<1>13. CASE BreakLink
  BY <1>13, CommandSequences DEF BreakLink, TypeOK, Sessions
<1>14. CASE UNCHANGED vars
  BY <1>14 DEF vars, TypeOK
<1> QED
  BY <1>1, <1>2, <1>3, <1>4, <1>5, <1>6, <1>7, <1>8, <1>9, <1>10, <1>11, <1>12, <1>13, <1>14
  DEF Next, Step, SomeProcessLoop

(* The type invariant holds for any number of commands, statuses, faults   *)
(* and tolerated failures.                                                 *)
THEOREM TypeCorrect == Spec => []TypeOK
<1>1. Init => TypeOK
  <2> SUFFICES ASSUME Init PROVE TypeOK
    OBVIOUS
  <2>1. down \in Seq(Commands) /\ queue \in Seq(Commands) /\ up \in Seq(Statuses)
        /\ handled \in Seq(1..MaxSent)
    BY CommandSequences DEF Init
  <2>2. failures \in 0..(MaxFailures - 1) /\ sent \in 0..MaxSent /\ faults \in 0..MaxFaults
    BY DEF Init
  <2> QED
    BY <2>1, <2>2 DEF Init, TypeOK, Sessions
<1> QED
  BY <1>1, Typing, PTL DEF Spec
------------------------------------------------------------------------------
(* The server's queue.                                                     *)

LEMMA QueueStep == TypeOK /\ QueueOnlyWhileDormant /\ [Next]_vars => QueueOnlyWhileDormant'
<1> SUFFICES ASSUME TypeOK, QueueOnlyWhileDormant, [Next]_vars PROVE QueueOnlyWhileDormant'
  OBVIOUS
<1>1. ASSUME UNCHANGED <<boardState, queue>> PROVE QueueOnlyWhileDormant'
  BY <1>1 DEF QueueOnlyWhileDormant
<1>2. ASSUME NEW e \in Effects, SendCommand(e) PROVE QueueOnlyWhileDormant'
  BY <1>2 DEF SendCommand, QueueOnlyWhileDormant
<1>3. ASSUME NEW s, NoteStatus(s) PROVE QueueOnlyWhileDormant'
  <2>1. CASE FlushQueue
    BY <2>1 DEF FlushQueue, QueueOnlyWhileDormant
  <2>2. CASE UNCHANGED queue
    BY <1>3, <2>1, <2>2 DEF NoteStatus, QueueOnlyWhileDormant
  <2> QED
    BY <1>3, <2>1, <2>2 DEF NoteStatus
<1>4. CASE ReceiveStatus
  BY <1>3, <1>4 DEF ReceiveStatus
<1>5. CASE ServerRestart
  BY <1>5 DEF ServerRestart, QueueOnlyWhileDormant
<1>6. CASE \/ LoseStatus \/ HeartbeatSent \/ HeartbeatFails \/ ReportWork \/ GoDormant
           \/ Reset \/ Boot \/ BreakLink \/ UNCHANGED vars
  BY <1>1, <1>6 DEF LoseStatus, HeartbeatSent, HeartbeatFails, ReportWork, GoDormant,
     Reset, Boot, BreakLink, vars, serverVars
<1>7. CASE \/ \E s \in Sessions : HeartbeatOffline(s)
           \/ SomeProcessLoop
           \/ \E button \in BOOLEAN, s \in Sessions : Wake(button, s)
  BY <1>1, <1>7 DEF HeartbeatOffline, SomeProcessLoop, ProcessLoop, Wake, serverVars
<1> QED
  BY <1>2, <1>4, <1>5, <1>6, <1>7 DEF Next, Step

(* The server never publishes a command past older ones it still holds:    *)
(* send_board_command publishes only when nothing is queued.               *)
THEOREM QueueDiscipline == Spec => []QueueOnlyWhileDormant
<1>1. Init => QueueOnlyWhileDormant
  BY DEF Init, QueueOnlyWhileDormant
<1> QED
  BY <1>1, TypeCorrect, QueueStep, PTL DEF Spec
------------------------------------------------------------------------------
(* At most once and in order.                                              *)

(* A stretch of t, from its (n + 1)-th element on, leaves out the rest.    *)
LEMMA Stretch ==
  ASSUME NEW s \in Seq(Nat), NEW t \in Seq(Nat), NEW n \in Nat,
         n + Len(s) <= Len(t),
         \A i \in 1..Len(s) : s[i] = t[n + i]
  PROVE  Fifo!LeavesOut(s, t)
<1> DEFINE f == [i \in DOMAIN s |-> n + i]
<1>1. Len(s) \in Nat /\ Len(t) \in Nat /\ DOMAIN s = 1..Len(s) /\ DOMAIN t = 1..Len(t)
  OBVIOUS
<1>2. f \in [DOMAIN s -> DOMAIN t]
  BY <1>1
<1>3. \A i, j \in DOMAIN s : i < j => f[i] < f[j]
  BY <1>1
<1>4. \A i \in DOMAIN s : s[i] = t[f[i]]
  BY <1>1
<1> HIDE DEF f
<1> QED
  BY <1>2, <1>3, <1>4 DEF Fifo!LeavesOut

(* The numbers of a sequence of commands.                                  *)
LEMMA NumbersOf ==
  ASSUME NEW s \in Seq(Commands)
  PROVE  /\ Numbers(s) \in Seq(Nat)
         /\ Len(Numbers(s)) = Len(s)
         /\ \A i \in 1..Len(s) : Numbers(s)[i] = s[i].number
<1>1. Len(s) \in Nat /\ DOMAIN s = 1..Len(s)
  OBVIOUS
<1>2. \A i \in 1..Len(s) : s[i].number \in Nat
  <2>1. \A i \in 1..Len(s) : s[i] \in Commands
    OBVIOUS
  <2> QED
    BY <2>1 DEF Commands
<1>3. Numbers(s) \in [1..Len(s) -> Nat]
  BY <1>1, <1>2 DEF Numbers
<1> QED
  BY <1>1, <1>3 DEF Numbers

(* A stretch of the commands under way gives a stretch of their numbers.   *)
LEMMA StretchOfCommands ==
  ASSUME NEW s \in Seq(Commands), NEW t \in Seq(Commands), NEW n \in Nat,
         n + Len(s) <= Len(t),
         \A i \in 1..Len(s) : s[i] = t[n + i]
  PROVE  Fifo!LeavesOut(Numbers(s), Numbers(t))
<1>1. Len(s) \in Nat /\ Len(t) \in Nat
  OBVIOUS
<1>2. \A i \in 1..Len(s) : n + i \in 1..Len(t)
  BY <1>1
<1>3. \A i \in 1..Len(s) : Numbers(s)[i] = Numbers(t)[n + i]
  BY <1>2, NumbersOf
<1> QED
  BY <1>3, NumbersOf, Stretch

UnderWay == down \o queue

(* What two concatenated sequences hold.                                   *)
LEMMA Concatenation ==
  ASSUME NEW s \in Seq(Commands), NEW t \in Seq(Commands)
  PROVE  /\ s \o t \in Seq(Commands)
         /\ Len(s \o t) = Len(s) + Len(t)
         /\ \A i \in 1..Len(s) : (s \o t)[i] = s[i]
         /\ \A i \in 1..Len(t) : (s \o t)[Len(s) + i] = t[i]
OBVIOUS

LEMMA LoseStep ==
  ASSUME UnderWay \in Seq(Commands), UnderWay' \in Seq(Commands), NEW n \in Nat,
         n + Len(UnderWay') <= Len(UnderWay),
         \A i \in 1..Len(UnderWay') : UnderWay'[i] = UnderWay[n + i],
         UNCHANGED <<sent, handled>>
  PROVE  Fifo!Lose
<1>1. Fifo!LeavesOut(Numbers(UnderWay'), Numbers(UnderWay))
  BY StretchOfCommands
<1>2. Numbers(UnderWay') = Numbers(down \o queue)' /\ Numbers(UnderWay) = Numbers(down \o queue)
  BY DEF UnderWay, Numbers
<1> QED
  BY <1>1, <1>2 DEF Fifo!Lose

(* The commands on their way to the board are gone, the queue is not.      *)
LEMMA DropDown ==
  ASSUME TypeOK, down' = <<>>, UNCHANGED <<queue, sent, handled>>
  PROVE  Fifo!Lose
<1>1. down \in Seq(Commands) /\ queue \in Seq(Commands)
  BY DEF TypeOK
<1>2. UnderWay' = queue
  BY <1>1 DEF UnderWay
<1>3. Len(down) \in Nat
  BY <1>1
<1>4. /\ UnderWay \in Seq(Commands) /\ Len(UnderWay) = Len(down) + Len(queue)
      /\ \A i \in 1..Len(queue) : queue[i] = UnderWay[Len(down) + i]
  BY <1>1, Concatenation DEF UnderWay
<1>5. Len(queue) \in Nat /\ UnderWay' \in Seq(Commands)
  BY <1>1, <1>2
<1>6. /\ Len(down) + Len(UnderWay') <= Len(UnderWay)
      /\ \A i \in 1..Len(UnderWay') : UnderWay'[i] = UnderWay[Len(down) + i]
  BY <1>2, <1>3, <1>4, <1>5
<1>7. UNCHANGED <<sent, handled>>
  OBVIOUS
<1> QED
  BY <1>3, <1>4, <1>5, <1>6, <1>7, LoseStep

LEMMA SameUnderWay ==
  ASSUME TypeOK, UnderWay' = UnderWay, UNCHANGED <<sent, handled>>
  PROVE  Fifo!Lose
<1>1. UnderWay \in Seq(Commands)
  BY Concatenation DEF TypeOK, UnderWay
<1>2. Len(UnderWay) \in Nat /\ \A i \in 1..Len(UnderWay) : UnderWay[i] = UnderWay[0 + i]
  BY <1>1
<1>3. /\ UnderWay' \in Seq(Commands) /\ 0 + Len(UnderWay') <= Len(UnderWay)
      /\ \A i \in 1..Len(UnderWay') : UnderWay'[i] = UnderWay[0 + i]
  BY <1>1, <1>2
<1>4. UNCHANGED <<sent, handled>>
  OBVIOUS
<1> QED
  BY <1>1, <1>3, <1>4, LoseStep

LEMMA NoteStatusStep ==
  ASSUME TypeOK, NEW s \in Statuses, NoteStatus(s), UNCHANGED <<sent, handled>>
  PROVE  Fifo!Lose
<1>1. down \in Seq(Commands) /\ queue \in Seq(Commands)
  BY DEF TypeOK
<1>2. CASE UNCHANGED <<queue, down>>
  BY <1>2, SameUnderWay DEF UnderWay
<1>3. CASE queue' = <<>> /\ down' = down \o queue
  <2>1. UnderWay' = UnderWay
    BY <1>1, <1>3, Concatenation DEF UnderWay
  <2> QED
    BY <2>1, SameUnderWay
<1>4. CASE queue' = <<>> /\ down' = down
  <2>1. UnderWay' = down
    BY <1>1, <1>4 DEF UnderWay
  <2>2. Len(down) \in Nat /\ Len(queue) \in Nat /\ \A i \in 1..Len(down) : 0 + i = i
    BY <1>1
  <2>3. /\ UnderWay \in Seq(Commands) /\ 0 + Len(down) <= Len(UnderWay)
        /\ \A i \in 1..Len(down) : down[i] = UnderWay[0 + i]
    BY <1>1, <2>2, Concatenation DEF UnderWay
  <2> QED
    BY <1>1, <2>1, <2>3, LoseStep
<1> QED
  BY <1>2, <1>3, <1>4 DEF NoteStatus, FlushQueue, Publish

(* A command sent is appended after all those under way: published only    *)
(* when the queue is empty, queued otherwise.                              *)
LEMMA SendStep ==
  ASSUME TypeOK, QueueOnlyWhileDormant, NEW e \in Effects, SendCommand(e)
  PROVE  Fifo!Send
<1> DEFINE cmd == [number |-> sent + 1, effect |-> e]
           t == Append(Numbers(UnderWay), sent + 1)
<1>1. /\ down \in Seq(Commands) /\ queue \in Seq(Commands) /\ sent + 1 \in Nat
      /\ cmd \in Commands /\ cmd.number = sent + 1
  BY DEF TypeOK, SendCommand, Commands
<1>2. sent' = sent + 1 /\ handled' = handled
  BY DEF SendCommand
<1>3. UnderWay' = Append(UnderWay, cmd) \/ UnderWay' = UnderWay
  <2>1. \/ queue' = Append(queue, cmd) /\ down' = down
        \/ queue = <<>> /\ queue' = <<>> /\ (down' = down \o <<cmd>> \/ down' = down)
    BY DEF SendCommand, Publish, QueueOnlyWhileDormant
  <2> HIDE DEF cmd
  <2>2. CASE queue' = Append(queue, cmd) /\ down' = down
    BY <1>1, <2>2 DEF UnderWay
  <2>3. CASE queue = <<>> /\ queue' = <<>> /\ down' = down \o <<cmd>>
    BY <1>1, <2>3 DEF UnderWay
  <2>4. CASE queue = <<>> /\ queue' = <<>> /\ down' = down
    BY <1>1, <2>4 DEF UnderWay
  <2> QED
    BY <2>1, <2>2, <2>3, <2>4
<1>4. UnderWay \in Seq(Commands) /\ UnderWay' \in Seq(Commands)
  <2> HIDE DEF cmd
  <2>1. UnderWay \in Seq(Commands)
    BY <1>1, Concatenation DEF UnderWay
  <2>2. Append(UnderWay, cmd) \in Seq(Commands)
    BY <1>1, <2>1, CommandSequences
  <2> QED
    BY <1>3, <2>1, <2>2
<1>5. /\ Numbers(UnderWay) \in Seq(Nat) /\ Numbers(UnderWay') \in Seq(Nat)
      /\ Len(Numbers(UnderWay)) = Len(UnderWay) /\ Len(Numbers(UnderWay')) = Len(UnderWay')
      /\ \A i \in 1..Len(UnderWay) : Numbers(UnderWay)[i] = UnderWay[i].number
      /\ \A i \in 1..Len(UnderWay') : Numbers(UnderWay')[i] = UnderWay'[i].number
  BY <1>4, NumbersOf
<1>6. /\ t \in Seq(Nat) /\ Len(t) = Len(UnderWay) + 1 /\ t[Len(UnderWay) + 1] = sent + 1
      /\ \A i \in 1..Len(UnderWay) : t[i] = UnderWay[i].number
  <2>1. t \in Seq(Nat) /\ Len(t) = Len(UnderWay) + 1 /\ t[Len(UnderWay) + 1] = sent + 1
    BY <1>1, <1>5
  <2>2. \A i \in 1..Len(UnderWay) : t[i] = Numbers(UnderWay)[i]
    BY <1>1, <1>5
  <2> QED
    BY <1>5, <2>1, <2>2
<1>7. /\ Len(UnderWay') <= Len(UnderWay) + 1
      /\ \A i \in 1..Len(UnderWay') : UnderWay'[i].number = t[i]
  <2> HIDE DEF t, cmd
  <2>1. Len(UnderWay) \in Nat
    BY <1>4
  <2>2. CASE UnderWay' = UnderWay
    BY <1>6, <2>1, <2>2
  <2>3. CASE UnderWay' = Append(UnderWay, cmd)
    <3>1. /\ Len(UnderWay') = Len(UnderWay) + 1 /\ UnderWay'[Len(UnderWay) + 1] = cmd
          /\ \A i \in 1..Len(UnderWay) : UnderWay'[i] = UnderWay[i]
      BY <1>1, <1>4, <2>3
    <3>2. \A i \in 1..(Len(UnderWay) + 1) : i \in 1..Len(UnderWay) \/ i = Len(UnderWay) + 1
      BY <2>1
    <3>3. ASSUME NEW i \in 1..Len(UnderWay') PROVE UnderWay'[i].number = t[i]
      <4>1. CASE i \in 1..Len(UnderWay)
        BY <1>6, <3>1, <4>1
      <4>2. CASE i = Len(UnderWay) + 1
        BY <1>1, <1>6, <3>1, <4>2
      <4> QED
        BY <3>1, <3>2, <4>1, <4>2
    <3>4. Len(UnderWay') <= Len(UnderWay) + 1
      BY <2>1, <3>1
    <3> QED
      BY <3>3, <3>4
  <2> QED
    BY <1>3, <2>2, <2>3
<1> HIDE DEF t
<1>8. Fifo!LeavesOut(Numbers(UnderWay'), t)
  <2>1. Len(UnderWay') \in Nat /\ \A i \in 1..Len(UnderWay') : 0 + i = i
    BY <1>4
  <2>2. \A i \in 1..Len(Numbers(UnderWay')) : Numbers(UnderWay')[i] = t[0 + i]
    BY <1>5, <1>7, <2>1
  <2>3. 0 + Len(Numbers(UnderWay')) <= Len(t)
    BY <1>5, <1>6, <1>7, <2>1
  <2> QED
    BY <1>5, <1>6, <2>2, <2>3, Stretch
<1> QED
  BY <1>2, <1>8 DEF Fifo!Send, UnderWay, Numbers, t

(* One read handles the first command under way, drops those that came     *)
(* with it, or loses them all.                                             *)
LEMMA ProcessLoopStep ==
  ASSUME TypeOK, NEW k \in 1..MaxSent, NEW intact \in BOOLEAN, ProcessLoop(k, intact)
  PROVE  Fifo!Handle \/ Fifo!Lose
<1> DEFINE rest == SubSeq(down, k + 1, Len(down))
<1>1. /\ down \in Seq(Commands) /\ queue \in Seq(Commands) /\ k \in 1..Len(down)
      /\ down' = rest /\ queue' = queue /\ sent' = sent
      /\ handled' = Append(handled, down[1].number) \/ handled' = handled
  BY DEF ProcessLoop, TypeOK, serverVars
<1>2. /\ rest \in Seq(Commands) /\ Len(rest) = Len(down) - k
      /\ \A i \in 1..Len(rest) : rest[i] = down[k + i]
  BY <1>1, CommandTail
<1> HIDE DEF rest
<1>3. Len(down) \in Nat /\ Len(queue) \in Nat /\ k \in Nat /\ k >= 1 /\ k <= Len(down)
  BY <1>1
<1>4. UnderWay' = rest \o queue
  BY <1>1 DEF UnderWay
<1>5. /\ UnderWay \in Seq(Commands) /\ UnderWay' \in Seq(Commands)
      /\ Len(UnderWay) = Len(down) + Len(queue)
      /\ Len(UnderWay') = Len(down) - k + Len(queue)
  BY <1>1, <1>2, <1>4, Concatenation DEF UnderWay
<1>6. \A i \in 1..Len(UnderWay') : UnderWay'[i] = UnderWay[k + i]
  <2> SUFFICES ASSUME NEW i \in 1..Len(UnderWay') PROVE UnderWay'[i] = UnderWay[k + i]
    OBVIOUS
  <2>1. CASE i \in 1..Len(rest)
    <3>1. UnderWay'[i] = rest[i] /\ rest[i] = down[k + i]
      BY <1>1, <1>2, <1>4, <2>1, Concatenation
    <3>2. k + i \in 1..Len(down)
      BY <1>2, <1>3, <2>1
    <3> QED
      BY <1>1, <3>1, <3>2, Concatenation DEF UnderWay
  <2>2. CASE i \notin 1..Len(rest)
    <3> DEFINE j == i - Len(rest)
    <3>1. j \in 1..Len(queue) /\ Len(rest) + j = i /\ Len(down) + j = k + i
      BY <1>2, <1>3, <1>5, <2>2
    <3> HIDE DEF j
    <3>2. (rest \o queue)[Len(rest) + j] = queue[j]
      BY <1>1, <1>2, <3>1, Concatenation
    <3>3. (down \o queue)[Len(down) + j] = queue[j]
      BY <1>1, <3>1, Concatenation
    <3> QED
      BY <1>4, <3>1, <3>2, <3>3 DEF UnderWay
  <2> QED
    BY <2>1, <2>2
<1>7. CASE handled' = handled
  <2>1. k + Len(UnderWay') <= Len(UnderWay)
    BY <1>3, <1>5
  <2> QED
    BY <1>1, <1>3, <1>5, <1>6, <1>7, <2>1, LoseStep
<1>8. CASE handled' = Append(handled, down[1].number)
  <2> DEFINE p == Numbers(UnderWay)
             t == SubSeq(p, 2, Len(p))
  <2>1. /\ p \in Seq(Nat) /\ Len(p) = Len(UnderWay) /\ Len(p) \in Nat
        /\ \A i \in 1..Len(UnderWay) : p[i] = UnderWay[i].number
    <3>1. /\ p \in Seq(Nat) /\ Len(p) = Len(UnderWay)
          /\ \A i \in 1..Len(UnderWay) : p[i] = UnderWay[i].number
      BY <1>5, NumbersOf
    <3> HIDE DEF p
    <3> QED
      BY <3>1
  <2>2. /\ Numbers(UnderWay') \in Seq(Nat) /\ Len(Numbers(UnderWay')) = Len(UnderWay')
        /\ \A i \in 1..Len(UnderWay') : Numbers(UnderWay')[i] = UnderWay'[i].number
    BY <1>5, NumbersOf
  <2> HIDE DEF p
  <2>3. 1 \in DOMAIN p /\ 1 \in 1..Len(UnderWay) /\ 1 \in 1..Len(down)
    BY <1>3, <1>5, <2>1
  <2>4. p[1] = down[1].number
    <3>1. UnderWay[1] = down[1]
      BY <1>1, <2>3, Concatenation DEF UnderWay
    <3> QED
      BY <2>1, <2>3, <3>1
  <2>5. /\ t \in Seq(Nat) /\ Len(t) = Len(p) - 1
        /\ \A i \in 1..(Len(p) - 1) : t[i] = p[1 + i]
    <3>1. 2 \in 1..(Len(p) + 1) /\ Len(p) \in (2 - 1)..Len(p)
      BY <2>1, <2>3
    <3>2. \A i \in 2..Len(p) : p[i] \in Nat
      BY <2>1
    <3> QED
      BY <2>1, <3>1, <3>2, SubSeqProperties
  <2> HIDE DEF t
  <2>6. Fifo!LeavesOut(Numbers(UnderWay'), t)
    <3>1. k - 1 \in Nat /\ (k - 1) + Len(UnderWay') <= Len(t)
      BY <1>3, <1>5, <2>1, <2>5
    <3>2. \A i \in 1..Len(UnderWay') : Numbers(UnderWay')[i] = t[(k - 1) + i]
      <4> SUFFICES ASSUME NEW i \in 1..Len(UnderWay')
                   PROVE  Numbers(UnderWay')[i] = t[(k - 1) + i]
        OBVIOUS
      <4>1. (k - 1) + i \in 1..(Len(p) - 1) /\ 1 + ((k - 1) + i) = k + i
            /\ k + i \in 1..Len(UnderWay)
        BY <1>3, <1>5, <2>1
      <4>2. t[(k - 1) + i] = p[k + i]
        BY <2>5, <4>1
      <4> QED
        BY <1>6, <2>1, <2>2, <4>1, <4>2
    <3> QED
      BY <2>2, <2>5, <3>1, <3>2, Stretch
  <2>7. /\ Numbers(UnderWay') = Numbers(down \o queue)' /\ p = Numbers(down \o queue)
        /\ t = SubSeq(p, 1 + 1, Len(p))
    BY DEF UnderWay, Numbers, p, t
  <2> QED
    BY <1>1, <1>8, <2>3, <2>4, <2>6, <2>7 DEF Fifo!Handle
<1> QED
  BY <1>1, <1>7, <1>8

(* Every step sends, loses or handles, or leaves the commands alone.       *)
LEMMA FifoStep ==
  TypeOK /\ QueueOnlyWhileDormant /\ [Next]_vars
    => [Fifo!FifoNext]_(Fifo!fifoVars)
<1> SUFFICES ASSUME TypeOK, QueueOnlyWhileDormant, [Next]_vars
             PROVE  Fifo!FifoNext
  OBVIOUS
<1> USE DEF boardVars, serverVars, Fifo!FifoNext
<1>1. ASSUME UNCHANGED <<down, queue, sent, handled>> PROVE Fifo!Lose
  BY <1>1, SameUnderWay DEF UnderWay
<1>2. ASSUME NEW s, Reconnect(s), UNCHANGED <<queue, sent, handled>> PROVE Fifo!Lose
  BY <1>2, DropDown DEF Reconnect
<1>3. ASSUME NEW e \in Effects, SendCommand(e) PROVE Fifo!Send
  BY <1>3, SendStep
<1>4. CASE ReceiveStatus
  <2>1. Head(up) \in Statuses
    BY <1>4 DEF ReceiveStatus, TypeOK
  <2> QED
    BY <1>4, <2>1, NoteStatusStep DEF ReceiveStatus
<1>5. CASE ServerRestart
  <2>1. queue' = <<>> /\ down' = down /\ UNCHANGED <<sent, handled>>
    BY <1>5 DEF ServerRestart
  <2>2. down \in Seq(Commands) /\ queue \in Seq(Commands)
    BY DEF TypeOK
  <2>3. UnderWay' = down
    BY <2>1, <2>2 DEF UnderWay
  <2>4. Len(down) \in Nat /\ Len(queue) \in Nat /\ \A i \in 1..Len(down) : 0 + i = i
    BY <2>2
  <2>5. /\ UnderWay \in Seq(Commands) /\ 0 + Len(down) <= Len(UnderWay)
        /\ \A i \in 1..Len(down) : down[i] = UnderWay[0 + i]
    BY <2>2, <2>4, Concatenation DEF UnderWay
  <2> QED
    BY <2>1, <2>2, <2>3, <2>5, LoseStep
<1>6. CASE LoseStatus \/ HeartbeatSent \/ ReportWork \/ UNCHANGED vars
  BY <1>1, <1>6 DEF LoseStatus, HeartbeatSent, ReportWork, vars
<1>7. CASE HeartbeatFails
  BY <1>1, <1>2, <1>7 DEF HeartbeatFails
<1>8. CASE \/ GoDormant \/ Reset \/ Boot \/ \E s \in Sessions : HeartbeatOffline(s)
           \/ \E button \in BOOLEAN, s \in Sessions : Wake(button, s)
  BY <1>2, <1>8 DEF GoDormant, Reset, Boot, HeartbeatOffline, Wake
<1>9. CASE SomeProcessLoop
  BY <1>9, ProcessLoopStep DEF SomeProcessLoop
<1>10. CASE BreakLink
  BY <1>10, DropDown DEF BreakLink
<1> QED
  BY <1>3, <1>4, <1>5, <1>6, <1>7, <1>8, <1>9, <1>10 DEF Next, Step

(* The command path implements the lossy FIFO: over any number of sleeps,  *)
(* resets, restarts and broken links, no command is run twice and none     *)
(* before an older one.                                                    *)
THEOREM FifoImplemented == Spec => FifoRefined
<1>1. Init => Fifo!FifoInit
  <2> SUFFICES ASSUME Init PROVE Fifo!FifoInit
    OBVIOUS
  <2>1. down \o queue = <<>>
    BY DEF Init
  <2> QED
    BY <2>1 DEF Init, Fifo!FifoInit, Numbers
<1> QED
  BY <1>1, TypeCorrect, QueueDiscipline, FifoStep, PTL
  DEF Spec, FifoRefined, Fifo!FifoSpec

(* Whatever sleeps, resets, restarts and broken links come between, the    *)
(* board runs no command twice and none before one send_command took       *)
(* earlier: by FifoImplemented, what FifoKeepsOrder says of a lossy FIFO.  *)
Promise == INSTANCE LossyFifoProofs WITH pending <- Numbers(down \o queue)

THEOREM CommandsInOrder == Spec => []Fifo!InOrder
<1>1. Promise!FifoSpec => []Promise!InOrder
  BY Promise!FifoKeepsOrder
<1>2. Promise!InOrder <=> Fifo!InOrder
  BY DEF Promise!InOrder, Fifo!InOrder, Promise!Rising, Fifo!Rising
<1>3. Promise!FifoInit <=> Fifo!FifoInit
  BY DEF Promise!FifoInit, Fifo!FifoInit
<1>4. [Promise!FifoNext]_(Promise!fifoVars) <=> [Fifo!FifoNext]_(Fifo!fifoVars)
  BY DEF Promise!FifoNext, Fifo!FifoNext, Promise!fifoVars, Fifo!fifoVars,
         Promise!Send, Fifo!Send, Promise!Lose, Fifo!Lose, Promise!Handle, Fifo!Handle,
         Promise!LeavesOut, Fifo!LeavesOut
<1> QED
  BY <1>1, <1>2, <1>3, <1>4, FifoImplemented, PTL
  DEF FifoRefined, Promise!FifoSpec, Fifo!FifoSpec
==============================================================================
