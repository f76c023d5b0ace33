------------------------ MODULE ScheduleServiceProofs ------------------------
(***************************************************************************)
(* The invariants of ScheduleService, for any number of schedules          *)
(* and requests.                                                           *)
(***************************************************************************)
EXTENDS ScheduleService, SequenceTheorems, TLAPS

USE DEF Troubles

(* The type of a request's record.                                         *)
Request == [step : Steps, target : Schedules \union {"none"}, known : SUBSET Schedules,
            saw : SUBSET Schedules, tells : BOOLEAN, payload : 0..MaxEdition]

LEMMA IdleType == Idle \in Request
  BY ScheduleConstants DEF Idle, Request, Steps

LEMMA ForType ==
  ASSUME NEW s \in Schedules \union {"none"}, NEW step \in Steps
  PROVE  /\ For(s, step) \in Request
         /\ For(s, step).step = step /\ For(s, step).target = s
         /\ For(s, step).known = {}
  BY IdleType DEF For, Idle, Request

(* A request that goes to another step, or ends, keeps its type.           *)
LEMMA GotoType ==
  ASSUME TypeOK, NEW r \in Requests, NEW step \in Steps, Goto(r, step)
  PROVE  request' \in [Requests -> Request]
<1>1. request \in [Requests -> Request]
  BY DEF TypeOK, Request
<1>2. [request[r] EXCEPT !.step = step] \in Request
  BY <1>1 DEF Request
<1> QED BY <1>1, <1>2, IdleType DEF Goto

(* So does one that begins.                                                *)
LEMMA BeginType ==
  ASSUME TypeOK, NEW r \in Requests, NEW q \in Request, Begin(r, q)
  PROVE  /\ request' \in [Requests -> Request]
         /\ started' \in 0..MaxStarted
         /\ trouble' \subseteq Troubles
<1>1. request \in [Requests -> Request]
  BY DEF TypeOK, Request
<1>2. request' \in [Requests -> Request]
  BY <1>1 DEF Begin
<1>3. started' \in 0..MaxStarted
  BY ScheduleConstants DEF Begin, TypeOK
<1> QED BY <1>2, <1>3 DEF Begin, TypeOK

(* What create_schedule of the agent, and Create, begin with.              *)
Browsing == [For("none", "insert") EXCEPT !.known = rows, !.saw = active]
Creating(s, activate) ==
  IF activate THEN [For(s, "list") EXCEPT !.tells = FALSE] ELSE Idle

LEMMA BrowsingIs ==
  ASSUME TypeOK
  PROVE  /\ Browsing \in Request
         /\ Browsing.step = "insert" /\ Browsing.known = rows /\ Browsing.saw = active
<1>1. rows \in SUBSET Schedules /\ active \in SUBSET Schedules
  BY DEF TypeOK
<1>2. For("none", "insert") \in Request /\ For("none", "insert").step = "insert"
  <2>1. "insert" \in Steps /\ "none" \in Schedules \union {"none"}
    BY DEF Steps
  <2> QED BY <2>1, ForType
<1> DEFINE new == For("none", "insert")
<1>3. Browsing = [new EXCEPT !.known = rows, !.saw = active]
  BY DEF Browsing
<1> HIDE DEF new
<1>4. new \in Request /\ new.step = "insert"
  BY <1>2 DEF new
<1> QED BY <1>1, <1>3, <1>4 DEF Request

LEMMA CreatingIs ==
  ASSUME NEW s \in Schedules, NEW activate \in BOOLEAN
  PROVE  /\ Creating(s, activate) \in Request
         /\ Creating(s, activate).step \in {"list", "idle"}
         /\ Creating(s, activate).known = {}
<1>1. CASE activate
  <2>1. "list" \in Steps
    BY DEF Steps
  <2>2. /\ For(s, "list") \in Request
        /\ For(s, "list").step = "list" /\ For(s, "list").known = {}
    BY <2>1, ForType
  <2>3. Creating(s, activate) = [For(s, "list") EXCEPT !.tells = FALSE]
    BY <1>1 DEF Creating
  <2> QED BY <2>2, <2>3 DEF Request
<1>2. CASE ~activate
  <2>1. Creating(s, activate) = Idle
    BY <1>2 DEF Creating
  <2> QED BY <2>1, IdleType DEF Idle
<1> QED BY <1>1, <1>2

(* The requests there are, and what they are at after one database call.   *)
LEMMA AskIs ==
  ASSUME TypeOK, NEW r \in Requests, Ask(r)
  PROVE  /\ \E q \in Request : Begin(r, q) /\ q.step # "commit"
                               /\ (~Browse(r) => q.known = {})
         /\ UNCHANGED <<link, races>>
         /\ \/ Browse(r)
            \/ \E s \in Schedules :
                 \/ \E activate \in BOOLEAN : Create(r, s, activate)
                 \/ Activate(r, s) \/ Update(r, s) \/ Modify(r, s)
                 \/ Deactivate(r, s) \/ Delete(r, s)
<1> DEFINE Is(q) == /\ q \in Request /\ Begin(r, q) /\ q.step # "commit"
                    /\ (~Browse(r) => q.known = {})
<1>1. rows \subseteq Schedules /\ active \subseteq Schedules
  BY DEF TypeOK
<1>2. CASE Browse(r)
  <2>1. Begin(r, Browsing) /\ UNCHANGED <<link, races>>
    BY <1>2 DEF Browse, Browsing
  <2> QED BY <1>2, <2>1, BrowsingIs
<1>3. ASSUME NEW s \in Schedules, NEW activate \in BOOLEAN, Create(r, s, activate)
      PROVE  (\E q : Is(q)) /\ UNCHANGED <<link, races>>
  <2>1. Begin(r, Creating(s, activate)) /\ UNCHANGED <<link, races>>
    BY <1>3 DEF Create, Creating
  <2> QED BY <2>1, CreatingIs
<1>4. ASSUME NEW s \in Schedules, Activate(r, s) \/ Update(r, s) \/ Delete(r, s)
      PROVE  (\E q : Is(q)) /\ UNCHANGED <<link, races>>
  <2>1. PICK step \in {"list", "reread", "clear"} : Begin(r, For(s, step))
    BY <1>4 DEF Activate, Update, Delete
  <2>2. For(s, step) \in Request /\ For(s, step).step = step /\ For(s, step).known = {}
    BY ForType DEF Steps
  <2>3. UNCHANGED <<link, races>>
    BY <1>4 DEF Activate, Update, Delete
  <2> QED BY <2>1, <2>2, <2>3
<1>5. ASSUME NEW s \in Schedules, Modify(r, s) \/ Deactivate(r, s)
      PROVE  (\E q : Is(q)) /\ UNCHANGED <<link, races>>
  <2>1. PICK step \in {"replan", "get"} :
          Begin(r, [For(s, step) EXCEPT !.saw = active \intersect {s}])
    BY <1>5 DEF Modify, Deactivate
  <2> DEFINE q == [For(s, step) EXCEPT !.saw = active \intersect {s}]
  <2>2. q \in Request /\ q.step = step /\ q.known = {}
    BY <1>1, ForType DEF Request, Steps
  <2>3. UNCHANGED <<link, races>>
    BY <1>5 DEF Modify, Deactivate
  <2> QED BY <2>1, <2>2, <2>3
<1> QED BY <1>2, <1>3, <1>4, <1>5 DEF Ask

(* What a request's record keeps when only its step and one reading change. *)
LEMMA RecordType ==
  ASSUME TypeOK, NEW r \in Requests
  PROVE  /\ request[r] \in Request
         /\ [request EXCEPT ![r] = Idle] \in [Requests -> Request]
         /\ List(r) => request' \in [Requests -> Request]
         /\ \A s \in Schedules :
              [request EXCEPT ![r].step = "list", ![r].target = s] \in [Requests -> Request]
         /\ \A n \in 0..MaxEdition :
              [request EXCEPT ![r].step = "publish", ![r].payload = n]
                \in [Requests -> Request]
<1>1. request \in [Requests -> Request] /\ active \in SUBSET Schedules
  BY DEF TypeOK, Request
<1>2. "commit" \in Steps /\ "publish" \in Steps /\ "list" \in Steps
  BY DEF Steps
<1>3. ASSUME List(r) PROVE request' \in [Requests -> Request]
  <2> DEFINE Seen == {s \in rows : IF s \in request[r].known THEN s \in request[r].saw
                                                             ELSE s \in active}
  <2>1. Seen \in SUBSET Schedules
    BY DEF TypeOK
  <2>2. request' = [request EXCEPT ![r].step = "commit", ![r].known = {}, ![r].saw = Seen]
    BY <1>3 DEF List
  <2> HIDE DEF Seen
  <2>3. [request[r] EXCEPT !.step = "commit", !.known = {}, !.saw = Seen] \in Request
    BY <1>1, <1>2, <2>1 DEF Request
  <2> QED BY <1>1, <2>2, <2>3
<1> QED BY <1>1, <1>2, <1>3, IdleType DEF Request

(* A command put on the wire or taken from it leaves a sequence of them.   *)
LEMMA WireTypes ==
  ASSUME TypeOK
  PROVE  /\ \A c \in Commands : Send(c) => wire' \in Seq(Commands) /\ Len(wire') <= MaxWire
         /\ wire # <<>> => /\ Head(wire) \in Commands
                           /\ Tail(wire) \in Seq(Commands)
                           /\ Len(Tail(wire)) <= MaxWire
<1>1. wire \in Seq(Commands) /\ Len(wire) <= MaxWire /\ MaxWire \in Nat
  BY ScheduleConstants DEF TypeOK
<1>2. ASSUME NEW c \in Commands, Send(c)
      PROVE  wire' \in Seq(Commands) /\ Len(wire') <= MaxWire
  BY <1>1, <1>2 DEF Send
<1>3. ASSUME wire # <<>>
      PROVE  Head(wire) \in Commands /\ Tail(wire) \in Seq(Commands)
               /\ Len(Tail(wire)) <= MaxWire
  BY <1>1, <1>3
<1> QED BY <1>2, <1>3

(* A row's new task list has an edition within the bound.                  *)
LEMMA RewriteType ==
  ASSUME TypeOK, NEW s \in Schedules, Rewrite(s)
  PROVE  edition' \in [Schedules -> 0..MaxEdition]
<1>1. edition \in [Schedules -> 0..MaxEdition] /\ MaxEdition \in Nat
  BY ScheduleConstants DEF TypeOK
<1> QED BY <1>1 DEF Rewrite

LEMMA NewRowType ==
  ASSUME TypeOK, NEW s \in Schedules, NewRow(s)
  PROVE  /\ rows' \subseteq Schedules /\ active' \subseteq rows'
         /\ edition' \in [Schedules -> 0..MaxEdition]
<1>1. edition \in [Schedules -> 0..MaxEdition] /\ MaxEdition \in Nat
  BY ScheduleConstants DEF TypeOK
<1> QED BY <1>1 DEF NewRow, TypeOK

(* Every variable keeps its type: one case per action.                     *)
THEOREM Typing == Spec => []TypeOK
<1>1. Init => TypeOK
  <2> SUFFICES ASSUME Init PROVE TypeOK
    OBVIOUS
  <2>1. request \in [Requests -> Request]
    BY IdleType DEF Init
  <2>2. NoSchedule \in Commands /\ <<>> \in Seq(Commands) /\ Len(<<>>) <= MaxWire
    BY ScheduleConstants DEF NoSchedule, Commands
  <2>3. 0 \in 0..MaxEdition /\ 0 \in 0..MaxStarted
    BY ScheduleConstants
  <2>4. edition \in [Schedules -> 0..MaxEdition]
    BY <2>3 DEF Init
  <2>5. wire \in Seq(Commands) /\ Len(wire) <= MaxWire /\ board \in Commands
    BY <2>2 DEF Init
  <2>6. /\ rows \subseteq Schedules /\ active \subseteq rows /\ completed \in 0..1
        /\ started \in 0..MaxStarted
        /\ trouble \subseteq Troubles
    BY <2>3 DEF Init
  <2>7. overtaken \subseteq Requests /\ raced \in BOOLEAN
    BY Zenon DEF Init
  <2> QED
    BY <2>1, <2>4, <2>5, <2>6, <2>7 DEF TypeOK, Request
<1>2. TypeOK /\ [Next]_vars => TypeOK'
  <2> SUFFICES ASSUME TypeOK, [Next]_vars PROVE TypeOK'
    OBVIOUS
  <2> USE DEF Request
  <2>1. ASSUME NEW r \in Requests, Ask(r)
        PROVE  TypeOK'
    <3>1. /\ request' \in [Requests -> Request] /\ started' \in 0..MaxStarted
          /\ trouble' \subseteq Troubles /\ UNCHANGED <<link, races>>
      BY <2>1, AskIs, BeginType
    <3>2. /\ rows' \subseteq Schedules /\ active' \subseteq rows'
          /\ edition' \in [Schedules -> 0..MaxEdition]
      <4>1. CASE Browse(r)
        BY <4>1 DEF Browse, TypeOK, database
      <4>2. ASSUME NEW s \in Schedules, NEW activate \in BOOLEAN, Create(r, s, activate)
            PROVE  /\ rows' \subseteq Schedules /\ active' \subseteq rows'
                   /\ edition' \in [Schedules -> 0..MaxEdition]
        BY <4>2, NewRowType DEF Create
      <4>3. ASSUME NEW s \in Schedules, Update(r, s)
            PROVE  /\ rows' \subseteq Schedules /\ active' \subseteq rows'
                   /\ edition' \in [Schedules -> 0..MaxEdition]
        BY <4>3, RewriteType DEF Update, Rewrite, TypeOK
      <4>4. ASSUME NEW s \in Schedules,
                   Activate(r, s) \/ Modify(r, s) \/ Deactivate(r, s) \/ Delete(r, s)
            PROVE  /\ rows' \subseteq Schedules /\ active' \subseteq rows'
                   /\ edition' \in [Schedules -> 0..MaxEdition]
        BY <4>4 DEF Activate, Modify, Deactivate, Delete, TypeOK, database
      <4> QED BY <2>1, <4>1, <4>2, <4>3, <4>4, AskIs
    <3> QED BY <3>1, <3>2 DEF TypeOK, link, races
  <2>2. ASSUME NEW r \in Requests, Resume(r)
        PROVE  TypeOK'
    <3>0. request[r] \in Request
      BY RecordType
    <3>1. CASE Reread(r) \/ Insert(r)
      <4>1. CASE Reread(r)
        BY <4>1, GotoType DEF Reread, TypeOK, link, database, races, Steps
      <4>2. CASE Insert(r)
        <5>1. PICK s \in Schedules :
                /\ NewRow(s)
                /\ request' = [request EXCEPT ![r].step = "list", ![r].target = s]
          BY <4>2 DEF Insert
        <5>2. request' \in [Requests -> Request]
          BY <5>1, RecordType
        <5> QED BY <4>2, <5>1, <5>2, NewRowType DEF Insert, TypeOK, link, races
      <4> QED BY <3>1, <4>1, <4>2
    <3>2. CASE Replan(r)
      <4>1. PICK step \in Steps : Goto(r, step)
        BY <3>2 DEF Replan, Steps
      <4>2. request[r].target \in Schedules \/ UNCHANGED database
        BY <3>2 DEF Replan, TypeOK
      <4> QED
        BY <3>2, <4>1, <4>2, GotoType, RewriteType DEF Replan, Rewrite, TypeOK, races, link, database
    <3>3. CASE List(r)
      BY <3>3, RecordType DEF List, TypeOK, races, link, database
    <3>4. CASE Commit(r)
      <4>1. PICK step \in Steps : Goto(r, step)
        BY <3>4 DEF Commit, Steps
      <4>2. overtaken' \subseteq Requests /\ raced' \in BOOLEAN
        <5>1. CASE Overtake(r)
          <6>1. raced' \in BOOLEAN
            BY <5>1, SMT DEF Overtake
          <6>2. overtaken' \subseteq Requests
            BY <5>1 DEF Overtake
          <6> QED BY <6>1, <6>2
        <5>2. CASE overtaken' = overtaken \ {r} /\ raced' = raced
          BY <5>2 DEF TypeOK
        <5> QED BY <3>4, <5>1, <5>2 DEF Commit
      <4> QED
        BY <3>0, <3>4, <4>1, <4>2, GotoType DEF Commit, TypeOK, link
    <3>5. CASE Refresh(r)
      <4>1. request[r].target \in rows => edition[request[r].target] \in 0..MaxEdition
        BY DEF TypeOK
      <4> QED
        BY <3>5, <4>1, RecordType DEF Refresh, TypeOK, races, link, database
    <3>6. CASE Publish(r)
      <4>1. [id |-> request[r].target, edition |-> request[r].payload] \in Commands
        BY <3>0 DEF Commands
      <4> QED
        BY <3>6, <4>1, GotoType, WireTypes DEF Publish, TypeOK, races, database, Steps
    <3>7. CASE Deactivated(r)
      <4>1. PICK step \in Steps : Goto(r, step)
        BY <3>7 DEF Deactivated, Steps
      <4> QED
        BY <3>0, <3>7, <4>1, GotoType DEF Deactivated, TypeOK, races, link
    <3>8. CASE Clear(r)
      <4>1. NoSchedule \in Commands
        BY ScheduleConstants DEF Commands, NoSchedule
      <4> QED
        BY <3>8, <4>1, GotoType, WireTypes DEF Clear, TypeOK, races, database, Steps
    <3>9. CASE CycleComplete(r)
      <4>1. PICK step \in Steps : Goto(r, step)
        BY <3>9 DEF CycleComplete, Steps
      <4> QED
        BY <3>9, <4>1, GotoType DEF CycleComplete, TypeOK, races, database
    <3>10. CASE DeactivateAll(r)
      BY <3>10, GotoType DEF DeactivateAll, TypeOK, races, link, Steps
    <3> QED
      BY <2>2, <3>1, <3>2, <3>3, <3>4, <3>5, <3>6, <3>7, <3>8, <3>9, <3>10 DEF Resume
  <2>3. CASE Receive
    BY <2>3, WireTypes DEF Receive, TypeOK, races, database
  <2>4. CASE Lose
    BY <2>4, WireTypes DEF Lose, TypeOK, races, database
  <2>5. CASE LoseStatus
    BY <2>5 DEF LoseStatus, TypeOK, races, database
  <2>6. CASE BoardReset
    BY <2>6, ScheduleConstants DEF BoardReset, TypeOK, races, database, Commands, NoSchedule
  <2>7. CASE LastTask
    BY <2>7 DEF LastTask, TypeOK, races, database
  <2>8. CASE Restart
    <3>1. request' \in [Requests -> Request]
      BY <2>8, IdleType DEF Restart
    <3>2. rows' \subseteq Schedules /\ active' \subseteq rows'
      BY <2>8 DEF Restart, TypeOK
    <3> QED BY <2>8, <3>1, <3>2 DEF Restart, TypeOK, races, link
  <2>9. CASE UNCHANGED vars
    BY <2>9 DEF vars, database, link, races, TypeOK
  <2> QED
    BY <2>1, <2>2, <2>3, <2>4, <2>5, <2>6, <2>7, <2>8, <2>9 DEF Next
<1> QED
  BY <1>1, <1>2, PTL DEF Spec
------------------------------------------------------------------------------
(* What a request has read is current until another activation commits:    *)
(* nothing else makes a row active, so no row is active now that it does   *)
(* not know to be.  Only create_schedule holds rows, and only up to List.  *)
Current(r) ==
  /\ request[r].known # {} => request[r].step \in {"insert", "list"}
  /\ r \notin overtaken =>
       /\ active \intersect request[r].known \subseteq request[r].saw
       /\ request[r].step = "commit" => active \subseteq request[r].saw

ListingIsCurrent == \A r \in Requests : Current(r)

(* A step that activates nothing keeps the invariant, if it lets no        *)
(* request hold rows or come to its commit that did not.                   *)
LEMMA NothingActivated ==
  ASSUME ListingIsCurrent, OneActive,
         raced' = raced, overtaken' = overtaken, active' \subseteq active,
         \A q \in Requests :
           \/ request'[q].known = {} /\ request'[q].step # "commit"
           \/ request'[q] = request[q]
  PROVE  ListingIsCurrent' /\ OneActive'
<1>1. OneActive'
  BY DEF OneActive
<1>2. ASSUME NEW q \in Requests PROVE Current(q)'
  BY DEF ListingIsCurrent, Current
<1> QED BY <1>1, <1>2 DEF ListingIsCurrent

LEMMA ListingHolds == Spec => [](ListingIsCurrent /\ OneActive)
<1>1. Init => ListingIsCurrent /\ OneActive
  BY DEF Init, ListingIsCurrent, Current, OneActive, Idle
<1>2. TypeOK /\ ListingIsCurrent /\ OneActive /\ [Next]_vars
        => ListingIsCurrent' /\ OneActive'
  <2> SUFFICES ASSUME TypeOK, ListingIsCurrent, OneActive, [Next]_vars
               PROVE  ListingIsCurrent' /\ OneActive'
    OBVIOUS
  <2>0. request \in [Requests -> Request] /\ active \subseteq rows
    BY DEF TypeOK, Request
  <2>1. ASSUME NEW r \in Requests, Ask(r)
        PROVE  ListingIsCurrent' /\ OneActive'
    <3>1. overtaken' = overtaken /\ raced' = raced /\ active' \subseteq active
      <4>1. overtaken' = overtaken /\ raced' = raced
        BY <2>1, AskIs DEF races
      <4>2. active' \subseteq active
        BY <2>1, AskIs DEF Browse, Create, NewRow, Activate, Update, Modify, Deactivate,
                           Delete, Rewrite, database
      <4> QED BY <4>1, <4>2
    <3>2. CASE Browse(r)
      <4>1. /\ Browsing.step = "insert" /\ Browsing.known = rows
            /\ Browsing.saw = active
        BY BrowsingIs
      <4>2. request' = [request EXCEPT ![r] = Browsing] /\ active' = active
        BY <3>2 DEF Browse, Browsing, Begin, database
      <4>3. request'[r] = Browsing /\ \A p \in Requests \ {r} : request'[p] = request[p]
        BY <2>0, <4>2
      <4>4. ListingIsCurrent'
        <5> SUFFICES ASSUME NEW p \in Requests PROVE Current(p)'
          BY DEF ListingIsCurrent
        <5>1. CASE p = r
          BY <4>1, <4>2, <4>3, <5>1 DEF Current
        <5>2. CASE p # r
          BY <3>1, <4>2, <4>3, <5>2 DEF ListingIsCurrent, Current
        <5> QED BY <5>1, <5>2
      <4> QED BY <3>1, <4>4 DEF OneActive
    <3>3. CASE ~Browse(r)
      <4>1. PICK q \in Request : Begin(r, q) /\ q.step # "commit" /\ q.known = {}
        BY <2>1, <3>3, AskIs
      <4>2. request'[r] = q /\ \A p \in Requests \ {r} : request'[p] = request[p]
        BY <2>0, <4>1 DEF Begin
      <4> QED BY <3>1, <4>1, <4>2, NothingActivated
    <3> QED BY <3>2, <3>3
  <2>2. ASSUME NEW r \in Requests, List(r)
        PROVE  ListingIsCurrent' /\ OneActive'
    <3> DEFINE q == request[r]
               Seen == {s \in rows : IF s \in q.known THEN s \in q.saw ELSE s \in active}
    <3>1. request' = [request EXCEPT ![r].step = "commit", ![r].known = {}, ![r].saw = Seen]
      BY <2>2 DEF List
    <3>2. r \notin overtaken => active \subseteq Seen
      <4>1. r \notin overtaken => active \intersect q.known \subseteq q.saw
        BY DEF ListingIsCurrent, Current
      <4> QED BY <2>0, <4>1
    <3> HIDE DEF Seen
    <3>3. /\ request'[r].step = "commit" /\ request'[r].known = {} /\ request'[r].saw = Seen
          /\ \A p \in Requests \ {r} : request'[p] = request[p]
      BY <2>0, <3>1 DEF Request
    <3>4. active' = active /\ overtaken' = overtaken /\ raced' = raced
      BY <2>2 DEF List, database, races
    <3>5. ListingIsCurrent'
      <4> SUFFICES ASSUME NEW p \in Requests PROVE Current(p)'
        BY DEF ListingIsCurrent
      <4>1. CASE p = r
        BY <3>2, <3>3, <3>4, <4>1 DEF Current
      <4>2. CASE p # r
        BY <3>3, <3>4, <4>2 DEF ListingIsCurrent, Current
      <4> QED BY <4>1, <4>2
    <3> QED BY <3>4, <3>5 DEF OneActive
  <2>3. ASSUME NEW r \in Requests, Commit(r)
        PROVE  ListingIsCurrent' /\ OneActive'
    <3>1. PICK step \in {"idle", "refresh"} : Goto(r, step)
      BY <2>3 DEF Commit
    <3>2. request[r].step = "commit" /\ request[r].known = {}
      BY <2>3 DEF Commit, At, ListingIsCurrent, Current
    <3>3. /\ request'[r].step # "commit" /\ request'[r].known = {}
          /\ \A p \in Requests \ {r} : request'[p] = request[p]
      BY <2>0, <3>1, <3>2 DEF Goto, Idle, Request
    <3>4. CASE active' = active /\ overtaken' = overtaken \ {r} /\ raced' = raced
      <4>1. ListingIsCurrent'
        <5> SUFFICES ASSUME NEW p \in Requests PROVE Current(p)'
          BY DEF ListingIsCurrent
        <5>1. CASE p = r
          BY <3>3, <5>1 DEF Current
        <5>2. CASE p # r
          BY <3>3, <3>4, <5>2 DEF ListingIsCurrent, Current
        <5> QED BY <5>1, <5>2
      <4> QED BY <3>4, <4>1 DEF OneActive
    <3>5. CASE active' = (active \ request[r].saw) \union {request[r].target} /\ Overtake(r)
      <4>1. r \notin overtaken => active' = {request[r].target}
        <5>1. r \notin overtaken => active \subseteq request[r].saw
          BY <3>2 DEF ListingIsCurrent, Current
        <5> QED BY <3>5, <5>1
      <4>2. ASSUME NEW p \in Requests
            PROVE  /\ request'[p].known # {} => request'[p].step \in {"insert", "list"}
                   /\ p \notin overtaken' =>
                        request'[p].known = {} /\ request'[p].step # "commit"
        <5>1. CASE p = r
          BY <3>3, <5>1 DEF Current
        <5>2. CASE p # r
          BY <3>3, <3>5, <5>2 DEF Overtake, Reading, At, ListingIsCurrent, Current
        <5> QED BY <5>1, <5>2
      <4>3. ListingIsCurrent'
        BY <4>2 DEF ListingIsCurrent, Current
      <4>4. ~raced' => r \notin overtaken
        BY <3>5 DEF Overtake
      <4> QED BY <4>1, <4>3, <4>4 DEF OneActive
    <3> QED BY <2>3, <3>4, <3>5 DEF Commit
  <2>4. ASSUME NEW r \in Requests, Insert(r)
        PROVE  ListingIsCurrent' /\ OneActive'
    <3>1. PICK s \in Schedules :
            request' = [request EXCEPT ![r].step = "list", ![r].target = s]
      BY <2>4 DEF Insert
    <3>2. /\ request'[r].step = "list"
          /\ request'[r].known = request[r].known /\ request'[r].saw = request[r].saw
          /\ \A p \in Requests \ {r} : request'[p] = request[p]
      BY <2>0, <3>1 DEF Request
    <3>3. active' = active /\ overtaken' = overtaken /\ raced' = raced
      BY <2>4 DEF Insert, NewRow, races
    <3>4. ListingIsCurrent'
      <4> SUFFICES ASSUME NEW p \in Requests PROVE Current(p)'
        BY DEF ListingIsCurrent
      <4>1. CASE p = r
        BY <3>2, <3>3, <4>1 DEF ListingIsCurrent, Current
      <4>2. CASE p # r
        BY <3>2, <3>3, <4>2 DEF ListingIsCurrent, Current
      <4> QED BY <4>1, <4>2
    <3> QED BY <3>3, <3>4 DEF OneActive
  <2>5. ASSUME NEW r \in Requests,
               \/ Reread(r) \/ Replan(r) \/ Refresh(r) \/ Publish(r)
               \/ Deactivated(r) \/ Clear(r) \/ CycleComplete(r) \/ DeactivateAll(r)
        PROVE  ListingIsCurrent' /\ OneActive'
    <3>1. races' = races /\ active' \subseteq active
      BY <2>5 DEF Reread, Replan, Refresh, Publish, Deactivated, Clear, CycleComplete,
                  DeactivateAll, Rewrite, database
    <3>2. request[r].known = {}
      <4>1. request[r].step \notin {"insert", "list"}
        BY <2>5 DEF Reread, Replan, Refresh, Publish, Deactivated, Clear, CycleComplete,
                    DeactivateAll, At
      <4> QED BY <4>1 DEF ListingIsCurrent, Current
    <3>3. /\ request'[r].known = {} /\ request'[r].step # "commit"
          /\ \A p \in Requests \ {r} : request'[p] = request[p]
      <4>1. CASE Refresh(r)
        BY <2>0, <3>2, <4>1 DEF Refresh, Idle, Request
      <4>2. CASE ~Refresh(r)
        <5>1. PICK step \in Steps \ {"commit"} : Goto(r, step)
          BY <2>5, <4>2 DEF Reread, Replan, Publish, Deactivated, Clear, CycleComplete,
                            DeactivateAll, Steps
        <5> QED BY <2>0, <3>2, <5>1 DEF Goto, Idle, Request
      <4> QED BY <4>1, <4>2
    <3> QED BY <3>1, <3>3, NothingActivated DEF races
  <2>6. CASE Receive \/ Lose \/ LoseStatus \/ BoardReset \/ LastTask \/ UNCHANGED vars
    <3>1. races' = races /\ active' = active /\ request' = request
      BY <2>6 DEF Receive, Lose, LoseStatus, BoardReset, LastTask, vars, database
    <3> QED BY <3>1, NothingActivated DEF races
  <2>7. CASE Restart
    <3>1. raced' = raced /\ active' = active
      BY <2>7 DEF Restart
    <3>2. \A p \in Requests : request'[p].known = {} /\ request'[p].step = "idle"
      BY <2>7 DEF Restart, Idle
    <3> QED BY <3>1, <3>2 DEF ListingIsCurrent, Current, OneActive
  <2> QED
    BY <2>1, <2>2, <2>3, <2>4, <2>5, <2>6, <2>7 DEF Next, Resume
<1> QED
  BY <1>1, <1>2, Typing, PTL DEF Spec

(* If the last activation to commit was not overtaken by another since its *)
(* request first read what is active, at most one schedule is active       *)
(* (activate_schedule, "deactivating all others"): OneActive.              *)
THEOREM OneActiveHolds == Spec => []OneActive
BY ListingHolds, PTL
------------------------------------------------------------------------------
(* A request is at work between its first database call and its message;   *)
(* the cycle_complete handler only ever takes schedules away.              *)
Working(r) == request[r].step \notin {"idle", "complete"}

(* Requests that did not overlap worked one at a time.                     *)
Alone == "overlap" \notin trouble =>
           \A q, r \in Requests : Working(q) /\ Working(r) => q = r

(* What the board will run once the wire is empty.                         *)
Last == IF wire = <<>> THEN board ELSE wire[Len(wire)]

Due(s) == Last = [id |-> s, edition |-> edition[s]]

(* The schedule a request at this step still has to tell the board about   *)
(* is the only active one the board may not be about to run.               *)
ToldBy(r) ==
  LET q == request[r]
  IN /\ q.step \in {"insert", "replan", "get", "clear"} => \A s \in active : Due(s)
     /\ q.step = "replan" => active \intersect {q.target} \subseteq q.saw
     /\ q.step \in {"reread", "list", "commit"} => \A s \in active \ {q.target} : Due(s)
     /\ q.step \in {"insert", "list"} => active \intersect q.known \subseteq q.saw
     /\ q.step = "commit" => active \subseteq q.saw /\ q.saw \subseteq rows
     /\ q.step \in {"refresh", "publish"} => active \subseteq {q.target}
     /\ q.step = "publish" /\ q.target \in active => q.payload = edition[q.target]

Told ==
  trouble \subseteq {"cycle"} =>
    /\ (\A r \in Requests : ~Working(r)) => \A s \in active : Due(s)
    /\ \A r \in Requests : ToldBy(r)

(* Whether what the board will run is active is unknown only while a       *)
(* message is still to be sent, and then its schedule is active.           *)
Shown ==
  trouble \subseteq {"misdirected", "reset"} =>
    /\ \A r \in Requests :
         request[r].step \in {"refresh", "publish"} => request[r].target \in active
    /\ (\A r \in Requests : request[r].step \notin {"refresh", "publish", "clear"})
         => Last = NoSchedule \/ Last.id \in active

LEMMA GotoIs ==
  ASSUME TypeOK, NEW r \in Requests, NEW step \in Steps, Goto(r, step)
  PROVE  /\ \A q \in Requests \ {r} : request'[q] = request[q]
         /\ request'[r].step = step
         /\ step # "idle" => /\ request'[r].target = request[r].target
                             /\ request'[r].known = request[r].known
                             /\ request'[r].saw = request[r].saw
                             /\ request'[r].payload = request[r].payload
<1>1. request \in [Requests -> Request]
  BY DEF TypeOK, Request
<1> QED BY <1>1 DEF Goto, Idle, Request

LEMMA BeginIs ==
  ASSUME TypeOK, NEW r \in Requests, NEW q, Begin(r, q)
  PROVE  /\ \A p \in Requests \ {r} : request'[p] = request[p]
         /\ request[r].step = "idle" /\ request'[r] = q
         /\ trouble \subseteq trouble' /\ trouble' \subseteq trouble \union {"overlap"}
         /\ "overlap" \notin trouble' => \A p \in Requests \ {r} : request[p].step = "idle"
<1>1. request \in [Requests -> Request]
  BY DEF TypeOK, Request
<1> QED BY <1>1 DEF Begin, At

(* A request that begins without an overlap is the only one at work.       *)
LEMMA BeginAlone ==
  ASSUME TypeOK, NEW r \in Requests, NEW q, Begin(r, q)
  PROVE  Alone' /\ ("overlap" \notin trouble' => \A p \in Requests : ~Working(p))
BY BeginIs DEF Alone, Working

(* What a request that is under way does to the steps of all of them.      *)
LEMMA ResumeIs ==
  ASSUME TypeOK, NEW r \in Requests, Resume(r)
  PROVE  /\ \A q \in Requests \ {r} : request'[q] = request[q]
         /\ Working(r)' => Working(r)
         /\ trouble \subseteq trouble'
<1>1. request \in [Requests -> Request]
  BY DEF TypeOK, Request
<1>2. CASE Reread(r) \/ Replan(r) \/ Commit(r) \/ Publish(r) \/ Deactivated(r) \/ Clear(r)
  <2>1. Working(r) /\ trouble \subseteq trouble' /\ \E step \in Steps : Goto(r, step)
    BY <1>2 DEF Reread, Replan, Commit, Publish, Deactivated, Clear, Working, At, Steps
  <2> QED BY <2>1, GotoIs
<1>3. CASE List(r) \/ Refresh(r) \/ Insert(r)
  <2>1. Working(r) /\ trouble' = trouble
    BY <1>3 DEF List, Refresh, Insert, Working, At
  <2>2. \A q \in Requests \ {r} : request'[q] = request[q]
    BY <1>1, <1>3 DEF List, Refresh, Insert
  <2> QED BY <2>1, <2>2
<1>4. CASE CycleComplete(r) \/ DeactivateAll(r)
  <2>1. trouble \subseteq trouble' /\ \E step \in {"idle", "complete"} : Goto(r, step)
    BY <1>4 DEF CycleComplete, DeactivateAll
  <2> QED BY <2>1, GotoIs DEF Working, Steps
<1> QED BY <1>2, <1>3, <1>4 DEF Resume

LEMMA AloneHolds == Spec => []Alone
<1>1. Init => Alone
  BY DEF Init, Alone, Working, Idle
<1>2. TypeOK /\ Alone /\ [Next]_vars => Alone'
  <2> SUFFICES ASSUME TypeOK, Alone, [Next]_vars PROVE Alone'
    OBVIOUS
  <2>1. ASSUME NEW r \in Requests, Ask(r) PROVE Alone'
    BY <2>1, AskIs, BeginAlone
  <2>2. ASSUME NEW r \in Requests, Resume(r) PROVE Alone'
    BY <2>2, ResumeIs DEF Alone, Working
  <2>3. CASE Receive \/ Lose \/ LoseStatus \/ BoardReset \/ LastTask \/ UNCHANGED vars
    <3>1. request' = request /\ trouble \subseteq trouble'
      BY <2>3 DEF Receive, Lose, LoseStatus, BoardReset, LastTask, vars
    <3> QED BY <3>1 DEF Alone, Working
  <2>4. CASE Restart
    BY <2>4 DEF Restart, Alone, Working, Idle
  <2> QED BY <2>1, <2>2, <2>3, <2>4 DEF Next
<1> QED BY <1>1, <1>2, Typing, PTL DEF Spec
------------------------------------------------------------------------------
(* The end of the wire.                                                    *)
LEMMA SendLast ==
  ASSUME TypeOK, NEW cmd \in Commands, Send(cmd)
  PROVE  Last' = cmd
<1>1. wire \in Seq(Commands) /\ wire' = Append(wire, cmd)
  BY DEF TypeOK, Send
<1>2. wire' # <<>> /\ wire'[Len(wire')] = cmd
  BY <1>1
<1> QED BY <1>2 DEF Last

LEMMA ReceiveLast ==
  ASSUME TypeOK, Receive
  PROVE  Last' = Last
<1>1. /\ wire \in Seq(Commands) /\ wire # <<>>
      /\ wire' = Tail(wire) /\ board' = wire[1]
  BY DEF TypeOK, Receive
<1>2. Len(wire) \in Nat /\ Len(wire) >= 1 /\ Len(wire') = Len(wire) - 1
  BY <1>1
<1>3. CASE Len(wire) = 1
  <2>1. wire' = <<>>
    BY <1>1, <1>2, <1>3
  <2> QED BY <1>1, <1>3, <2>1 DEF Last
<1>4. CASE Len(wire) > 1
  <2>1. wire' # <<>> /\ wire'[Len(wire')] = wire[Len(wire)]
    <3>1. \A i \in 1..Len(wire') : wire'[i] = wire[i + 1]
      BY <1>1, HeadTailProperties
    <3>2. Len(wire') \in 1..Len(wire') /\ Len(wire') + 1 = Len(wire)
      BY <1>2, <1>4
    <3>3. wire' # <<>>
      BY <1>2, <1>4
    <3> QED BY <3>1, <3>2, <3>3
  <2> QED BY <1>1, <2>1 DEF Last
<1> QED BY <1>2, <1>3, <1>4
------------------------------------------------------------------------------
(* The step of a request that works alone: the others say nothing.         *)
LEMMA ToldAlone ==
  ASSUME NEW r \in Requests,
         \A q \in Requests \ {r} : request'[q] = request[q] /\ ~Working(q),
         ~Working(r)' => \A s \in active' : Due(s)',
         ToldBy(r)'
  PROVE  Told'
<1>1. ASSUME NEW q \in Requests \ {r} PROVE ToldBy(q)'
  <2>1. request'[q].step \in {"idle", "complete"}
    BY DEF Working
  <2> QED BY <2>1 DEF ToldBy
<1> QED BY <1>1 DEF Told

LEMMA ToldAsk ==
  ASSUME TypeOK, Told, NEW r \in Requests, Ask(r)
  PROVE  Told'
<1> SUFFICES ASSUME trouble' \subseteq {"cycle"} PROVE Told'
  BY DEF Told
<1>1. PICK new \in Request : Begin(r, new)
  BY AskIs
<1>2. /\ \A q \in Requests \ {r} : request'[q] = request[q]
      /\ request'[r] = new
      /\ trouble \subseteq {"cycle"}
      /\ \A q \in Requests : ~Working(q)
  BY <1>1, BeginIs, BeginAlone
<1>3. \A s \in active : Due(s)
  BY <1>2 DEF Told
<1>4. active \subseteq rows /\ rows \subseteq Schedules /\ edition \in [Schedules -> 0..MaxEdition]
  BY DEF TypeOK
<1>5. Last' = Last
  BY AskIs DEF link, Last
<1>6. CASE Browse(r)
  <2>1. active' = active /\ edition' = edition
    BY <1>6 DEF Browse, database
  <2>2. /\ request'[r].step = "insert" /\ request'[r].known = rows
        /\ request'[r].saw = active
    <3>1. Begin(r, Browsing)
      BY <1>6 DEF Browse, Browsing
    <3> QED BY <3>1, BeginIs, BrowsingIs
  <2>3. \A t \in active' : Due(t)'
    BY <1>3, <1>5, <2>1 DEF Due
  <2>4. ToldBy(r)'
    BY <2>1, <2>2, <2>3 DEF ToldBy
  <2> QED BY <1>2, <2>3, <2>4, ToldAlone
<1>7. ASSUME NEW s \in Schedules, NEW activate \in BOOLEAN, Create(r, s, activate)
      PROVE  Told'
  <2>1. /\ request'[r].step \in {"list", "idle"}
        /\ request'[r].known = {}
    <3>1. Begin(r, Creating(s, activate))
      BY <1>7 DEF Create, Creating
    <3> QED BY <3>1, BeginIs, CreatingIs
  <2>2. active' = active /\ \A t \in active : edition'[t] = edition[t]
    BY <1>4, <1>7 DEF Create, NewRow
  <2>3. \A t \in active' : Due(t)'
    BY <1>3, <1>5, <2>2 DEF Due
  <2>4. ToldBy(r)'
    BY <2>1, <2>3 DEF ToldBy
  <2> QED BY <1>2, <2>3, <2>4, ToldAlone
<1>8. ASSUME NEW s \in Schedules, Update(r, s)
      PROVE  Told'
  <2>1. Begin(r, For(s, "reread")) /\ Rewrite(s)
    BY <1>8 DEF Update
  <2>2. request'[r].step = "reread" /\ request'[r].target = s
    BY <2>1, BeginIs, ForType DEF Steps
  <2>3. active' = active /\ \A t \in active \ {s} : edition'[t] = edition[t]
    BY <1>4, <2>1 DEF Rewrite
  <2>4. \A t \in active' \ {s} : Due(t)'
    BY <1>3, <1>5, <2>3 DEF Due
  <2>5. ToldBy(r)' /\ Working(r)'
    BY <2>2, <2>4 DEF ToldBy, Working
  <2> QED BY <1>2, <2>5, ToldAlone
<1>9. ASSUME NEW s \in Schedules,
             Activate(r, s) \/ Modify(r, s) \/ Deactivate(r, s) \/ Delete(r, s)
      PROVE  Told'
  <2>1. active' \subseteq active /\ edition' = edition
    BY <1>9 DEF Activate, Modify, Deactivate, Delete, database
  <2>2. \A t \in active' : Due(t)'
    BY <1>3, <1>5, <2>1 DEF Due
  <2>3. \/ request'[r].step \in {"list", "get", "clear"} /\ request'[r].known = {}
        \/ /\ request'[r].step = "replan"
           /\ active' \intersect {request'[r].target} \subseteq request'[r].saw
    <3>1. CASE Activate(r, s) \/ Delete(r, s)
      <4>1. PICK step \in {"list", "clear"} : Begin(r, For(s, step))
        BY <3>1 DEF Activate, Delete
      <4> QED BY <4>1, BeginIs, ForType DEF Steps
    <3>2. CASE Modify(r, s)
      <4>1. Begin(r, [For(s, "replan") EXCEPT !.saw = active \intersect {s}])
        BY <3>2 DEF Modify
      <4>2. /\ request'[r].step = "replan" /\ request'[r].target = s
            /\ request'[r].saw = active \intersect {s}
        BY <4>1, BeginIs, ForType DEF Request, Steps
      <4> QED BY <2>1, <4>2
    <3>3. CASE Deactivate(r, s)
      <4>1. Begin(r, [For(s, "get") EXCEPT !.saw = active \intersect {s}])
        BY <3>3 DEF Deactivate
      <4> QED BY <4>1, BeginIs, ForType DEF Request, Steps
    <3> QED BY <1>9, <3>1, <3>2, <3>3
  <2>4. ToldBy(r)'
    BY <2>2, <2>3 DEF ToldBy
  <2> QED BY <1>2, <2>2, <2>4, ToldAlone
<1> QED BY <1>6, <1>7, <1>8, <1>9, AskIs

LEMMA ToldResume ==
  ASSUME TypeOK, ListingIsCurrent, Alone, Told, NEW r \in Requests, Resume(r)
  PROVE  Told'
<1> SUFFICES ASSUME trouble' \subseteq {"cycle"} PROVE Told'
  BY DEF Told
<1> DEFINE q == request[r]
<1>1. trouble \subseteq {"cycle"} /\ \A p \in Requests \ {r} : request'[p] = request[p]
  BY ResumeIs
<1>2. ToldBy(r)
  BY <1>1 DEF Told
<1>3. /\ active \subseteq rows /\ edition \in [Schedules -> 0..MaxEdition]
      /\ request \in [Requests -> Request]
  BY DEF TypeOK, Request
<1>4. Working(r) => \A p \in Requests \ {r} : ~Working(p)
  BY <1>1 DEF Alone
<1>0. q.step \notin {"insert", "list"} => q.known = {}
  BY DEF ListingIsCurrent, Current
<1>5. CASE Reread(r)
  <2>1. /\ q.step = "reread" /\ Working(r)
        /\ active' = active /\ edition' = edition /\ Last' = Last
    BY <1>5 DEF Reread, At, Working, database, link, Last
  <2>2. \A s \in active' \ {q.target} : Due(s)'
    BY <1>2, <2>1 DEF ToldBy, Due
  <2>3. CASE q.target \in active
    <3>1. /\ request'[r].step = "list" /\ request'[r].target = q.target
          /\ request'[r].known = {}
      BY <1>0, <1>5, <2>1, <2>3, GotoIs DEF Reread, Steps
    <3> QED BY <1>1, <1>4, <2>1, <2>2, <3>1, ToldAlone DEF ToldBy, Working
  <2>4. CASE q.target \notin active
    <3>1. request'[r].step = "idle"
      BY <1>5, <2>4, GotoIs DEF Reread, Steps
    <3> QED BY <1>1, <1>4, <2>1, <2>2, <2>4, <3>1, ToldAlone DEF ToldBy
  <2> QED BY <2>3, <2>4
<1>6. CASE Replan(r)
  <2>1. /\ q.step = "replan" /\ Working(r) /\ active' = active /\ Last' = Last
        /\ active \intersect {q.target} \subseteq q.saw /\ \A s \in active : Due(s)
    BY <1>2, <1>6 DEF Replan, Rewrite, At, Working, database, link, Last, ToldBy
  <2>2. CASE q.target \in rows /\ Rewrite(q.target)
               /\ Goto(r, IF q.saw # {} THEN "list" ELSE "idle")
    <3>1. \A s \in active' \ {q.target} : Due(s)'
      BY <1>3, <2>1, <2>2 DEF Rewrite, Due, TypeOK
    <3>2. CASE q.saw # {}
      <4>1. /\ request'[r].step = "list" /\ request'[r].target = q.target
            /\ request'[r].known = {}
        BY <1>0, <2>1, <2>2, <3>2, GotoIs DEF Steps
      <4> QED BY <1>1, <1>4, <2>1, <3>1, <4>1, ToldAlone DEF ToldBy, Working
    <3>3. CASE q.saw = {}
      <4>1. request'[r].step = "idle"
        BY <2>2, <3>3, GotoIs DEF Steps
      <4>2. \A s \in active' : Due(s)'
        BY <2>1, <3>1, <3>3
      <4> QED BY <1>1, <1>4, <2>1, <4>1, <4>2, ToldAlone DEF ToldBy
    <3> QED BY <3>2, <3>3
  <2>3. CASE Goto(r, "idle") /\ UNCHANGED database
    <3>1. request'[r].step = "idle"
      BY <2>3, GotoIs DEF Steps
    <3>2. \A s \in active' : Due(s)'
      BY <2>1, <2>3 DEF Due, database
    <3> QED BY <1>1, <1>4, <2>1, <3>1, <3>2, ToldAlone DEF ToldBy
  <2> QED BY <1>6, <2>2, <2>3 DEF Replan
<1>7. CASE List(r)
  <2>1. /\ q.step = "list" /\ Working(r)
        /\ active' = active /\ rows' = rows /\ edition' = edition /\ Last' = Last
    BY <1>7 DEF List, At, Working, database, link, Last
  <2> DEFINE Seen == {s \in rows : IF s \in q.known THEN s \in q.saw ELSE s \in active}
  <2>2. active \subseteq Seen /\ Seen \subseteq rows
    <3>1. active \intersect q.known \subseteq q.saw
      BY <1>2, <2>1 DEF ToldBy
    <3> QED BY <1>3, <3>1
  <2>4. request' = [request EXCEPT ![r].step = "commit", ![r].known = {}, ![r].saw = Seen]
    BY <1>7 DEF List
  <2> HIDE DEF Seen
  <2>5. /\ request'[r].step = "commit" /\ request'[r].target = q.target
        /\ request'[r].saw = Seen
    BY <1>3, <2>4 DEF Request
  <2>3. \A s \in active' \ {q.target} : Due(s)'
    BY <1>2, <2>1 DEF ToldBy, Due
  <2>6. ToldBy(r)'
    BY <2>1, <2>2, <2>3, <2>5 DEF ToldBy
  <2> QED BY <1>1, <1>4, <2>1, <2>5, <2>6, ToldAlone DEF Working
<1>8. CASE Commit(r)
  <2>1. /\ q.step = "commit" /\ Working(r)
        /\ rows' = rows /\ edition' = edition /\ Last' = Last
        /\ active \subseteq q.saw /\ q.saw \subseteq rows
        /\ \A s \in active \ {q.target} : Due(s)
    BY <1>2, <1>8 DEF Commit, At, Working, database, link, Last, ToldBy
  <2>2. CASE /\ active' = (active \ q.saw) \union {q.target}
             /\ Goto(r, IF q.tells THEN "refresh" ELSE "idle")
             /\ trouble' = IF q.tells THEN trouble ELSE trouble \union {"quick"}
    <3>1. q.tells
      BY <2>2
    <3>2. request'[r].step = "refresh" /\ request'[r].target = q.target
      BY <2>2, <3>1, GotoIs DEF Steps
    <3>3. active' \subseteq {q.target}
      BY <2>1, <2>2
    <3> QED BY <1>1, <1>4, <2>1, <3>2, <3>3, ToldAlone DEF ToldBy, Working
  <2>3. CASE /\ ~(q.saw \union {q.target} \subseteq rows)
             /\ Goto(r, "idle") /\ active' = active
    <3>1. request'[r].step = "idle"
      BY <2>3, GotoIs DEF Steps
    <3>2. q.target \notin active
      BY <1>3, <2>1, <2>3
    <3>3. \A s \in active' : Due(s)'
      BY <2>1, <2>3, <3>2 DEF Due
    <3> QED BY <1>1, <1>4, <2>1, <3>1, <3>3, ToldAlone DEF ToldBy
  <2> QED BY <1>8, <2>2, <2>3 DEF Commit
<1>9. CASE Refresh(r)
  <2>1. /\ q.step = "refresh" /\ Working(r)
        /\ active' = active /\ rows' = rows /\ edition' = edition
        /\ active \subseteq {q.target}
    BY <1>2, <1>9 DEF Refresh, At, Working, database, ToldBy
  <2>2. CASE q.target \in rows
    <3>1. /\ request'[r].step = "publish" /\ request'[r].target = q.target
          /\ request'[r].payload = edition[q.target]
      BY <1>3, <1>9, <2>2 DEF Refresh, Request
    <3> QED BY <1>1, <1>4, <2>1, <3>1, ToldAlone DEF ToldBy, Working
  <2>3. CASE q.target \notin rows
    <3>1. request'[r].step = "idle"
      BY <1>3, <1>9, <2>3 DEF Refresh, Request, Idle
    <3>2. active' = {}
      BY <1>3, <2>1, <2>3
    <3> QED BY <1>1, <1>4, <2>1, <3>1, <3>2, ToldAlone DEF ToldBy
  <2> QED BY <2>2, <2>3
<1>10. CASE Publish(r)
  <2>1. /\ q.step = "publish" /\ Working(r)
        /\ active' = active /\ edition' = edition
        /\ active \subseteq {q.target} /\ (q.target \in active => q.payload = edition[q.target])
    BY <1>2, <1>10 DEF Publish, At, Working, database, ToldBy
  <2>2. Last' = [id |-> q.target, edition |-> q.payload]
    <3>1. [id |-> q.target, edition |-> q.payload] \in Commands
      BY <1>3 DEF Commands, Request
    <3> QED BY <1>10, <3>1, SendLast DEF Publish
  <2>3. request'[r].step = "idle"
    BY <1>10, GotoIs DEF Publish, Steps
  <2>4. \A s \in active' : Due(s)'
    BY <2>1, <2>2 DEF Due
  <2> QED BY <1>1, <1>4, <2>1, <2>3, <2>4, ToldAlone DEF ToldBy
<1>11. CASE Deactivated(r)
  <2>1. /\ q.step = "get" /\ Working(r)
        /\ active' \subseteq active /\ edition' = edition /\ Last' = Last
        /\ \A s \in active : Due(s)
    BY <1>2, <1>11 DEF Deactivated, At, Working, database, link, Last, ToldBy
  <2>2. \A s \in active' : Due(s)'
    BY <2>1 DEF Due
  <2>3. request'[r].step \in {"clear", "idle"}
    BY <1>11, GotoIs DEF Deactivated, Steps
  <2> QED BY <1>1, <1>4, <2>1, <2>2, <2>3, ToldAlone DEF ToldBy
<1>12. CASE Clear(r)
  <2>1. q.step = "clear" /\ Working(r) /\ active' = active /\ active = {}
    BY <1>12 DEF Clear, At, Working, database
  <2>2. request'[r].step = "idle"
    BY <1>12, GotoIs DEF Clear, Steps
  <2> QED BY <1>1, <1>4, <2>1, <2>2, ToldAlone DEF ToldBy
<1>13. CASE CycleComplete(r)
  <2>1. /\ q.step = "idle" /\ active' = active /\ rows' = rows /\ edition' = edition
        /\ Last' = Last
    BY <1>13 DEF CycleComplete, At, database, Last
  <2>2. request'[r].step \in {"idle", "complete"}
    BY <1>13, GotoIs DEF CycleComplete, Steps
  <2>3. \A p \in Requests : Working(p)' <=> Working(p)
    BY <1>1, <2>1, <2>2 DEF Working
  <2>4. ASSUME NEW p \in Requests PROVE ToldBy(p)'
    <3>1. CASE p = r
      BY <2>2, <3>1 DEF ToldBy
    <3>2. CASE p # r
      <4>1. ToldBy(p) /\ request'[p] = request[p]
        BY <1>1, <3>2 DEF Told
      <4> QED BY <2>1, <4>1 DEF ToldBy, Due
    <3> QED BY <3>1, <3>2
  <2>5. (\A p \in Requests : ~Working(p)') => \A s \in active' : Due(s)'
    BY <1>1, <2>1, <2>3 DEF Told, Due
  <2> QED BY <2>4, <2>5 DEF Told
<1>14. CASE DeactivateAll(r)
  <2>1. active' = {} /\ rows' = rows
    BY <1>14 DEF DeactivateAll
  <2>2. request'[r].step = "idle"
    BY <1>14, GotoIs DEF DeactivateAll, Steps
  <2>3. ASSUME NEW p \in Requests PROVE ToldBy(p)'
    <3>1. CASE p = r
      BY <2>2, <3>1 DEF ToldBy
    <3>2. CASE p # r
      <4>1. ToldBy(p) /\ request'[p] = request[p]
        BY <1>1, <3>2 DEF Told
      <4> QED BY <2>1, <4>1 DEF ToldBy
    <3> QED BY <3>1, <3>2
  <2> QED BY <2>1, <2>3 DEF Told
<1>15. CASE Insert(r)
  <2>1. PICK s \in Schedules :
          /\ NewRow(s)
          /\ request' = [request EXCEPT ![r].step = "list", ![r].target = s]
    BY <1>15 DEF Insert
  <2>2. /\ request'[r].step = "list"
        /\ request'[r].known = q.known /\ request'[r].saw = q.saw
    BY <1>3, <2>1 DEF Request
  <2>3. q.step = "insert" /\ Working(r) /\ Last' = Last
    BY <1>15 DEF Insert, At, Working, link, Last
  <2>4. active' = active /\ \A p \in active : edition'[p] = edition[p]
    BY <1>3, <2>1 DEF NewRow
  <2>5. (\A p \in active : Due(p)) /\ active \intersect q.known \subseteq q.saw
    BY <1>2, <2>3 DEF ToldBy
  <2>6. \A p \in active' : Due(p)'
    BY <2>3, <2>4, <2>5 DEF Due
  <2>7. ToldBy(r)' /\ Working(r)'
    BY <2>2, <2>4, <2>5, <2>6 DEF ToldBy, Working
  <2> QED BY <1>1, <1>4, <2>3, <2>7, ToldAlone
<1> QED
  BY <1>5, <1>6, <1>7, <1>8, <1>9, <1>10, <1>11, <1>12, <1>13, <1>14, <1>15 DEF Resume

(* When nothing is under way, the active schedule is the one the board     *)
(* runs, in its last edition, if requests came one at a time and nothing   *)
(* was lost, misdirected or stored as a sequence (ActiveRuns).             *)
THEOREM ActiveIsRun == Spec => []ActiveRuns
<1>1. Init => Told
  BY DEF Init, Told, ToldBy, Idle
<1>2. TypeOK /\ ListingIsCurrent /\ Alone /\ Told /\ [Next]_vars => Told'
  <2> SUFFICES ASSUME TypeOK, ListingIsCurrent, Alone, Told, [Next]_vars, trouble' \subseteq {"cycle"}
               PROVE  Told'
    BY DEF Told
  <2>1. ASSUME NEW r \in Requests, Ask(r) PROVE Told'
    BY <2>1, ToldAsk
  <2>2. ASSUME NEW r \in Requests, Resume(r) PROVE Told'
    BY <2>2, ToldResume
  <2>3. CASE Receive \/ LoseStatus \/ LastTask \/ UNCHANGED vars
    <3>1. /\ rows' = rows /\ active' = active /\ edition' = edition
          /\ request' = request /\ trouble' = trouble
      BY <2>3 DEF Receive, LoseStatus, LastTask, vars, database
    <3>2. Last' = Last
      <4>1. CASE Receive
        BY <4>1, ReceiveLast
      <4>2. CASE LoseStatus \/ LastTask \/ UNCHANGED vars
        BY <4>2 DEF LoseStatus, LastTask, vars, link, Last
      <4> QED BY <2>3, <4>1, <4>2
    <3> QED BY <3>1, <3>2 DEF Told, ToldBy, Due, Working
  <2>4. ~Lose /\ ~BoardReset
    BY DEF Lose, BoardReset
  <2>5. CASE Restart
    <3>1. /\ \A r \in Requests : request[r].step = "idle"
          /\ trouble' = trouble
      BY <2>5 DEF Restart, At
    <3>2. /\ \A r \in Requests : request'[r].step = "idle"
          /\ active' = active /\ edition' = edition /\ Last' = Last
      BY <2>5 DEF Restart, Idle, link, Last
    <3>3. \A s \in active' : Due(s)'
      BY <3>1, <3>2 DEF Told, Working, Due
    <3> QED BY <3>2, <3>3 DEF Told, ToldBy
  <2> QED BY <2>1, <2>2, <2>3, <2>4, <2>5 DEF Next
<1>3. Told => ActiveRuns
  <2> SUFFICES ASSUME Told, Quiet, trouble \subseteq {"cycle"}, NEW s \in active
               PROVE  board = [id |-> s, edition |-> edition[s]]
    BY DEF ActiveRuns
  <2>1. Last = board /\ \A r \in Requests : ~Working(r)
    BY DEF Quiet, Last, Working, At
  <2> QED BY <2>1 DEF Told, Due
<1> QED BY <1>1, <1>2, <1>3, Typing, ListingHolds, AloneHolds, PTL DEF Spec
------------------------------------------------------------------------------
LEMMA ShownAlone ==
  ASSUME NEW r \in Requests,
         \A q \in Requests \ {r} : request'[q] = request[q] /\ ~Working(q),
         request'[r].step \in {"refresh", "publish"} => request'[r].target \in active',
         request'[r].step \notin {"refresh", "publish", "clear"}
           => Last' = NoSchedule \/ Last'.id \in active'
  PROVE  Shown'
<1>1. \A q \in Requests \ {r} : request'[q].step \in {"idle", "complete"}
  BY DEF Working
<1> QED BY <1>1 DEF Shown

LEMMA ShownAsk ==
  ASSUME TypeOK, Shown, NEW r \in Requests, Ask(r)
  PROVE  Shown'
<1> SUFFICES ASSUME trouble' \subseteq {"misdirected", "reset"} PROVE Shown'
  BY DEF Shown
<1>1. PICK new \in Request : Begin(r, new)
  BY AskIs
<1>2. /\ \A q \in Requests \ {r} : request'[q] = request[q]
      /\ request'[r] = new
      /\ trouble \subseteq {"misdirected", "reset"}
      /\ \A q \in Requests : ~Working(q)
  BY <1>1, BeginIs, BeginAlone
<1>3. Last = NoSchedule \/ Last.id \in active
  BY <1>2 DEF Shown, Working
<1>4. Last' = Last
  BY AskIs DEF link, Last
<1>5. ASSUME NEW s \in Schedules, Delete(r, s) PROVE Shown'
  <2>1. Begin(r, For(s, "clear"))
    BY <1>5 DEF Delete
  <2>2. request'[r].step = "clear"
    BY <2>1, BeginIs, ForType DEF Steps
  <2> QED BY <1>2, <2>2, ShownAlone
<1>6. ASSUME active' = active, request'[r].step \notin {"refresh", "publish", "clear"}
      PROVE  Shown'
  BY <1>2, <1>3, <1>4, <1>6, ShownAlone
<1>7. CASE Browse(r)
  <2>1. Begin(r, Browsing)
    BY <1>7 DEF Browse, Browsing
  <2>2. request'[r].step = "insert"
    BY <2>1, BeginIs, BrowsingIs
  <2> QED BY <1>6, <1>7, <2>2 DEF Browse, database
<1>8. ASSUME NEW s \in Schedules, NEW activate \in BOOLEAN, Create(r, s, activate)
      PROVE  Shown'
  <2>1. Begin(r, Creating(s, activate))
    BY <1>8 DEF Create, Creating
  <2>2. request'[r].step \in {"list", "idle"}
    BY <2>1, BeginIs, CreatingIs
  <2> QED BY <1>6, <1>8, <2>2 DEF Create, NewRow
<1>9. ASSUME NEW s \in Schedules, Activate(r, s) \/ Update(r, s) PROVE Shown'
  <2>1. PICK step \in {"list", "reread"} : Begin(r, For(s, step))
    BY <1>9 DEF Activate, Update
  <2>2. request'[r].step \in {"list", "reread"}
    BY <2>1, BeginIs, ForType DEF Steps
  <2> QED BY <1>6, <1>9, <2>2 DEF Activate, Update, Rewrite, database
<1>10. ASSUME NEW s \in Schedules, Modify(r, s) \/ Deactivate(r, s) PROVE Shown'
  <2>1. PICK step \in {"replan", "get"} :
          Begin(r, [For(s, step) EXCEPT !.saw = active \intersect {s}])
    BY <1>10 DEF Modify, Deactivate
  <2>2. request'[r].step \in {"replan", "get"}
    BY <2>1, BeginIs, ForType DEF Request, Steps
  <2> QED BY <1>6, <1>10, <2>2 DEF Modify, Deactivate, database
<1> QED BY <1>5, <1>7, <1>8, <1>9, <1>10, AskIs

LEMMA ShownResume ==
  ASSUME TypeOK, Alone, Shown, NEW r \in Requests, Resume(r)
  PROVE  Shown'
<1> SUFFICES ASSUME trouble' \subseteq {"misdirected", "reset"} PROVE Shown'
  BY DEF Shown
<1> DEFINE q == request[r]
<1>1. /\ trouble \subseteq {"misdirected", "reset"}
      /\ \A p \in Requests \ {r} : request'[p] = request[p]
  BY ResumeIs
<1>2. active \subseteq rows /\ request \in [Requests -> Request]
  BY DEF TypeOK, Request
<1>3. Working(r) => \A p \in Requests \ {r} : ~Working(p)
  BY <1>1 DEF Alone
<1>4. /\ Working(r) /\ q.step \notin {"refresh", "publish", "clear"}
           => Last = NoSchedule \/ Last.id \in active
      /\ q.step \in {"refresh", "publish"} => q.target \in active
  BY <1>1, <1>3 DEF Shown, Working
<1>5. CASE Insert(r) \/ Reread(r) \/ Replan(r) \/ List(r)
  <2>1. /\ Working(r) /\ q.step \notin {"refresh", "publish", "clear"}
        /\ active' = active /\ Last' = Last
    BY <1>5 DEF Insert, NewRow, Reread, Replan, List, Rewrite, At, Working, database, link, Last
  <2>2. request'[r].step \notin {"refresh", "publish", "clear"}
    <3>1. CASE Insert(r) \/ List(r)
      BY <1>2, <3>1 DEF Insert, List, Request
    <3>2. CASE Reread(r) \/ Replan(r)
      <4>1. \E step \in {"list", "idle"} : Goto(r, step)
        BY <3>2 DEF Reread, Replan
      <4> QED BY <4>1, GotoIs DEF Steps
    <3> QED BY <1>5, <3>1, <3>2
  <2> QED BY <1>1, <1>3, <1>4, <2>1, <2>2, ShownAlone
<1>6. CASE Commit(r)
  <2>1. q.step = "commit" /\ Working(r) /\ Last' = Last
    BY <1>6 DEF Commit, At, Working, link, Last
  <2>2. CASE /\ active' = (active \ q.saw) \union {q.target}
             /\ Goto(r, IF q.tells THEN "refresh" ELSE "idle")
             /\ trouble' = IF q.tells THEN trouble ELSE trouble \union {"quick"}
    <3>1. q.tells
      BY <2>2
    <3>2. request'[r].step = "refresh" /\ request'[r].target = q.target
      BY <2>2, <3>1, GotoIs DEF Steps
    <3> QED BY <1>1, <1>3, <2>1, <2>2, <3>2, ShownAlone
  <2>3. CASE Goto(r, "idle") /\ active' = active
    <3>1. request'[r].step = "idle"
      BY <2>3, GotoIs DEF Steps
    <3> QED BY <1>1, <1>3, <1>4, <2>1, <2>3, <3>1, ShownAlone
  <2> QED BY <1>6, <2>2, <2>3 DEF Commit
<1>7. CASE Refresh(r)
  <2>1. q.step = "refresh" /\ Working(r) /\ active' = active
    BY <1>7 DEF Refresh, At, Working, database
  <2>2. q.target \in active /\ q.target \in rows
    BY <1>2, <1>4, <2>1
  <2>3. request'[r].step = "publish" /\ request'[r].target = q.target
    BY <1>2, <1>7, <2>2 DEF Refresh, Request
  <2> QED BY <1>1, <1>3, <2>1, <2>2, <2>3, ShownAlone
<1>8. CASE Publish(r)
  <2>1. q.step = "publish" /\ Working(r) /\ active' = active
    BY <1>8 DEF Publish, At, Working, database
  <2>2. Last' = [id |-> q.target, edition |-> q.payload]
    <3>1. [id |-> q.target, edition |-> q.payload] \in Commands
      BY <1>2 DEF Commands, Request
    <3> QED BY <1>8, <3>1, SendLast DEF Publish
  <2>3. request'[r].step = "idle"
    BY <1>8, GotoIs DEF Publish, Steps
  <2>4. Last'.id \in active'
    BY <1>4, <2>1, <2>2
  <2> QED BY <1>1, <1>3, <2>1, <2>3, <2>4, ShownAlone
<1>9. CASE Deactivated(r)
  <2>1. q.step = "get" /\ Working(r) /\ Last' = Last
    BY <1>9 DEF Deactivated, At, Working, link, Last
  <2>2. CASE Goto(r, "clear")
    <3>1. request'[r].step = "clear"
      BY <2>2, GotoIs DEF Steps
    <3> QED BY <1>1, <1>3, <2>1, <3>1, ShownAlone
  <2>3. CASE Goto(r, "idle") /\ active' = active
    <3>1. request'[r].step = "idle"
      BY <2>3, GotoIs DEF Steps
    <3> QED BY <1>1, <1>3, <1>4, <2>1, <2>3, <3>1, ShownAlone
  <2> QED BY <1>9, <2>2, <2>3 DEF Deactivated
<1>10. CASE Clear(r)
  <2>1. q.step = "clear" /\ Working(r)
    BY <1>10 DEF Clear, At, Working
  <2>2. request'[r].step = "idle"
    BY <1>10, GotoIs DEF Clear, Steps
  <2>3. Last' = NoSchedule
    <3>1. NoSchedule \in Commands
      BY ScheduleConstants DEF Commands, NoSchedule
    <3> QED BY <1>10, <3>1, SendLast DEF Clear
  <2> QED BY <1>1, <1>3, <2>1, <2>2, <2>3, ShownAlone
<1>11. CASE CycleComplete(r)
  <2>1. q.step = "idle" /\ active' = active /\ Last' = Last
    BY <1>11 DEF CycleComplete, At, database, Last
  <2>2. request'[r].step \in {"idle", "complete"}
    BY <1>11, GotoIs DEF CycleComplete, Steps
  <2>3. ASSUME NEW p \in Requests
        PROVE  \/ p # r /\ request'[p] = request[p]
               \/ p = r /\ q.step = "idle" /\ request'[p].step \in {"idle", "complete"}
    BY <1>1, <2>1, <2>2
  <2> QED BY <1>1, <2>1, <2>3 DEF Shown
<1>12. ~DeactivateAll(r)
  BY DEF DeactivateAll
<1> QED
  BY <1>5, <1>6, <1>7, <1>8, <1>9, <1>10, <1>11, <1>12 DEF Resume

(* When nothing is under way, what the board runs is active in the         *)
(* database, whatever resets the board went through and whichever schedule *)
(* a delete_schedule was meant for (RunningIsActive).                      *)
THEOREM RunIsShown == Spec => []RunningIsActive
<1>1. Init => Shown
  BY DEF Init, Shown, Idle, Last
<1>2. TypeOK /\ Alone /\ Shown /\ [Next]_vars => Shown'
  <2> SUFFICES ASSUME TypeOK, Alone, Shown, [Next]_vars,
                      trouble' \subseteq {"misdirected", "reset"}
               PROVE  Shown'
    BY DEF Shown
  <2>1. ASSUME NEW r \in Requests, Ask(r) PROVE Shown'
    BY <2>1, ShownAsk
  <2>2. ASSUME NEW r \in Requests, Resume(r) PROVE Shown'
    BY <2>2, ShownResume
  <2>3. CASE Receive \/ LoseStatus \/ LastTask \/ BoardReset \/ UNCHANGED vars
    <3>1. active' = active /\ request' = request /\ trouble \subseteq trouble'
      BY <2>3 DEF Receive, LoseStatus, LastTask, BoardReset, vars, database
    <3>2. Last' = Last \/ Last' = NoSchedule
      <4>1. CASE Receive
        BY <4>1, ReceiveLast
      <4>2. CASE LoseStatus \/ LastTask \/ BoardReset \/ UNCHANGED vars
        BY <4>2 DEF LoseStatus, LastTask, BoardReset, vars, link, Last
      <4> QED BY <2>3, <4>1, <4>2
    <3> QED BY <3>1, <3>2 DEF Shown
  <2>4. ~Lose
    BY DEF Lose
  <2>5. CASE Restart
    <3>1. /\ \A r \in Requests : request[r].step = "idle"
          /\ trouble' = trouble
      BY <2>5 DEF Restart, At
    <3>2. /\ \A r \in Requests : request'[r].step = "idle"
          /\ active' = active /\ Last' = Last
      BY <2>5 DEF Restart, Idle, link, Last
    <3> QED BY <3>1, <3>2 DEF Shown
  <2> QED BY <2>1, <2>2, <2>3, <2>4, <2>5 DEF Next
<1>3. TypeOK /\ Shown => RunningIsActive
  <2> SUFFICES ASSUME Shown, Quiet, trouble \subseteq {"misdirected", "reset"},
                      board # NoSchedule
               PROVE  board.id \in active
    BY DEF RunningIsActive
  <2>1. Last = board /\ \A r \in Requests : request[r].step = "idle"
    BY DEF Quiet, Last, At
  <2> QED BY <2>1 DEF Shown
<1> QED BY <1>1, <1>2, <1>3, Typing, AloneHolds, PTL DEF Spec
==============================================================================
