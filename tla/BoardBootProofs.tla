--------------------------- MODULE BoardBootProofs ----------------------------
(***************************************************************************)
(* The credentials, the button and the firmware of BoardBoot, for any      *)
(* credentials, times of the button and number of failed boots.            *)
(*                                                                         *)
(* A step of the board does one thing to the pages and one to the button:  *)
(* what each keeps is shown for these, and put together for Next.          *)
(***************************************************************************)
EXTENDS BoardBoot, TLAPS

(* The record of a rewrite.                                                *)
Rewrites == [kind : {"none", "save", "erase"}, cred : Credentials \union {None},
             at : 0..5, written : 0..2, failed : BOOLEAN]

(* The banks are swapped, and nothing else happens to the pages.           *)
SwapOnly == op = NoOp /\ SwapBanks /\ UNCHANGED <<page, op, may, faulty>>

(* What a step may do to the pages ...                                     *)
PagesStep ==
  \/ UNCHANGED pages \/ SwapOnly
  \/ \E c \in Credentials : BeginSave(c)
  \/ BeginErase
  \/ \E ok \in BOOLEAN : EraseStep(ok) \/ ProgramStep(ok)
  \/ EndRewrite
  \/ Cut /\ UNCHANGED active

(* ... and to the button.                                                  *)
ButtonStep ==
  \/ UNCHANGED button \/ Press \/ Release \/ Pass
  \/ Sample \/ Decide \/ Resolve \/ ButtonReset
------------------------------------------------------------------------------
(* How far a rewrite has come.                                             *)
Shape ==
  /\ op.kind = "none" => op = NoOp
  /\ op.kind = "erase" => op.at \in 1..3 /\ op.cred = None
  /\ op.kind = "save" => op.at \in 1..5 /\ op.cred \in Credentials
  /\ op.written <= IF op.at <= 3 THEN 0 ELSE op.at - 3

(* What a rewrite without an error has done by then.                       *)
Progress ==
  op # NoOp /\ ~op.failed =>
    /\ op.at \in {2, 3} => page[1] = Blank
    /\ op.at = 3 => page[2] = Blank
    /\ op.at = 4 => page[active] = op.cred /\ page[Other(active)] = Blank
    /\ op.at = 5 => page[1] = op.cred /\ page[2] = op.cred
    /\ op.at \in {4, 5} => op.written > 0

(* The pages agree, and with what may be loaded, until an error.           *)
Agree ==
  ~faulty /\ ~op.failed =>
    /\ \A b \in Banks : Valid(b) => page[b] \in may
    /\ Valid(1) \/ Valid(2) \/ None \in may
    /\ Valid(1) /\ Valid(2) => page[1] = page[2]

Allowed == op # NoOp => {op.cred, None} \subseteq may

PagesInv == PagesTypeOK /\ Shape /\ Progress /\ Agree /\ Allowed

(* A rewrite begins with the pages as they are.                            *)
LEMMA BeginKeeps ==
  ASSUME PagesInv, NEW kind \in {"save", "erase"}, NEW cred,
         kind = "save" => cred \in Credentials, kind = "erase" => cred = None,
         Begin(kind, cred, 1)
  PROVE  PagesInv'
<1>1. op' = [kind |-> kind, cred |-> cred, at |-> 1, written |-> 0, failed |-> FALSE]
  BY DEF Begin, NoOp
<1>2. op' # NoOp /\ ~op.failed /\ UNCHANGED <<active, page, faulty>>
      /\ may' = may \union {cred, None}
  BY <1>1 DEF Begin, NoOp
<1>3. PagesTypeOK'
  BY <1>1, <1>2 DEF PagesInv, PagesTypeOK
<1>4. Shape' /\ Progress' /\ Allowed'
  BY <1>1, <1>2 DEF Shape, Progress, Allowed
<1>5. Agree'
  BY <1>1, <1>2 DEF PagesInv, Agree, Valid
<1> QED BY <1>3, <1>4, <1>5 DEF PagesInv

(* Erasing: bank 1, then bank 2.                                           *)
LEMMA EraseKeeps ==
  ASSUME PagesInv, NEW ok \in BOOLEAN, EraseStep(ok)
  PROVE  PagesInv'
<1>1. op \in Rewrites /\ op.at \in {1, 2} /\ Target(op.at) = op.at
      /\ page \in [Banks -> Credentials \union {Blank, Torn}]
  BY DEF PagesInv, PagesTypeOK, Rewrites, EraseStep, Erasing, Target, Banks
<1>2. op' = [op EXCEPT !.at = @ + 1, !.failed = @ \/ ~ok]
      /\ UNCHANGED <<active, may, faulty>>
  BY DEF EraseStep
<1>3. /\ op' \in Rewrites /\ op'.at = op.at + 1 /\ op'.kind = op.kind
      /\ op'.cred = op.cred /\ op'.written = op.written
      /\ ~op'.failed => ~op.failed /\ ok
  <2> DEFINE failed == op.failed \/ ~ok
  <2>1. op.at + 1 \in 0..5 /\ failed \in BOOLEAN /\ (~failed => ~op.failed /\ ok)
    BY <1>1 DEF Rewrites
  <2>2. op' = [op EXCEPT !.at = @ + 1, !.failed = failed]
    BY <1>2
  <2> HIDE DEF failed
  <2> QED BY <1>1, <2>1, <2>2 DEF Rewrites
<1>4. op' # NoOp /\ op # NoOp
  BY <1>1, <1>3 DEF NoOp
<1>5. page' = IF ok THEN [page EXCEPT ![op.at] = Blank] ELSE page
  BY <1>1 DEF EraseStep
<1>6. PagesTypeOK'
  BY <1>1, <1>2, <1>3, <1>5 DEF PagesInv, PagesTypeOK, Rewrites, Banks
<1>7. Shape' /\ Allowed'
  BY <1>1, <1>2, <1>3, <1>4 DEF PagesInv, Shape, Allowed, Rewrites
<1>8. Progress'
  BY <1>1, <1>3, <1>4, <1>5 DEF PagesInv, Progress, Banks
<1>9. Agree'
  BY <1>1, <1>2, <1>3, <1>4, <1>5, CredentialConstants
     DEF PagesInv, Agree, Allowed, Valid, Banks
<1> QED BY <1>6, <1>7, <1>8, <1>9 DEF PagesInv

(* Programming: the active bank, then the other.                           *)
LEMMA ProgramKeeps ==
  ASSUME PagesInv, NEW ok \in BOOLEAN, ProgramStep(ok)
  PROVE  PagesInv'
<1> DEFINE b == Target(op.at)
           done == ok /\ page[b] = Blank
<1>1. op \in Rewrites /\ op.at \in {3, 4} /\ op.kind = "save" /\ op.cred \in Credentials
      /\ page \in [Banks -> Credentials \union {Blank, Torn}] /\ active \in Banks
  BY DEF PagesInv, PagesTypeOK, Shape, Rewrites, ProgramStep, Programming
<1>2. b = (IF op.at = 3 THEN active ELSE Other(active)) /\ b \in Banks
  BY <1>1 DEF Target, Banks, Other
<1>3. /\ op' = [op EXCEPT !.at = @ + 1, !.written = IF done THEN @ + 1 ELSE @,
                          !.failed = @ \/ ~done]
      /\ UNCHANGED <<active, may, faulty>>
  BY DEF ProgramStep
<1>4. op.written + 1 \in 0..2 /\ op.written <= op.at - 3
  BY <1>1 DEF PagesInv, Shape, Rewrites
<1>5. /\ op' \in Rewrites /\ op'.at = op.at + 1 /\ op'.kind = op.kind
      /\ op'.cred = op.cred /\ (done => op'.written = op.written + 1)
      /\ ~op'.failed => ~op.failed /\ done
  <2> DEFINE failed == op.failed \/ ~done
             written == IF done THEN op.written + 1 ELSE op.written
  <2>1. op.at + 1 \in 0..5 /\ failed \in BOOLEAN /\ (~failed => ~op.failed /\ done)
        /\ written \in 0..2
    BY <1>1, <1>4 DEF Rewrites
  <2>2. op' = [op EXCEPT !.at = @ + 1, !.written = written, !.failed = failed]
    BY <1>3
  <2> HIDE DEF failed, written, done
  <2>3. /\ op' \in Rewrites /\ op'.at = op.at + 1 /\ op'.kind = op.kind
        /\ op'.cred = op.cred /\ op'.written = written /\ op'.failed = failed
    BY <1>1, <2>1, <2>2 DEF Rewrites
  <2> QED BY <2>1, <2>3 DEF written
<1>6. op' # NoOp /\ op # NoOp
  BY <1>1, <1>5 DEF NoOp
<1>7. page' = IF done THEN [page EXCEPT ![b] = op.cred]
              ELSE IF page[b] = Blank THEN [page EXCEPT ![b] = Torn] ELSE page
  BY DEF ProgramStep
<1>8. PagesTypeOK'
  BY <1>1, <1>2, <1>3, <1>5, <1>7 DEF PagesInv, PagesTypeOK, Rewrites
<1>9. Shape' /\ Allowed'
  BY <1>1, <1>3, <1>4, <1>5, <1>6 DEF PagesInv, Shape, Allowed, Rewrites
<1>10. Progress' /\ Agree'
  <2>1. CASE ~done
    BY <2>1, <1>5 DEF Progress, Agree
  <2>2. CASE done /\ ~op.failed
    <3>1. page' = [page EXCEPT ![b] = op.cred]
      BY <2>2, <1>7
    <3>2. op'.written > 0
      BY <2>2, <1>1, <1>5 DEF Rewrites
    <3>3. Progress'
      BY <1>1, <1>2, <1>3, <1>5, <1>6, <2>2, <3>1, <3>2
         DEF PagesInv, Progress, Banks, Other
    <3>4. Agree'
      BY <1>1, <1>2, <1>3, <1>5, <1>6, <2>2, <3>1, CredentialConstants
         DEF PagesInv, Progress, Agree, Allowed, Valid, Banks, Other
    <3> QED BY <3>3, <3>4
  <2>3. CASE op.failed
    BY <2>3, <1>5 DEF Progress, Agree
  <2> QED BY <2>1, <2>2, <2>3
<1> QED BY <1>8, <1>9, <1>10 DEF PagesInv

(* A rewrite that met no error leaves both pages as it was asked.          *)
LEMMA EndKeeps ==
  ASSUME PagesInv, EndRewrite
  PROVE  PagesInv'
<1>1. /\ op \in Rewrites /\ op # NoOp /\ op' = NoOp /\ UNCHANGED <<active, page>>
      /\ faulty' = op.failed
      /\ page \in [Banks -> Credentials \union {Blank, Torn}]
  BY DEF PagesInv, PagesTypeOK, Rewrites, EndRewrite, Finished
<1>2. may' = IF Succeeded THEN {op.cred} ELSE may
  BY DEF EndRewrite
<1>3. (op.kind = "save" /\ op.at = 5) \/ (op.kind = "erase" /\ op.at = 3)
  BY <1>1 DEF PagesInv, Shape, EndRewrite, Finished, Erasing, Programming, Rewrites
<1>4. PagesTypeOK'
  BY <1>1, <1>2 DEF PagesInv, PagesTypeOK, Rewrites, NoOp
<1>5. Shape' /\ Progress' /\ Allowed'
  BY <1>1 DEF Shape, Progress, Allowed, NoOp
<1>6. Agree'
  <2> SUFFICES ASSUME ~op.failed PROVE Agree'
    BY <1>1 DEF Agree
  <2>1. CASE op.kind = "save" /\ op.at = 5
    BY <1>1, <1>2, <2>1
       DEF PagesInv, Shape, Progress, Agree, Succeeded, Valid, Banks
  <2>2. CASE op.kind = "erase" /\ op.at = 3
    BY <1>1, <1>2, <2>2, CredentialConstants
       DEF PagesInv, Shape, Progress, Agree, Succeeded, Valid, Banks
  <2> QED BY <1>3, <2>1, <2>2
<1> QED BY <1>4, <1>5, <1>6 DEF PagesInv

(* A rewrite that is cut off leaves a page as it was, or an invalid one.   *)
LEMMA CutKeeps ==
  ASSUME PagesInv, Cut, UNCHANGED active
  PROVE  PagesInv'
<1>1. op' = NoOp /\ UNCHANGED may /\ faulty' = (faulty \/ op.failed)
      /\ page \in [Banks -> Credentials \union {Blank, Torn}]
  BY DEF Cut, PagesInv, PagesTypeOK
<1>2. \/ UNCHANGED page
      \/ op # NoOp /\ \E b \in Banks : page' = [page EXCEPT ![b] = Torn]
  <2>1. Erasing \/ Programming => Target(op.at) \in Banks /\ op # NoOp
    BY DEF Erasing, Programming, Target, Banks, Other, NoOp, PagesInv, PagesTypeOK
  <2> QED BY <2>1 DEF Cut
<1>3. PagesTypeOK'
  BY <1>1, <1>2 DEF PagesInv, PagesTypeOK, NoOp
<1>4. Shape' /\ Progress' /\ Allowed'
  BY <1>1 DEF Shape, Progress, Allowed, NoOp
<1>5. Agree'
  BY <1>1, <1>2, CredentialConstants DEF PagesInv, Agree, Allowed, Valid, Banks, NoOp
<1> QED BY <1>3, <1>4, <1>5 DEF PagesInv

(* The pages, by what a step may do to them.                               *)
LEMMA PagesPreserved == PagesInv /\ PagesStep => PagesInv'
<1> SUFFICES ASSUME PagesInv, PagesStep PROVE PagesInv'
  OBVIOUS
<1>1. CASE UNCHANGED pages
  BY <1>1 DEF pages, PagesInv, PagesTypeOK, Shape, Progress, Agree, Allowed, Valid
<1>2. CASE SwapOnly
  BY <1>2 DEF SwapOnly, SwapBanks, PagesInv, PagesTypeOK, Shape, Progress, Agree,
     Allowed, Valid, Other, Banks
<1>3. ASSUME NEW c \in Credentials, BeginSave(c) PROVE PagesInv'
  BY <1>3, BeginKeeps DEF BeginSave
<1>4. CASE BeginErase
  BY <1>4, BeginKeeps DEF BeginErase
<1> QED
  BY <1>1, <1>2, <1>3, <1>4, EraseKeeps, ProgramKeeps, EndKeeps, CutKeeps DEF PagesStep
------------------------------------------------------------------------------
(* Until a gesture is made out of it, a press that is held has the age it  *)
(* has been down, and beyond the warning time it has been warned of, or a  *)
(* tick went by unpolled.  A poll works with that age, unless a press came *)
(* after it was read.                                                      *)
ButtonInv ==
  /\ ButtonTypeOK
  /\ held /\ pressed => age = down
  /\ held /\ stage \in {"none", "timed"} /\ (age > Warn \/ (age >= Warn /\ polled))
       => warned \/ missed
  /\ stage = "timed" => held /\ IF struck THEN age = 0 ELSE sample = age

(* Six Booleans, named one by one.                                         *)
Flags(p, h, w, l, m, s) ==
  /\ p \in BOOLEAN /\ h \in BOOLEAN /\ w \in BOOLEAN
  /\ l \in BOOLEAN /\ m \in BOOLEAN /\ s \in BOOLEAN

Stages == {"none", "timed", "reset", "portal", "capture"}

(* The types of the button, flag by flag.                                  *)
LEMMA ButtonFlags ==
  /\ ButtonTypeOK <=> /\ Flags(pressed, held, warned, polled, missed, struck)
                      /\ age \in 0..Commit /\ sample \in 0..Commit /\ down \in 0..Commit
                      /\ stage \in Stages
  /\ ButtonTypeOK' <=> /\ Flags(pressed', held', warned', polled', missed', struck')
                       /\ age' \in 0..Commit /\ sample' \in 0..Commit
                       /\ down' \in 0..Commit /\ stage' \in Stages
  BY DEF ButtonTypeOK, Flags, Stages

(* The button, by what a step may do to it.                                *)
LEMMA ButtonPreserved == ButtonInv /\ ButtonStep => ButtonInv'
<1> SUFFICES ASSUME ButtonInv, ButtonStep PROVE ButtonInv'
  OBVIOUS
<1>0. /\ Commit \in Nat /\ Warn \in Nat /\ 0 < Warn /\ Warn < Commit
      /\ age \in 0..Commit /\ sample \in 0..Commit /\ down \in 0..Commit
      /\ stage \in Stages
      /\ Flags(pressed, held, warned, polled, missed, struck)
  BY ButtonConstants, ButtonFlags DEF ButtonInv
<1>1. CASE UNCHANGED button
  BY <1>1 DEF button, ButtonInv, ButtonTypeOK
<1>2. CASE Press
  <2>1. /\ age' = 0 /\ down' = 0 /\ missed' = FALSE /\ pressed' = TRUE /\ held' = TRUE
        /\ UNCHANGED <<warned, polled, stage, sample>>
    BY <1>2 DEF Press
  <2>2. struck' \in BOOLEAN /\ (stage = "timed" => struck')
    BY <1>2 DEF Press
  <2>3. ButtonTypeOK'
    <3>1. Flags(pressed', held', warned', polled', missed', struck')
      BY <1>0, <2>1, <2>2 DEF Flags
    <3> QED BY <1>0, <2>1, <3>1, ButtonFlags
  <2>4. stage' = "timed" => held' /\ struck' /\ age' = 0
    BY <2>1, <2>2
  <2> QED BY <1>0, <2>1, <2>3, <2>4 DEF ButtonInv
<1>3. CASE Release
  <2>1. /\ down' = 0 /\ pressed' = FALSE
        /\ UNCHANGED <<held, age, warned, polled, stage, sample, missed, struck>>
    BY <1>3 DEF Release
  <2>2. ButtonTypeOK'
    <3>1. Flags(pressed', held', warned', polled', missed', struck')
      BY <1>0, <2>1 DEF Flags
    <3> QED BY <1>0, <2>1, <3>1, ButtonFlags
  <2> QED BY <1>0, <2>1, <2>2 DEF ButtonInv
<1>4. CASE Pass
  <2>1. Later(age) \in 0..Commit /\ Later(down) \in 0..Commit
        /\ (Later(age) > Warn => age >= Warn)
    BY <1>0 DEF Later
  <2>2. age' \in 0..Commit /\ down' \in 0..Commit
    BY <1>0, <1>4, <2>1 DEF Pass
  <2>3. Flags(pressed', held', warned', polled', missed', struck')
    BY <1>0, <1>4 DEF Pass, Flags
  <2>4. (held /\ pressed => age = down)'
    BY <1>0, <1>4 DEF Pass, ButtonInv
  <2>5. ASSUME held', age' > Warn PROVE missed' \/ warned'
    BY <1>0, <1>4, <2>1, <2>5 DEF Pass, ButtonInv
  <2>6. UNCHANGED <<stage, sample>> /\ stage = "none" /\ polled' = FALSE
    BY <1>4 DEF Pass
  <2>7. ButtonTypeOK'
    BY <1>0, <2>2, <2>3, <2>6, ButtonFlags
  <2> QED BY <2>4, <2>5, <2>6, <2>7 DEF ButtonInv
<1>5. CASE Sample
  <2>1. ButtonTypeOK'
    BY <1>0, <1>5 DEF Sample, ButtonInv, ButtonTypeOK
  <2> QED BY <1>0, <1>5, <2>1 DEF Sample, ButtonInv
<1>6. CASE Decide
  <2>1. /\ stage = "timed" /\ stage' = Gesture /\ sample' = 0 /\ polled' = TRUE
        /\ UNCHANGED <<pressed, held, age, struck, down, missed>>
    BY <1>6 DEF Decide
  <2>2. Gesture \in Stages \ {"timed"} /\ (Gesture = "none" => pressed)
    BY DEF Gesture, Stages
  <2>3. warned' \in BOOLEAN
    BY <1>6 DEF Decide
  <2>4. ButtonTypeOK'
    <3>1. Flags(pressed', held', warned', polled', missed', struck')
      BY <1>0, <2>1, <2>3 DEF Flags
    <3> QED BY <1>0, <2>1, <2>2, <3>1, ButtonFlags
  <2>5. ASSUME held', stage' \in {"none", "timed"}, age' >= Warn PROVE warned' \/ missed'
    <3>1. ~struck /\ sample = age
      BY <1>0, <2>1, <2>5 DEF ButtonInv
    <3>2. Gesture = "none" /\ pressed /\ sample >= Warn
      BY <2>1, <2>2, <2>5, <3>1
    <3> QED BY <1>6, <3>2 DEF Decide
  <2> QED BY <1>0, <2>1, <2>2, <2>4, <2>5 DEF ButtonInv
<1>7. CASE Resolve
  <2>1. /\ age' = 0 /\ held' = FALSE /\ stage' = "none"
        /\ UNCHANGED <<pressed, warned, polled, sample, struck, down, missed>>
    BY <1>7 DEF Resolve
  <2>2. ButtonTypeOK'
    <3>1. Flags(pressed', held', warned', polled', missed', struck')
      BY <1>0, <2>1 DEF Flags
    <3> QED BY <1>0, <2>1, <3>1, ButtonFlags DEF Stages
  <2> QED BY <2>1, <2>2 DEF ButtonInv
<1>8. CASE ButtonReset
  <2>1. /\ age' = 0 /\ held' = FALSE /\ warned' = FALSE /\ polled' = FALSE
        /\ stage' = "none" /\ sample' = 0 /\ struck' = FALSE
        /\ missed' = FALSE /\ UNCHANGED <<pressed, down>>
    BY <1>8 DEF ButtonReset
  <2>2. ButtonTypeOK'
    <3>1. Flags(pressed', held', warned', polled', missed', struck')
      BY <1>0, <2>1 DEF Flags
    <3> QED BY <1>0, <2>1, <3>1, ButtonFlags DEF Stages
  <2> QED BY <2>1, <2>2 DEF ButtonInv
<1> QED BY <1>1, <1>2, <1>3, <1>4, <1>5, <1>6, <1>7, <1>8 DEF ButtonStep
------------------------------------------------------------------------------
(* What every step of the board does to the pages and to the button.       *)
LEMMA StepSplits == TypeOK /\ [Next]_vars => PagesStep /\ ButtonStep
<1> SUFFICES ASSUME TypeOK, [Next]_vars PROVE PagesStep /\ ButtonStep
  OBVIOUS
<1>0. op = NoOp <=> pc # "rewrite"
  BY DEF TypeOK
<1>1. CASE RtcInit
  BY <1>1 DEF RtcInit, PagesStep, ButtonStep
<1>2. ASSUME NEW swapped \in BOOLEAN, ValidateBoot(swapped)
      PROVE  PagesStep /\ ButtonStep
  BY <1>0, <1>2 DEF ValidateBoot, PagesStep, ButtonStep, SwapOnly, pages, button
<1>3. CASE LoadCredentials
  BY <1>3 DEF LoadCredentials, PagesStep, ButtonStep
<1>4. CASE Connect
  BY <1>4 DEF Connect, PagesStep, ButtonStep
<1>5. CASE Retry
  BY <1>5 DEF Retry, PagesStep, ButtonStep
<1>6. CASE MarkBootSuccessful
  BY <1>6 DEF MarkBootSuccessful, PagesStep, ButtonStep
<1>7. CASE FlashImage
  BY <1>7 DEF FlashImage, PagesStep, ButtonStep
<1>8. CASE FlashFails
  BY <1>8 DEF FlashFails, PagesStep, ButtonStep
<1>9. ASSUME NEW kind \in {"good", "bad"}, SwapAndReset(kind)
      PROVE  PagesStep /\ ButtonStep
  BY <1>0, <1>9 DEF SwapAndReset, PagesStep, ButtonStep, SwapOnly, pages, button
<1>10. CASE Work
  BY <1>10 DEF Work, PagesStep, ButtonStep
<1>11. CASE Return
  BY <1>11 DEF Return, PagesStep, ButtonStep
<1>12. CASE PollButton
  BY <1>12 DEF PollButton, PagesStep, ButtonStep
<1>13. CASE StartPortal
  BY <1>13 DEF StartPortal, PagesStep, ButtonStep
<1>14. ASSUME NEW c \in Credentials, Save(c)
       PROVE  PagesStep /\ ButtonStep
  BY <1>14 DEF Save, PagesStep, ButtonStep
<1>15. CASE Erase
  BY <1>15 DEF Erase, PagesStep, ButtonStep
<1>16. CASE RewriteStep
  BY <1>16 DEF RewriteStep, PagesStep, ButtonStep
<1>17. CASE RewriteEnds
  BY <1>17 DEF RewriteEnds, PagesStep, ButtonStep
<1>18. CASE Reset
  BY <1>18 DEF Reset, PagesStep, ButtonStep
<1>19. CASE PowerLoss
  BY <1>19 DEF PowerLoss, PagesStep, ButtonStep
<1>20. CASE Tick
  BY <1>20 DEF Tick, PagesStep, ButtonStep
<1>21. CASE Touch
  BY <1>21 DEF Touch, PagesStep, ButtonStep
<1>22. CASE UNCHANGED vars
  BY <1>22 DEF vars, PagesStep, ButtonStep
<1>23. CASE ServeGesture
  BY <1>23 DEF ServeGesture, PagesStep, ButtonStep
<1> QED
  BY <1>1, <1>2, <1>3, <1>4, <1>5, <1>6, <1>7, <1>8, <1>9, <1>10, <1>11, <1>12, <1>13,
       <1>14, <1>15, <1>16, <1>17, <1>18, <1>19, <1>20, <1>21, <1>22, <1>23 DEF Next, Boot,
       Update

(* The bank that is active holds a whole firmware, and the counter is zero *)
(* where it is looked at: RTC_Init has just cleared it.                    *)
FirmwareInv ==
  /\ image[active] # "torn"
  /\ pc = "validate" => counter = 0

(* What is left of TypeOK when the pages and the button are taken away.    *)
Rest ==
  /\ pc \in Phases
  /\ why \in {"nobody", "portal", "command", "button"}
  /\ op = NoOp <=> pc # "rewrite"
  /\ image \in [Banks -> {"good", "bad", "torn"}]
  /\ counter \in 0..(MaxFailures + 1) /\ unmarked \in 0..(MaxFailures + 1)

(* The rest of the types, and the firmware, by action.                     *)
LEMMA RestPreserved ==
  TypeOK /\ Rest /\ FirmwareInv /\ [Next]_vars => Rest' /\ FirmwareInv'
<1> SUFFICES ASSUME TypeOK, Rest, FirmwareInv, [Next]_vars PROVE Rest' /\ FirmwareInv'
  OBVIOUS
<1>0. /\ active \in Banks /\ MaxFailures \in Nat \ {0}
      /\ counter \in 0..(MaxFailures + 1) /\ unmarked \in 0..(MaxFailures + 1)
      /\ \A b \in Banks : Other(b) \in Banks /\ Other(b) # b
  BY BootConstants DEF TypeOK, PagesTypeOK, Banks, Other
<1>1. CASE RtcInit
  BY <1>0, <1>1 DEF RtcInit, Rest, FirmwareInv, Goto, Phases, pages
<1>2. ASSUME NEW swapped \in BOOLEAN, ValidateBoot(swapped)
      PROVE  Rest' /\ FirmwareInv'
  BY <1>0, <1>2 DEF ValidateBoot, Rest, FirmwareInv, Goto, Phases, SwapBanks
<1>3. CASE LoadCredentials
  BY <1>0, <1>3 DEF LoadCredentials, Rest, FirmwareInv, Goto, Phases, pages, firmware
<1>4. CASE Connect
  BY <1>0, <1>4 DEF Connect, Rest, FirmwareInv, Goto, Phases, pages, firmware
<1>5. CASE Retry
  BY <1>0, <1>5 DEF Retry, Rest, FirmwareInv, Goto, Phases, pages, firmware
<1>6. CASE MarkBootSuccessful
  BY <1>0, <1>6 DEF MarkBootSuccessful, Rest, FirmwareInv, Goto, Phases, pages
<1>7. CASE FlashImage
  BY <1>0, <1>7 DEF FlashImage, Rest, FirmwareInv, Goto, Phases, pages
<1>8. CASE FlashFails
  BY <1>0, <1>8 DEF FlashFails, Rest, FirmwareInv, Goto, Phases, pages, firmware
<1>9. ASSUME NEW kind \in {"good", "bad"}, SwapAndReset(kind)
      PROVE  Rest' /\ FirmwareInv'
  BY <1>0, <1>9 DEF SwapAndReset, Rest, FirmwareInv, Goto, Phases, SwapBanks
<1>10. CASE Work
  BY <1>0, <1>10 DEF Work, Rest, FirmwareInv, Goto, Phases, pages, firmware
<1>11. CASE Return
  BY <1>0, <1>11 DEF Return, Rest, FirmwareInv, Goto, Phases, pages, firmware
<1>12. CASE PollButton
  BY <1>0, <1>12 DEF PollButton, Rest, FirmwareInv, Phases, pages, firmware
<1>13. CASE StartPortal
  BY <1>0, <1>13 DEF StartPortal, Rest, FirmwareInv, Goto, Phases, pages, firmware
<1>14. ASSUME NEW c \in Credentials, Save(c)
       PROVE  Rest' /\ FirmwareInv'
  BY <1>0, <1>14 DEF Save, Rest, FirmwareInv, Phases, firmware, BeginSave, Begin, NoOp
<1>15. CASE Erase
  BY <1>0, <1>15 DEF Erase, Rest, FirmwareInv, Phases, firmware, BeginErase, Begin, NoOp
<1>16. CASE RewriteStep
  <2>1. op' # NoOp /\ op # NoOp
    <3>1. op.at \in {1, 2, 3, 4} /\ op'.at = op.at + 1
      BY <1>16 DEF RewriteStep, EraseStep, ProgramStep, Erasing, Programming, TypeOK,
         PagesTypeOK
    <3> QED BY <3>1 DEF NoOp
  <2>2. UNCHANGED <<active, pc, why, firmware>>
    BY <1>16 DEF RewriteStep, EraseStep, ProgramStep
  <2> QED BY <2>1, <2>2 DEF Rest, FirmwareInv, firmware
<1>17. CASE RewriteEnds
  BY <1>0, <1>17 DEF RewriteEnds, Rest, FirmwareInv, Goto, Phases, firmware, EndRewrite
<1>18. CASE Reset
  BY <1>0, <1>18 DEF Reset, Rest, FirmwareInv, Goto, Phases, firmware, Cut
<1>19. CASE PowerLoss
  BY <1>0, <1>19 DEF PowerLoss, Rest, FirmwareInv, Goto, Phases, Cut
<1>20. CASE Tick
  BY <1>0, <1>20 DEF Tick, Rest, FirmwareInv, Phases, pages, firmware
<1>21. CASE Touch
  BY <1>0, <1>21 DEF Touch, Rest, FirmwareInv, Phases, pages, firmware
<1>22. CASE UNCHANGED vars
  BY <1>22 DEF vars, pages, firmware, Rest, FirmwareInv
<1>23. CASE ServeGesture
  <2>1. CASE stage = "reset"
    <3>1. BeginErase /\ pc' = "rewrite" /\ why' = "button" /\ UNCHANGED firmware
      BY <1>23, <2>1 DEF ServeGesture
    <3>2. op' # NoOp /\ UNCHANGED active
      BY <3>1 DEF BeginErase, Begin, NoOp
    <3> QED BY <3>1, <3>2 DEF Rest, FirmwareInv, Phases, firmware
  <2>2. CASE stage # "reset"
    <3>1. pc \in {"backoff", "run"} /\ pc' \in {"portal", "busy", pc}
          /\ why' = "nobody" /\ UNCHANGED <<op, active, firmware>>
      BY <1>23, <2>2 DEF ServeGesture, Goto, pages
    <3> QED BY <3>1 DEF Rest, FirmwareInv, Phases, firmware
  <2> QED BY <2>1, <2>2
<1> QED
  BY <1>1, <1>2, <1>3, <1>4, <1>5, <1>6, <1>7, <1>8, <1>9, <1>10, <1>11, <1>12, <1>13,
       <1>14, <1>15, <1>16, <1>17, <1>18, <1>19, <1>20, <1>21, <1>22, <1>23 DEF Next, Boot,
       Update

(* The inductive invariant.                                                *)
TypedInv == TypeOK /\ PagesInv /\ ButtonInv /\ Rest /\ FirmwareInv

(* All of it, always.                                                      *)
LEMMA InvAlways == Spec => []TypedInv
<1>1. Init => TypedInv
  <2> SUFFICES ASSUME Init PROVE TypedInv
    OBVIOUS
  <2>1. PagesInv
    <3>1. /\ op = NoOp /\ active = 1 /\ page = [b \in Banks |-> Blank]
          /\ may = {None} /\ faulty = FALSE
      BY DEF Init, PagesInit
    <3>2. PagesTypeOK
      <4>1. NoOp \in Rewrites
        BY DEF NoOp, Rewrites
      <4>2. page \in [Banks -> Credentials \union {Blank, Torn}]
        BY <3>1
      <4> QED BY <3>1, <4>1, <4>2 DEF PagesTypeOK, Rewrites, Banks
    <3>3. Shape /\ Progress /\ Allowed
      BY <3>1 DEF Shape, Progress, Allowed, NoOp
    <3>4. Agree
      BY <3>1, CredentialConstants DEF Agree, Valid, Banks
    <3> QED BY <3>2, <3>3, <3>4 DEF PagesInv
  <2>2. ButtonInv
    <3>1. age = 0 /\ down = 0 /\ pressed = FALSE /\ held = FALSE /\ warned = FALSE
          /\ polled = FALSE /\ missed = FALSE /\ struck = FALSE
          /\ stage = "none" /\ sample = 0
      BY DEF Init, ButtonInit
    <3>2. ButtonTypeOK
      <4>1. age \in 0..Commit /\ sample \in 0..Commit /\ down \in 0..Commit
        BY <3>1, ButtonConstants
      <4>2. Flags(pressed, held, warned, polled, missed, struck)
        BY <3>1 DEF Flags
      <4> QED BY <3>1, <4>1, <4>2, ButtonFlags DEF Stages
    <3> QED BY <3>1, <3>2 DEF ButtonInv
  <2>3. Rest /\ FirmwareInv
    BY BootConstants DEF Init, PagesInit, Rest, FirmwareInv, Phases, Banks
  <2> QED BY <2>1, <2>2, <2>3 DEF TypedInv, TypeOK, PagesInv, ButtonInv, Rest
<1>2. TypedInv /\ [Next]_vars => TypedInv'
  <2> SUFFICES ASSUME TypedInv, [Next]_vars PROVE TypedInv'
    OBVIOUS
  <2>1. PagesInv' /\ ButtonInv'
    BY StepSplits, PagesPreserved, ButtonPreserved DEF TypedInv
  <2>2. Rest' /\ FirmwareInv'
    BY RestPreserved DEF TypedInv
  <2> QED BY <2>1, <2>2 DEF TypedInv, TypeOK, PagesInv, ButtonInv, Rest
<1> QED BY <1>1, <1>2, PTL DEF Spec
------------------------------------------------------------------------------
(* Every component of the state keeps its type.                            *)
THEOREM TypeCorrect == Spec => []TypeOK
<1>1. TypedInv => TypeOK
  BY DEF TypedInv
<1> QED BY <1>1, InvAlways, PTL

(* Credentials that were replaced or erased never come back, without a     *)
(* flash error.                                                            *)
THEOREM LoadsWhatWasSaved == Spec => []SavedIsLoaded
<1>1. TypedInv => SavedIsLoaded
  BY DEF TypedInv, PagesInv, PagesTypeOK, Agree, SavedIsLoaded, Load, Valid, Banks,
       Other
<1> QED BY <1>1, InvAlways, PTL

(* No boot finds its bank half written.                                    *)
THEOREM AlwaysBootsWhole == Spec => []BootsWhole
<1>1. TypedInv => BootsWhole
  BY DEF TypedInv, FirmwareInv, BootsWhole
<1> QED BY <1>1, InvAlways, PTL

(* Both banks carry the credentials, so a swap does not change them.       *)
THEOREM SwapIsTransparent == Spec => SwapKeepsCredentials
<1>1. TypedInv /\ [Next]_vars => [active' # active /\ ~faulty => Load' = Load]_vars
  <2> SUFFICES ASSUME TypedInv, Next, active' # active, ~faulty PROVE Load' = Load
    BY DEF vars
  <2>1. PagesStep
    BY StepSplits DEF TypedInv
  <2>2. SwapOnly
    BY <2>1 DEF PagesStep, pages, BeginSave, BeginErase, Begin, EraseStep, ProgramStep,
       EndRewrite
  <2>3. op = NoOp /\ UNCHANGED page /\ active' = Other(active) /\ active \in Banks
    BY <2>2 DEF SwapOnly, SwapBanks, TypedInv, PagesInv, PagesTypeOK
  <2>4. Valid(1) /\ Valid(2) => page[1] = page[2]
    BY <2>3 DEF TypedInv, PagesInv, Agree, NoOp
  <2> QED BY <2>3, <2>4 DEF Load, Valid, Banks, Other
<1> QED BY <1>1, InvAlways, PTL DEF Spec, SwapKeepsCredentials

(* A factory reset takes the whole hold, with its warning, or a tap at the *)
(* wrong moment.                                                           *)
THEOREM HoldResets == Spec => ResetNeedsHold
<1>1. TypedInv /\ [Next]_vars
        => [stage' = "reset" /\ stage # "reset" =>
              pressed /\ (struck \/ (down >= Commit /\ (warned \/ missed)))]_vars
  <2> SUFFICES ASSUME TypedInv, Next, stage' = "reset", stage # "reset", ~struck
               PROVE  pressed /\ down >= Commit /\ (warned \/ missed)
    <3>1. TypedInv /\ Next /\ stage' = "reset" /\ stage # "reset" => pressed
      <4>1. TypedInv /\ Next => ButtonStep
        BY StepSplits DEF TypedInv
      <4> QED BY <4>1 DEF ButtonStep, button, Press, Release, Pass, Sample, Decide,
              Gesture, Resolve, ButtonReset
    <3> QED BY <3>1 DEF vars
  <2>1. ButtonStep
    BY StepSplits DEF TypedInv
  <2>2. Decide
    BY <2>1 DEF ButtonStep, button, Press, Release, Pass, Sample, Resolve, ButtonReset
  <2>3. stage = "timed" /\ pressed /\ sample >= Commit
    BY <2>2 DEF Decide, Gesture
  <2>4. held /\ age = sample /\ age > Warn
    BY <2>3, ButtonConstants DEF TypedInv, ButtonInv, ButtonTypeOK
  <2> QED BY <2>3, <2>4 DEF TypedInv, ButtonInv
<1> QED BY <1>1, InvAlways, PTL DEF Spec, ResetNeedsHold
==============================================================================
