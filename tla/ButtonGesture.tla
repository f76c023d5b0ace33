----------------------------- MODULE ButtonGesture -----------------------------
(***************************************************************************)
(* The USER button: an interrupt on the press stamps the time, and a poll  *)
(* of the pin, from the main loop or the wait between two attempts to      *)
(* connect, makes a gesture of it; the interrupt may come between its      *)
(* reads.  While the board is in a blocking call nothing polls.  Time is   *)
(* counted in ticks, and not past Commit; a press too short to count       *)
(* (BUTTON_DEBOUNCE_MS) is a capture that is refused.                      *)
(***************************************************************************)
EXTENDS Naturals

CONSTANTS LongPress,     \* BUTTON_LONG_PRESS_MS, in ticks
          Warn,          \* BUTTON_FACTORY_RESET_WARN_MS
          Commit         \* BUTTON_FACTORY_RESET_COMMIT_MS

ASSUME ButtonConstants ==
  /\ {LongPress, Warn, Commit} \subseteq Nat \ {0}
  /\ LongPress < Warn /\ Warn < Commit

VARIABLES pressed,       \* the pin
          held,          \* s_button_held
          age,           \* ticks since s_button_press_tick
          warned,        \* s_warning_armed
          polled,        \* polled in this tick
          stage,         \* how far the poll is, or the gesture it has made out
          sample,        \* held_ms, as the poll has read it
          down,          \* history: ticks the button has really been down
          missed,        \* history: a tick of this press went by unpolled
          struck         \* history: a press came between the reads of a poll

button == <<pressed, held, age, warned, polled, stage, sample, down, missed, struck>>

ButtonTypeOK ==
  /\ {pressed, held, warned, polled, missed, struck} \subseteq BOOLEAN
  /\ {age, sample, down} \subseteq 0..Commit
  /\ stage \in {"none", "timed", "reset", "portal", "capture"}

Later(t) == IF t < Commit THEN t + 1 ELSE Commit

ButtonInit ==
  /\ pressed = FALSE /\ held = FALSE /\ age = 0 /\ warned = FALSE
  /\ polled = FALSE /\ stage = "none" /\ sample = 0
  /\ down = 0 /\ missed = FALSE /\ struck = FALSE
------------------------------------------------------------------------------
(* Mutant of Press: a press that is not yet resolved keeps its time.       *)
PressUnstamped ==
  /\ ~pressed
  /\ pressed' = TRUE /\ held' = TRUE
  /\ age' = IF held THEN age ELSE 0
  /\ down' = 0 /\ missed' = FALSE /\ struck' = (stage = "timed")
  /\ UNCHANGED <<warned, polled, stage, sample>>

(* BSP_PB_Callback                                                         *)
Press ==
  /\ ~pressed
  /\ pressed' = TRUE /\ held' = TRUE
  /\ age' = 0
  /\ down' = 0 /\ missed' = FALSE /\ struck' = (stage = "timed")
  /\ UNCHANGED <<warned, polled, stage, sample>>

(* There is no interrupt on the release.                                   *)
Release ==
  /\ pressed
  /\ pressed' = FALSE
  /\ down' = 0
  /\ UNCHANGED <<held, age, warned, polled, stage, sample, missed, struck>>

(* A tick goes by; a poll takes none.                                      *)
Pass ==
  /\ stage = "none"
  /\ age' = IF held THEN Later(age) ELSE age
  /\ down' = IF pressed THEN Later(down) ELSE 0
  /\ missed' = (missed \/ (held /\ ~polled))
  /\ polled' = FALSE
  /\ UNCHANGED <<pressed, held, warned, stage, sample, struck>>

(* _button_poll_gesture reads the flag and the time ...                    *)
Sample ==
  /\ stage = "none"
  /\ IF held THEN stage' = "timed" /\ sample' = age /\ UNCHANGED <<warned, polled>>
             ELSE warned' = FALSE /\ polled' = TRUE /\ UNCHANGED <<stage, sample>>
  /\ struck' = FALSE
  /\ UNCHANGED <<pressed, held, age, down, missed>>

(* ... then the pin, and makes a gesture of them, a release by the time    *)
(* from the press to the poll ...                                          *)
Gesture ==
  IF pressed THEN IF sample >= Commit THEN "reset" ELSE "none"
             ELSE IF sample >= LongPress THEN "portal" ELSE "capture"

Decide ==
  /\ stage = "timed"
  /\ stage' = Gesture
  /\ sample' = 0
  /\ warned' = (pressed /\ Gesture = "none" /\ (warned \/ sample >= Warn))
  /\ polled' = TRUE
  /\ UNCHANGED <<pressed, held, age, struck, down, missed>>

(* ... and clears the flag, whatever the interrupt has set meanwhile.      *)
Resolve ==
  /\ stage \in {"reset", "portal", "capture"}
  /\ stage' = "none"
  /\ held' = FALSE /\ age' = 0
  /\ UNCHANGED <<pressed, warned, polled, sample, struck, down, missed>>

(* After a reset nothing is known of a button that is down.                *)
ButtonReset ==
  /\ held' = FALSE /\ age' = 0 /\ warned' = FALSE /\ polled' = FALSE
  /\ stage' = "none" /\ sample' = 0
  /\ struck' = FALSE /\ missed' = FALSE
  /\ UNCHANGED <<pressed, down>>
==============================================================================
