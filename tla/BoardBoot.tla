------------------------------- MODULE BoardBoot -------------------------------
(***************************************************************************)
(* From reset to the main loop and back: the boot counter and the bank     *)
(* swap of an OTA update, the credentials a boot loads, the portal without *)
(* them, the button that resets them, and resets and losses of power       *)
(* between any two steps.                                                  *)
(*                                                                         *)
(* A firmware image is good, bad (complete, but it never gets to           *)
(* OTA_MarkBootSuccessful) or torn (not completely flashed).               *)
(***************************************************************************)
EXTENDS CredentialPages, ButtonGesture

CONSTANT MaxFailures     \* OTA_MAX_BOOT_FAILURES

ASSUME BootConstants == MaxFailures \in Nat \ {0}

Phases == {"reset", "validate", "load", "connect", "backoff", "join", "run",
           "busy", "portal", "flash", "rewrite", "reconfigure"}

VARIABLES pc,            \* where the program is
          why,           \* who asked for the rewrite of the credentials
          image,         \* the firmware in each bank
          counter,       \* TAMP->BKP4R
          unmarked       \* history: boots in a row that were reset before the mark

firmware == <<image, counter, unmarked>>
vars == <<pages, button, pc, why, firmware>>

TypeOK ==
  /\ PagesTypeOK /\ ButtonTypeOK
  /\ pc \in Phases
  /\ why \in {"nobody", "portal", "command", "button"}
  /\ (op = NoOp) = (pc # "rewrite")
  /\ image \in [Banks -> {"good", "bad", "torn"}]
  /\ counter \in 0..(MaxFailures + 1) /\ unmarked \in 0..(MaxFailures + 1)

Goto(phase) == pc' = phase /\ why' = "nobody"
------------------------------------------------------------------------------
(* Mutant of RtcInit: the backup registers keep their values.              *)
RtcInitKeeping ==
  /\ pc = "reset" /\ image[active] # "torn"
  /\ Goto("validate")
  /\ UNCHANGED <<pages, button, image, counter, unmarked>>

(* RTC_Init resets the backup domain, and the boot counter with it.        *)
RtcInit ==
  /\ pc = "reset" /\ image[active] # "torn"
  /\ counter' = 0
  /\ Goto("validate")
  /\ UNCHANGED <<pages, button, image, unmarked>>

(* OTA_ValidateBoot: back to the other bank, or (also if the swap fails)   *)
(* one more boot.                                                          *)
ValidateBoot(swapped) ==
  /\ pc = "validate"
  /\ IF counter >= MaxFailures /\ swapped
       THEN SwapBanks /\ counter' = 0 /\ unmarked' = 0 /\ Goto("reset")
       ELSE /\ counter' = counter + 1
            /\ unmarked' = IF unmarked > MaxFailures THEN unmarked ELSE unmarked + 1
            /\ Goto("load")
            /\ UNCHANGED active
  /\ UNCHANGED <<page, op, may, faulty, button, image>>

(* Without credentials, or without the radio, the portal is started.       *)
LoadCredentials ==
  /\ pc = "load"
  /\ \/ Load # None /\ Goto("connect")
     \/ Goto("portal")
  /\ UNCHANGED <<pages, button, firmware>>

(* WiFi_Connect blocks; after a failure the button is polled for a while.  *)
Connect ==
  /\ pc = "connect"
  /\ Goto("join") \/ Goto("backoff")
  /\ UNCHANGED <<pages, button, firmware>>

Retry ==
  /\ pc = "backoff" /\ polled /\ stage = "none"
  /\ Goto("connect")
  /\ UNCHANGED <<pages, button, firmware>>

(* Time, MQTT, and OTA_MarkBootSuccessful; without MQTT the board is reset.*)
MarkBootSuccessful ==
  /\ pc = "join" /\ image[active] = "good"
  /\ counter' = 0 /\ unmarked' = 0
  /\ Goto("run")
  /\ UNCHANGED <<pages, button, image>>
------------------------------------------------------------------------------
(* The main loop is free, or in a blocking call.                           *)
Work ==
  /\ pc = "run" /\ polled /\ stage = "none"
  /\ Goto("busy")
  /\ UNCHANGED <<pages, button, firmware>>

Return ==
  /\ pc \in {"busy", "reconfigure"}
  /\ Goto("run")
  /\ UNCHANGED <<pages, button, firmware>>

(* A poll of the button, and what follows from it: a factory reset, the    *)
(* portal or (in the main loop) a capture.                                 *)
PollButton ==
  /\ pc \in {"backoff", "run"}
  /\ Sample \/ Decide
  /\ UNCHANGED <<pages, pc, why, firmware>>

ServeGesture ==
  /\ pc \in {"backoff", "run"}
  /\ Resolve
  /\ \/ /\ stage = "reset"
        /\ BeginErase /\ pc' = "rewrite" /\ why' = "button"
     \/ /\ stage # "reset"
        /\ Goto(IF stage = "portal" THEN "portal" ELSE IF pc = "run" THEN "busy" ELSE pc)
        /\ UNCHANGED pages
  /\ UNCHANGED firmware

(* start_portal; nothing leaves the portal but a save or a reset.          *)
StartPortal ==
  /\ pc = "run" /\ stage = "none"
  /\ Goto("portal")
  /\ UNCHANGED <<pages, button, firmware>>

(* The portal's form, and set_wifi, which may come during a blocking call. *)
Save(c) ==
  /\ \/ pc = "portal" /\ why' = "portal"
     \/ pc \in {"run", "busy"} /\ why' = "command"
  /\ stage = "none"
  /\ BeginSave(c)
  /\ pc' = "rewrite"
  /\ UNCHANGED <<button, firmware>>

(* erase_wifi                                                              *)
Erase ==
  /\ pc \in {"run", "busy"} /\ stage = "none"
  /\ BeginErase
  /\ pc' = "rewrite" /\ why' = "command"
  /\ UNCHANGED <<button, firmware>>

RewriteStep ==
  /\ \E ok \in BOOLEAN : EraseStep(ok) \/ ProgramStep(ok)
  /\ UNCHANGED <<button, pc, why, firmware>>

(* An erase, and a save from the portal that succeeded, end in a reset;    *)
(* set_wifi goes on whatever the result, and connects with the new pair.   *)
RewriteEnds ==
  /\ EndRewrite
  /\ \/ (op.kind = "erase" \/ (why = "portal" /\ Succeeded))
        /\ Goto("reset") /\ ButtonReset
     \/ why = "portal" /\ ~Succeeded /\ Goto("portal") /\ UNCHANGED button
     \/ op.kind = "save" /\ why = "command" /\ Goto("reconfigure") /\ UNCHANGED button
  /\ UNCHANGED firmware
------------------------------------------------------------------------------
(* OTA_DownloadAndFlash: after the download the other bank is erased.      *)
FlashImage ==
  /\ pc = "run" /\ polled /\ stage = "none"
  /\ image' = [image EXCEPT ![Other(active)] = "torn"]
  /\ Goto("flash")
  /\ UNCHANGED <<pages, button, counter, unmarked>>

FlashFails ==
  /\ pc = "flash"
  /\ Goto("run")
  /\ UNCHANGED <<pages, button, firmware>>

(* Mutant of SwapAndReset: the banks are swapped though writing failed.    *)
SwapAndResetAnyway(kind) ==
  /\ pc = "flash"
  /\ image' \in {image, [image EXCEPT ![Other(active)] = kind]}
  /\ SwapBanks
  /\ unmarked' = 0
  /\ Goto("reset") /\ ButtonReset
  /\ UNCHANGED <<page, op, may, faulty, counter>>

(* Written to the end, and the banks swapped; or the swap fails.           *)
SwapAndReset(kind) ==
  /\ pc = "flash"
  /\ image' = [image EXCEPT ![Other(active)] = kind]
  /\ \/ SwapBanks /\ unmarked' = 0 /\ Goto("reset") /\ ButtonReset
     \/ Goto("run") /\ UNCHANGED <<active, unmarked, button>>
  /\ UNCHANGED <<page, op, may, faulty, counter>>

(* A reset: the watchdog, RESET, MQTT or WiFi that does not come up, or a  *)
(* firmware that crashes.                                                  *)
Reset ==
  /\ pc # "reset"
  /\ Cut /\ ButtonReset
  /\ Goto("reset")
  /\ UNCHANGED <<active, firmware>>

PowerLoss ==
  /\ Cut /\ ButtonReset
  /\ Goto("reset")
  /\ counter' = 0 /\ unmarked' = 0
  /\ UNCHANGED <<active, image>>

(* Where the program waits for a poll, time does.                          *)
Tick ==
  /\ pc \in {"backoff", "run"} => polled
  /\ Pass
  /\ UNCHANGED <<pages, pc, why, firmware>>

Touch == (Press \/ Release) /\ UNCHANGED <<pages, pc, why, firmware>>
------------------------------------------------------------------------------
Init ==
  /\ PagesInit /\ ButtonInit
  /\ pc = "reset" /\ why = "nobody"
  /\ image = [b \in Banks |-> IF b = active THEN "good" ELSE "torn"]
  /\ counter = 0 /\ unmarked = 0

Boot ==
  \/ RtcInit \/ \E swapped \in BOOLEAN : ValidateBoot(swapped)
  \/ LoadCredentials \/ Connect \/ Retry \/ MarkBootSuccessful

Update == FlashImage \/ FlashFails \/ \E kind \in {"good", "bad"} : SwapAndReset(kind)

Next ==
  \/ Boot \/ Update
  \/ Work \/ Return \/ PollButton \/ ServeGesture \/ StartPortal
  \/ \E c \in Credentials : Save(c)
  \/ Erase \/ RewriteStep \/ RewriteEnds
  \/ Reset \/ PowerLoss \/ Tick \/ Touch

Spec == Init /\ [][Next]_vars
------------------------------------------------------------------------------
(* An updated firmware that never comes up is given up after MaxFailures   *)
(* resets (firmware/README.md:216: "auto-rollback after 3 failures"):      *)
(* violated, RTC_Init clears the counter before each count.                *)
RollsBack == image[active] = "bad" => unmarked <= MaxFailures

(* The board never boots a bank that was not flashed to the end: a swap    *)
(* follows a complete write, and nothing else swaps.  A boot counter that  *)
(* worked would go back to a bank an interrupted update left torn.         *)
BootsWhole == image[active] # "torn"

(* Bank swaps do not change the credentials the board loads, unless a      *)
(* flash error has left the two pages different.                           *)
SwapKeepsCredentials ==
  [][active' # active /\ ~faulty => Load' = Load]_vars

(* A factory reset by the button (main.c:2344: "can never fire from a      *)
(* stray tap") takes a hold without a break to Commit, however late the    *)
(* poll, and the warning was on unless a blocking call kept the loop from  *)
(* polling.  It does fire from a tap that comes between the two reads of   *)
(* the poll that was to see an earlier press released.                     *)
ResetNeedsHold ==
  [][stage' = "reset" /\ stage # "reset" =>
       pressed /\ (struck \/ (down >= Commit /\ (warned \/ missed)))]_vars
==============================================================================
