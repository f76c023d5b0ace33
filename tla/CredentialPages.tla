--------------------------- MODULE CredentialPages ----------------------------
(***************************************************************************)
(* The WiFi credentials in flash: page 127 of each of the two banks, which *)
(* WiFiCred_Save and WiFiCred_Erase rewrite in steps a loss of power may   *)
(* come between.  Erasing names a physical bank; programming and loading   *)
(* go by address, and the bank that is active comes first.                 *)
(***************************************************************************)
EXTENDS Naturals

CONSTANT Credentials     \* pairs of SSID and password

Banks == {1, 2}
Other(b) == 3 - b

None == "none"           \* WIFI_CRED_EMPTY
Blank == "blank"         \* erased
Torn == "torn"           \* neither erased nor valid: wrong magic or CRC

(* A page says by its magic number and CRC which of these it is.           *)
ASSUME CredentialConstants == {None, Blank, Torn} \intersect Credentials = {}

(* At 1 and 2 a bank is erased, at 3 and 4 an address is programmed.       *)
NoOp == [kind |-> "none", cred |-> None, at |-> 0, written |-> 0, failed |-> FALSE]

VARIABLES active,        \* the bank at 0x08000000 (SWAP_BANK)
          page,          \* content of page 127 of each bank
          op,            \* the save or erase under way
          may,           \* history: what Load may return by what was asked
          faulty         \* history: the last rewrite met a flash error

pages == <<active, page, op, may, faulty>>

PagesTypeOK ==
  /\ active \in Banks
  /\ page \in [Banks -> Credentials \union {Blank, Torn}]
  /\ op \in [kind : {"none", "save", "erase"}, cred : Credentials \union {None},
             at : 0..5, written : 0..2, failed : BOOLEAN]
  /\ may \in SUBSET (Credentials \union {None}) /\ may # {}
  /\ faulty \in BOOLEAN

PagesInit ==
  /\ active = 1
  /\ page = [b \in Banks |-> Blank]
  /\ op = NoOp
  /\ may = {None} /\ faulty = FALSE
------------------------------------------------------------------------------
Valid(b) == page[b] \in Credentials

(* Mutant of Load: only the active page is looked at.                      *)
LoadActive == IF Valid(active) THEN page[active] ELSE None

(* WiFiCred_Load: the active page if it is valid, else the other one.      *)
Load ==
  IF Valid(active) THEN page[active]
  ELSE IF Valid(Other(active)) THEN page[Other(active)] ELSE None

(* The page a step of a rewrite works on.                                  *)
Target(at) == IF at \in Banks THEN at ELSE IF at = 3 THEN active ELSE Other(active)

Begin(kind, cred, at) ==
  /\ op = NoOp
  /\ op' = [NoOp EXCEPT !.kind = kind, !.cred = cred, !.at = at]
  /\ may' = may \union {cred, None}
  /\ UNCHANGED <<active, page, faulty>>

BeginSave(c) == Begin("save", c, 1)

(* Mutant of BeginErase: bank 1 is left out.                               *)
BeginEraseOne == Begin("erase", None, 2)

BeginErase == Begin("erase", None, 1)

Erasing == op.at \in {1, 2}

(* Mutant of Programming: the loop over the two addresses does not end.    *)
ProgrammingOn == op.kind = "save" /\ op.at >= 3

Programming == op.kind = "save" /\ op.at \in {3, 4}

(* HAL_FLASHEx_Erase: an error is logged, and the page stays as it is.     *)
EraseStep(ok) ==
  /\ Erasing
  /\ page' = IF ok THEN [page EXCEPT ![Target(op.at)] = Blank] ELSE page
  /\ op' = [op EXCEPT !.at = @ + 1, !.failed = @ \/ ~ok]
  /\ UNCHANGED <<active, may, faulty>>

(* HAL_FLASH_Program fails on a page that is not erased, and changes       *)
(* nothing; if it fails half way it leaves an invalid page.                *)
ProgramStep(ok) ==
  /\ Programming
  /\ LET b == Target(op.at)
         done == ok /\ page[b] = Blank
     IN /\ page' = IF done THEN [page EXCEPT ![b] = op.cred]
                   ELSE IF page[b] = Blank THEN [page EXCEPT ![b] = Torn] ELSE page
        /\ op' = [op EXCEPT !.at = @ + 1, !.written = IF done THEN @ + 1 ELSE @,
                            !.failed = @ \/ ~done]
  /\ UNCHANGED <<active, may, faulty>>

(* WIFI_CRED_OK: for a save one page that was written is enough, for an    *)
(* erase nothing is.                                                       *)
Succeeded == op.kind = "erase" \/ op.written > 0

Finished == op # NoOp /\ ~Erasing /\ ~Programming

EndRewrite ==
  /\ Finished
  /\ may' = IF Succeeded THEN {op.cred} ELSE may
  /\ faulty' = op.failed
  /\ op' = NoOp
  /\ UNCHANGED <<active, page>>

(* Power, or a reset, cuts off what is under way: the page at hand is as   *)
(* it was or invalid.                                                      *)
Cut ==
  /\ \/ UNCHANGED page
     \/ (Erasing \/ Programming) /\ page' = [page EXCEPT ![Target(op.at)] = Torn]
  /\ faulty' = (faulty \/ op.failed)
  /\ op' = NoOp
  /\ UNCHANGED may

SwapBanks == active' = Other(active)
------------------------------------------------------------------------------
(* What is loaded is what was saved last, or nothing after an erase.  From *)
(* a rewrite that was cut off come the old, the new or no credentials, and *)
(* an older pair never comes back (wifi_credentials.c:14: both banks are   *)
(* written).  Only after a flash error may a page hold on to the past.     *)
SavedIsLoaded == ~faulty /\ ~op.failed => Load \in may
==============================================================================
