-------------------------------- MODULE SdTest --------------------------------
(***************************************************************************)
(* The SD card part of the self-test (firmware.c): sd_send_cmd,            *)
(* sd_init_card, sd_read_block and test_sdcard.  A step is one iteration   *)
(* of a polling loop, or the straight code between two of them; a byte on  *)
(* the SPI port is one exchange, as module SdSpi justifies.                *)
(*                                                                         *)
(* The card is the environment.  It may be of either capacity and either   *)
(* version, in any state the boot loader can have left it in, and be busy, *)
(* answer late, with an error, or not at all.  As the SD specification     *)
(* has it, a version 1 card does not know CMD8, and a high-capacity card   *)
(* does not leave its idle state for a host that does not announce HCS.    *)
(***************************************************************************)
EXTENDS Naturals

CONSTANTS
  READY_POLLS,    \* 50000
  CMD_POLLS,      \* 10
  CMD0_TRIES,     \* 5
  ACMD41_TRIES,   \* 20000
  TOKEN_POLLS     \* 200000

ASSUME PollAssumption ==
  {READY_POLLS, CMD_POLLS, CMD0_TRIES, ACMD41_TRIES, TOKEN_POLLS} \subseteq Nat \ {0}

VARIABLES
  place,        \* the command, or where test_sdcard is between commands
  step,         \* within sd_send_cmd, its caller, or the token loop
  n, tries,     \* polls and retries left
  r,            \* the last answer
  hcs,          \* the argument of ACMD41
  sd_is_sdhc, clkdiv, cs_n,
  sd_pass,
  card,         \* capacity and version of the card, and the signature it carries
  card_ready,   \* it has left its idle state
  owed          \* the command the card has not answered yet

sdVars == <<place, step, n, tries, r, hcs, sd_is_sdhc, clkdiv, cs_n, sd_pass>>
cardVars == <<card, card_ready, owed>>
testVars == <<sdVars, cardVars>>

Commands == {"CMD0", "CMD8", "CMD55", "ACMD41", "CMD58", "CMD16", "CMD17"}
None == "none"
Cards == {c \in [sdhc : BOOLEAN, v2 : BOOLEAN, signed : BOOLEAN] : c.sdhc => c.v2}

-------------------------------------------------------------------------------
(* sd_send_cmd *)

KeepTest == UNCHANGED <<tries, hcs, sd_is_sdhc, clkdiv, sd_pass>>
KeepCard == UNCHANGED <<card, card_ready>>

\* The card drops the answer it owes when it is deselected.
sd_deselect == cs_n' = TRUE /\ owed' = None
KeepsSelect == UNCHANGED <<cs_n, owed>>

\* Calling sd_send_cmd: it deselects the card, selects it again and waits until
\* it is not busy.
sd_send_cmd(cmd) == place' = cmd /\ step' = "select" /\ n' = READY_POLLS

\* sd_select: the last poll that still finds the card busy gives up.
Select ==
  /\ place \in Commands /\ step = "select"
  /\ cs_n' = FALSE /\ owed' = None
  /\ \/ step' = "send" /\ UNCHANGED <<n, r>>
     \/ /\ n' = n - 1
        /\ IF n = 1 THEN step' = "answer" /\ r' = "FF" ELSE UNCHANGED <<step, r>>
  /\ KeepTest /\ KeepCard /\ UNCHANGED place

SendCmd ==
  /\ place \in Commands /\ step = "send"
  /\ owed' = place /\ step' = "poll" /\ n' = CMD_POLLS
  /\ KeepTest /\ KeepCard /\ UNCHANGED <<place, r, cs_n>>

\* What the card may answer.
Answers(cmd) ==
  CASE cmd \in {"CMD0", "CMD55"} -> {"idle", "ready", "error"}
    [] cmd = "CMD8" -> IF card.v2 THEN {"idle", "ready", "error"} ELSE {"error"}
    [] cmd = "ACMD41" -> {"idle", "error"} \cup (IF card.sdhc /\ ~hcs THEN {} ELSE {"ready"})
    [] OTHER -> IF card_ready THEN {"ready", "error"} ELSE {"error"}

PollCmd ==
  /\ step = "poll"
  /\ \/ \E a \in Answers(owed) :
          /\ r' = a /\ step' = "answer" /\ owed' = None /\ UNCHANGED n
          /\ card_ready' = CASE owed = "CMD0" -> FALSE
                             [] owed = "ACMD41" /\ a = "ready" -> TRUE
                             [] OTHER -> card_ready
     \/ /\ n' = n - 1 /\ r' = "FF" /\ UNCHANGED <<owed, card_ready>>
        /\ step' = IF n = 1 THEN "answer" ELSE "poll"
  /\ KeepTest /\ UNCHANGED <<place, card, cs_n>>

Answered(cmd) == place = cmd /\ step = "answer"

\* CMD55 in front of an application command: its error is the answer to both.
Cmd55 ==
  /\ Answered("CMD55")
  /\ IF r \in {"idle", "ready"} THEN sd_send_cmd("ACMD41")
     ELSE place' = "ACMD41" /\ UNCHANGED <<step, n>>
  /\ KeepsSelect /\ KeepTest /\ KeepCard /\ UNCHANGED r

-------------------------------------------------------------------------------
(* sd_init_card *)

\* Every way out of the test leaves the card deselected.
Over_Selected(pass) == place' = "over" /\ sd_pass' = pass /\ KeepsSelect /\ UNCHANGED <<step, n>>
Over(pass) == place' = "over" /\ sd_pass' = pass /\ sd_deselect /\ UNCHANGED <<step, n>>
Fail == Over(FALSE) /\ UNCHANGED <<tries, hcs, sd_is_sdhc, clkdiv>>
\* On with another command, from the command that was answered.
Proceed(cmd) == sd_send_cmd(cmd) /\ KeepsSelect /\ UNCHANGED sd_pass

\* The card that is found may be of any kind, and the boot loader, or an earlier
\* run of this test, may have left it in any state.
InitCard ==
  /\ place = "start"
  /\ clkdiv' = 199 /\ sd_deselect /\ tries' = CMD0_TRIES
  /\ sd_send_cmd("CMD0")
  /\ card' \in {c \in Cards : c.signed = card.signed} /\ card_ready' \in BOOLEAN
  /\ UNCHANGED <<r, hcs, sd_is_sdhc, sd_pass>>

Cmd0 ==
  /\ Answered("CMD0") /\ KeepCard /\ UNCHANGED r
  /\ \/ r = "idle" /\ Proceed("CMD8") /\ UNCHANGED <<tries, hcs, sd_is_sdhc, clkdiv>>
     \/ /\ r # "idle" /\ tries > 1
        /\ sd_deselect /\ sd_send_cmd("CMD0") /\ tries' = tries - 1
        /\ UNCHANGED <<hcs, sd_is_sdhc, clkdiv, sd_pass>>
     \/ r # "idle" /\ tries = 1 /\ Fail

\* Without a good answer to CMD8 the card is treated as standard capacity.
Cmd8 ==
  /\ Answered("CMD8") /\ KeepCard /\ UNCHANGED r
  /\ \/ r = "idle" /\ Fail                                   \* the echo is wrong
     \/ /\ Proceed("CMD55") /\ tries' = ACMD41_TRIES
        /\ hcs' = (r = "idle") /\ UNCHANGED <<sd_is_sdhc, clkdiv>>

Acmd41_NoLimit ==
  /\ Answered("ACMD41") /\ KeepCard /\ UNCHANGED r
  /\ \/ /\ r = "ready" /\ Proceed(IF hcs THEN "CMD58" ELSE "CMD16")
        /\ UNCHANGED <<tries, hcs, sd_is_sdhc, clkdiv>>
     \/ r # "ready" /\ Proceed("CMD55") /\ UNCHANGED <<tries, hcs, sd_is_sdhc, clkdiv>>
Acmd41 ==
  /\ Answered("ACMD41") /\ KeepCard /\ UNCHANGED r
  /\ \/ /\ r = "ready" /\ Proceed(IF hcs THEN "CMD58" ELSE "CMD16")
        /\ UNCHANGED <<tries, hcs, sd_is_sdhc, clkdiv>>
     \/ /\ r # "ready" /\ tries > 1 /\ Proceed("CMD55")
        /\ tries' = tries - 1 /\ UNCHANGED <<hcs, sd_is_sdhc, clkdiv>>
     \/ r # "ready" /\ tries = 1 /\ Fail

\* The card is ready: full speed, and the first sector is asked for.
Initialised(sdhc) ==
  /\ sd_is_sdhc' = sdhc /\ clkdiv' = 4
  /\ sd_deselect /\ sd_send_cmd("CMD17")
  /\ UNCHANGED <<tries, hcs, sd_pass>>

Cmd58 ==
  /\ Answered("CMD58") /\ KeepCard /\ UNCHANGED r
  /\ IF r = "ready" THEN Initialised(card.sdhc) ELSE Fail
Cmd16 ==
  /\ Answered("CMD16") /\ KeepCard /\ UNCHANGED r
  /\ IF r = "ready" THEN Initialised(FALSE) ELSE Fail

-------------------------------------------------------------------------------
(* sd_read_block and test_sdcard *)

Cmd17 ==
  /\ Answered("CMD17") /\ KeepCard /\ UNCHANGED r
  /\ IF r = "ready"
     THEN step' = "token" /\ n' = TOKEN_POLLS /\ KeepsSelect /\ KeepTest /\ UNCHANGED place
     ELSE Fail

\* Anything but the token is waited out, and the last poll still counts; then
\* the sector is read and its signature looked at.
Token ==
  /\ step = "token" /\ place = "CMD17" /\ KeepCard /\ UNCHANGED r
  /\ \/ Over(card.signed) /\ UNCHANGED <<tries, hcs, sd_is_sdhc, clkdiv>>
     \/ n > 1 /\ n' = n - 1 /\ KeepsSelect /\ KeepTest /\ UNCHANGED <<place, step>>
     \/ n = 1 /\ Fail

SdStep ==
  \/ InitCard \/ Select \/ SendCmd \/ PollCmd \/ Cmd0 \/ Cmd8 \/ Cmd55 \/ Acmd41 \/ Cmd58
  \/ Cmd16 \/ Cmd17 \/ Token

SdInit ==
  /\ place = "start" /\ step = "select" /\ n = 0 /\ tries = 0 /\ r = "FF"
  /\ hcs = FALSE /\ sd_is_sdhc = FALSE /\ clkdiv = 199 /\ cs_n = TRUE /\ sd_pass = FALSE
  /\ card \in [sdhc : {FALSE}, v2 : {FALSE}, signed : BOOLEAN]
  /\ card_ready = FALSE /\ owed = None

-------------------------------------------------------------------------------
(* Properties *)

\* A sector is asked for in the unit the card counts in, also when the answer to
\* CMD8 was lost and the card was taken for an old one.
AddressingAgrees == place = "CMD17" => sd_is_sdhc = card.sdhc

\* The card is asked to work at full speed only once it has left its idle state,
\* and when the test is over it is not selected, whatever went wrong.
CardReleased ==
  /\ clkdiv = 4 => card_ready
  /\ place = "over" => cs_n /\ owed = None
================================================================================
