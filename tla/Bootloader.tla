------------------------------ MODULE Bootloader ------------------------------
(***************************************************************************)
(* The SD card bootloader (bootloader.c with boot_crt0.S and               *)
(* bootloader.ld): card initialisation, the sector loop that copies the    *)
(* firmware into the application memory of system.v, and the jump.         *)
(*                                                                         *)
(* A step is one iteration of a polling loop, or the straight code between *)
(* two of them.  A byte on the SPI port is one atomic exchange, as module  *)
(* SdSpi justifies.  The card is the environment: it answers a command at  *)
(* once, later or never, and gives the answers the SD specification lists. *)
(* A byte of firmware is <<image, offset>>; sizes are scaled.              *)
(***************************************************************************)
EXTENDS Integers

CONSTANTS
  SECTOR,            \* bytes of a sector: 512
  HEADER,            \* bytes of the size in front of the firmware: 4
  APP_START_SECTOR,  \* 2048
  MAX_FW_BYTES,      \* 60 KB
  BL_BASE,           \* offset of BL_RAM in the application window: 0xF000
  WINDOW,            \* bytes of the window 0x0001_xxxx: 64 KB
  APP_SIZE,          \* bytes of the memory behind it
  CMD_POLLS,         \* 1000
  TOKEN_POLLS,       \* 100000
  Images             \* firmware sizes the card may carry

ASSUME SizeAssumption ==
  /\ SECTOR \in Nat /\ HEADER \in Nat /\ 0 < HEADER /\ HEADER < SECTOR
  /\ APP_START_SECTOR \in Nat /\ MAX_FW_BYTES \in Nat
  /\ BL_BASE \in Nat /\ MAX_FW_BYTES <= BL_BASE /\ BL_BASE < WINDOW
  /\ WINDOW \in Nat /\ APP_SIZE \in Nat /\ 0 < APP_SIZE /\ APP_SIZE <= WINDOW
  /\ CMD_POLLS \in Nat \ {0} /\ TOKEN_POLLS \in Nat \ {0}
  /\ Images \subseteq Nat /\ Images # {}

VARIABLES
  stage,      \* the command, or where bootloader_main is between commands
  step,       \* within it: send it, poll for R1, use R1, poll for the token
  n,          \* polls left
  r,          \* the last answer
  g_sdhc, sector, sz, written,
  sbuf,       \* the sector it holds
  app,        \* the application memory
  LED,
  image,      \* the card's firmware, named by its size
  card_sdhc,  \* the card counts blocks, not bytes
  card_ready, \* it has left its idle state
  cs_n,
  owed        \* the command the card has not answered yet

bootVars == <<stage, step, n, r, g_sdhc, sector, sz, written, sbuf, app, LED>>
cardVars == <<image, card_sdhc, card_ready, cs_n, owed>>
vars == <<bootVars, cardVars>>

Commands == {"CMD0", "CMD8", "CMD55", "ACMD41", "CMD58", "CMD16", "CMD17"}
Stages == Commands \cup {"start", "header", "copy", "app", "failed"}
R1 == {"idle", "ready", "error"}       \* 0x01, 0x00, another byte with bit 7 clear
None == "none"
Unread == -1

AppCell == 0 .. APP_SIZE - 1
\* The memory decodes only as many address bits as it has.
Cell(a) == a % APP_SIZE
BootCell == {Cell(a) : a \in BL_BASE .. WINDOW - 1}
Junk == <<Unread, 0>>             \* any byte that is not firmware
Own == <<Unread, 1>>              \* the bootloader's .bss and stack
Byte == (Images \X Nat) \cup {Junk, Own}

TypeOK ==
  /\ stage \in Stages /\ step \in {"send", "poll", "answer", "token"}
  /\ n \in Nat /\ r \in R1 \cup {"FF", "other", "FE"}
  /\ g_sdhc \in BOOLEAN /\ sector \in Nat /\ sz \in Nat /\ written \in Nat
  /\ sbuf \in Nat \cup {Unread} /\ \A c \in AppCell : app[c] \in Byte
  /\ LED \in {0, 1, 3, 7, 225, 254}
  /\ image \in Images /\ card_sdhc \in BOOLEAN /\ card_ready \in BOOLEAN
  /\ cs_n \in BOOLEAN /\ owed \in Commands \cup {None}

-------------------------------------------------------------------------------
(* sd_cmd *)

Goto(s) == stage' = s /\ step' = "send"

KeepLoad == UNCHANGED <<g_sdhc, sector, sz, written, sbuf, app>>
KeepCard == UNCHANGED <<image, card_sdhc, card_ready>>

\* cs_hi: the card drops an answer it still owes.
CsHigh == cs_n' = TRUE /\ owed' = None
KeepsSelect == UNCHANGED <<cs_n, owed>>

\* cs_lo and the six bytes of a command; arg only matters to CMD17.
SendCmd ==
  /\ stage \in Commands /\ step = "send"
  /\ cs_n' = FALSE /\ owed' = stage
  /\ step' = "poll" /\ n' = CMD_POLLS
  /\ KeepLoad /\ KeepCard /\ UNCHANGED <<stage, r, LED>>

\* What the card may answer to a command.
Answers(cmd) ==
  CASE cmd = "CMD0" -> {"idle", "error"}
    [] cmd = "CMD8" -> {"idle", "error"}
    [] cmd = "CMD55" -> {"idle", "ready", "error"}
    [] cmd = "ACMD41" -> {"idle", "ready", "error"}
    [] cmd \in {"CMD58", "CMD16", "CMD17"} -> IF card_ready THEN {"ready", "error"} ELSE {"error"}

\* Each of the polls reads 0xFF or the answer; the last one still counts.
PollCmd ==
  /\ step = "poll"
  /\ \/ \E a \in Answers(owed) :
          /\ r' = a /\ step' = "answer"
          /\ owed' = None /\ UNCHANGED n
          /\ card_ready' = CASE owed = "CMD0" -> FALSE
                             [] owed = "ACMD41" /\ a = "ready" -> TRUE
                             [] OTHER -> card_ready
     \/ /\ n' = n - 1
        /\ r' = "FF" /\ step' = IF n = 1 THEN "answer" ELSE "poll"
        /\ UNCHANGED <<owed, card_ready>>
  /\ KeepLoad /\ UNCHANGED <<stage, LED, image, card_sdhc, cs_n>>

-------------------------------------------------------------------------------
(* bootloader_main and sd_init *)

Fail(led) == Goto("failed") /\ LED' = led
FailInit == Fail(225)          \* 0xE1
FailLoad == Fail(254)          \* 0xFE

\* boot_crt0.S sets up .bss and the stack; sd_poweron deselects the card.
Start ==
  /\ stage = "start"
  /\ app' = [c \in AppCell |-> IF c \in BootCell THEN Own ELSE app[c]]
  /\ g_sdhc' = FALSE /\ sbuf' = Unread /\ LED' = 1
  /\ CsHigh /\ Goto("CMD0")
  /\ KeepCard /\ UNCHANGED <<n, r, sector, sz, written>>

Answered(cmd) == stage = cmd /\ step = "answer" /\ UNCHANGED n

Cmd0 ==
  /\ Answered("CMD0") /\ CsHigh
  /\ IF r = "idle" THEN Goto("CMD8") /\ UNCHANGED LED ELSE FailInit
  /\ KeepLoad /\ KeepCard /\ UNCHANGED r

\* The card must echo the check pattern and accept the voltage.
Cmd8 ==
  /\ Answered("CMD8") /\ CsHigh
  /\ \E echo \in BOOLEAN :
       IF r = "idle" /\ echo THEN Goto("CMD55") /\ UNCHANGED LED ELSE FailInit
  /\ KeepLoad /\ KeepCard /\ UNCHANGED r

\* The answer to CMD55 is not looked at.
Cmd55_StaysSelected ==
  /\ Answered("CMD55") /\ KeepsSelect
  /\ Goto("ACMD41")
  /\ KeepLoad /\ KeepCard /\ UNCHANGED <<r, LED>>
Cmd55 ==
  /\ Answered("CMD55") /\ CsHigh
  /\ Goto("ACMD41")
  /\ KeepLoad /\ KeepCard /\ UNCHANGED <<r, LED>>

\* Repeated for as long as the card says it is idle.
Acmd41_UntilReady ==
  /\ Answered("ACMD41") /\ CsHigh
  /\ Goto(IF r = "ready" THEN "CMD58" ELSE "CMD55") /\ UNCHANGED LED
  /\ KeepLoad /\ KeepCard /\ UNCHANGED r
Acmd41 ==
  /\ Answered("ACMD41") /\ CsHigh
  /\ CASE r = "idle" -> Goto("CMD55") /\ UNCHANGED LED
       [] r = "ready" -> Goto("CMD58") /\ UNCHANGED LED
       [] OTHER -> FailInit
  /\ KeepLoad /\ KeepCard /\ UNCHANGED r

\* READ_OCR: the power-up bit must be set, the capacity bit is remembered.
Cmd58_AssumesBytes ==
  /\ Answered("CMD58") /\ CsHigh
  /\ \E powered \in BOOLEAN :
       IF r = "ready" /\ powered THEN Goto("CMD16") /\ UNCHANGED LED ELSE FailInit
  /\ KeepLoad /\ KeepCard /\ UNCHANGED r
Cmd58 ==
  /\ Answered("CMD58") /\ CsHigh
  /\ \E powered \in BOOLEAN :
       IF r = "ready" /\ powered
       THEN g_sdhc' = card_sdhc /\ Goto("CMD16") /\ UNCHANGED LED
       ELSE UNCHANGED g_sdhc /\ FailInit
  /\ KeepCard /\ UNCHANGED <<r, sector, sz, written, sbuf, app>>

\* The answer to CMD16 is ignored; then load_fw begins.
Cmd16 ==
  /\ Answered("CMD16") /\ CsHigh
  /\ LED' = 3 /\ sector' = APP_START_SECTOR
  /\ Goto("CMD17")
  /\ KeepCard /\ UNCHANGED <<r, g_sdhc, sz, written, sbuf, app>>

-------------------------------------------------------------------------------
(* sd_read_sector *)

\* The argument of CMD17, and the sector the card takes it for.
arg == IF g_sdhc THEN sector ELSE sector * SECTOR
Served == IF card_sdhc THEN arg ELSE arg \div SECTOR

Cmd17 ==
  /\ stage = "CMD17" /\ step = "answer"
  /\ IF r = "ready"
     THEN /\ step' = "token" /\ n' = TOKEN_POLLS
          /\ KeepsSelect /\ UNCHANGED <<stage, LED>>
     ELSE CsHigh /\ FailLoad /\ UNCHANGED n
  /\ KeepLoad /\ KeepCard /\ UNCHANGED r

\* A token other than 0xFE is waited out; the last poll fails whatever it reads.
PollToken ==
  /\ step = "token"
  /\ n' = n - 1 /\ r' \in {"FE", "other"}
  /\ KeepCard /\ UNCHANGED <<g_sdhc, sz, written, app>>
  /\ \/ /\ n = 1
        /\ CsHigh /\ FailLoad /\ UNCHANGED <<sector, sbuf>>
     \/ /\ n # 1 /\ r' = "other"
        /\ KeepsSelect /\ UNCHANGED <<stage, step, LED, sector, sbuf>>
     \/ /\ n # 1 /\ r' = "FE"
        /\ CsHigh
        /\ sbuf' = Served /\ sector' = sector + 1
        /\ Goto(IF sector = APP_START_SECTOR THEN "header" ELSE "copy") /\ UNCHANGED LED

-------------------------------------------------------------------------------
(* load_fw *)

\* The card's byte at a position behind the start of its first sector.
CardByte(pos) == IF pos >= HEADER /\ pos < HEADER + image THEN <<image, pos - HEADER>> ELSE Junk
Buffer(k) == CardByte((sbuf - APP_START_SECTOR) * SECTOR + k)

memcpy(to, from, len) ==
  app' = [c \in AppCell |->
            LET hits == {k \in 0 .. len - 1 : Cell(to + k) = c}
            IN  IF hits = {} THEN app[c]
                ELSE Buffer(from + CHOOSE k \in hits : \A j \in hits : j <= k)]

Least(a, b) == IF a < b THEN a ELSE b

\* Another sector, or done: the jump to the application.
Continue ==
  IF written' < sz' THEN Goto("CMD17") /\ UNCHANGED LED
  ELSE stage' = "app" /\ step' = "send" /\ LED' = 7

Header ==
  /\ stage = "header"
  /\ sz' \in IF sbuf = APP_START_SECTOR THEN {image} ELSE Images
  /\ IF sz' = 0 \/ sz' > MAX_FW_BYTES
     THEN FailLoad /\ UNCHANGED <<written, app>>
     ELSE /\ written' = Least(sz', SECTOR - HEADER)
          /\ memcpy(0, HEADER, written')
          /\ Continue
  /\ KeepsSelect /\ KeepCard /\ UNCHANGED <<n, r, g_sdhc, sector, sbuf>>

Copy_FullSectors ==
  /\ stage = "copy"
  /\ memcpy(written, 0, SECTOR) /\ written' = written + SECTOR
  /\ UNCHANGED sz /\ Continue
  /\ KeepsSelect /\ KeepCard /\ UNCHANGED <<n, r, g_sdhc, sector, sbuf>>
Copy ==
  /\ stage = "copy"
  /\ LET chunk == Least(sz - written, SECTOR)
     IN  memcpy(written, 0, chunk) /\ written' = written + chunk
  /\ UNCHANGED sz /\ Continue
  /\ KeepsSelect /\ KeepCard /\ UNCHANGED <<n, r, g_sdhc, sector, sbuf>>

-------------------------------------------------------------------------------
(* Reset, initial state, specification *)

Init ==
  /\ stage = "start" /\ step = "send" /\ n = 0 /\ r = "FF"
  /\ g_sdhc = FALSE /\ sector = APP_START_SECTOR /\ sz = 0 /\ written = 0
  /\ sbuf = Unread /\ app = [c \in AppCell |-> Junk] /\ LED = 0
  /\ image \in Images /\ card_sdhc \in BOOLEAN /\ card_ready = FALSE
  /\ cs_n = TRUE /\ owed = None

\* The reset button, at any time: the memory keeps what was loaded, or what the
\* application made of it; the card stays as it is or is another one.
Reset ==
  /\ Goto("start") /\ CsHigh
  /\ app' \in {app} \cup (IF stage = "app" THEN {[c \in AppCell |-> Junk]} ELSE {})
  /\ \/ KeepCard
     \/ image' \in Images /\ card_sdhc' \in BOOLEAN /\ card_ready' = FALSE
  /\ UNCHANGED <<n, r, g_sdhc, sector, sz, written, sbuf, LED>>

Step ==
  \/ Start \/ SendCmd \/ PollCmd \/ Cmd0 \/ Cmd8 \/ Cmd55 \/ Acmd41 \/ Cmd58 \/ Cmd16
  \/ Cmd17 \/ PollToken \/ Header \/ Copy
Next == Reset \/ Step

\* The processor runs, and the card does not answer "idle" to ACMD41 for ever.
LeavesIdle == PollCmd /\ owed = "ACMD41" /\ r' \in {"ready", "error"}
Fairness == WF_vars(Step) /\ SF_vars(LeavesIdle)

Spec == Init /\ [][Next]_vars /\ Fairness

-------------------------------------------------------------------------------
(* Properties *)

\* The application is entered only with the complete firmware of the card that
\* is in the slot in place, byte for byte: resets in the middle of a load, other
\* cards and other firmware sizes leave nothing behind.
ImageLoaded == stage = "app" => \A k \in 0 .. image - 1 : app[k] = <<image, k>>

\* Loading never overwrites the bootloader's own data and stack.
BootDataIntact == stage # "start" => \A c \in BootCell : app[c] = Own

\* No command goes out while the card still owes the answer to an earlier one,
\* so a late answer is never taken for that of the next command.
NothingOwed == step = "send" /\ stage \in Commands => owed = None

\* The boot ends, in the application or with a failure on the LEDs, unless reset
\* keeps coming.
BootEnds == <>[][Step]_vars => ((stage = "start") ~> (stage \in {"app", "failed"}))
===============================================================================
