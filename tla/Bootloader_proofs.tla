-------------------------- MODULE Bootloader_proofs --------------------------
(***************************************************************************)
(* What the boot loader loads, for sectors, headers, images, poll limits   *)
(* and windows of any size.  However much memory is behind the window, a   *)
(* command never meets an answer still owed, and sectors, buffer and       *)
(* copied bytes stay where they belong.  If the whole window is backed by  *)
(* memory, as the linker script takes it to be, the application is entered *)
(* with the complete firmware of the card in the slot, and the boot        *)
(* loader's own data is untouched; with the default size of system.v,      *)
(* which is a quarter of it, that is not so (run BootSmallMemory).         *)
(***************************************************************************)
EXTENDS Bootloader, WellFoundedInduction, TLAPS

-------------------------------------------------------------------------------
(* What is proved of every step of a load *)

\* So many bytes have been copied that the next one is at the start of sector s, which
\* the firmware of the card reaches.
Behind(s) ==
  /\ s > APP_START_SECTOR /\ sz = image /\ sz <= MAX_FW_BYTES /\ written < sz
  /\ written = (s - APP_START_SECTOR) * SECTOR - HEADER

\* However much memory there is behind the window: a loop that polls has polls left;
\* every sector that is asked for begins inside the firmware; what is copied comes
\* from the sector that was asked for and follows what was copied before; and no
\* more is copied than the bootloader accepts.
LoadInRange ==
  /\ TypeOK
  /\ step = "poll" => n \in 1 .. CMD_POLLS
  /\ step = "token" => n \in 1 .. TOKEN_POLLS
  /\ written <= MAX_FW_BYTES
  /\ stage = "CMD17" => sector = APP_START_SECTOR \/ Behind(sector)
  /\ stage = "header" => sector = APP_START_SECTOR + 1 /\ sbuf = APP_START_SECTOR
  /\ stage = "copy" => sector = sbuf + 1 /\ Behind(sbuf)

-------------------------------------------------------------------------------
(* The inductive invariant *)

\* Where sd_cmd and sd_read_sector can be, with polls left while they poll; and no
\* command starts with an answer outstanding.
ControlInv ==
  /\ stage \in Stages /\ step \in {"send", "poll", "answer", "token"} /\ n \in Nat
  /\ step = "poll" => n \in 1 .. CMD_POLLS
  /\ step = "token" => n \in 1 .. TOKEN_POLLS
  /\ step = "poll" => stage \in Commands /\ owed = stage
  /\ step = "answer" => stage \in Commands
  /\ step = "token" => stage = "CMD17"
  /\ step = "send" => owed = None

\* From CMD16 on the boot loader knows the unit the card counts in.
CapacityKnown == stage \in {"CMD16", "CMD17", "header", "copy"} => g_sdhc = card_sdhc

\* How far the load has come, by the sector it is at.
ProgressInv ==
  /\ written <= MAX_FW_BYTES
  /\ stage = "CMD17" => sector = APP_START_SECTOR \/ Behind(sector)
  /\ stage = "header" => sector = APP_START_SECTOR + 1 /\ sbuf = APP_START_SECTOR
  /\ stage = "copy" => sector = sbuf + 1 /\ Behind(sbuf)

\* What holds whatever memory is behind the window.
RangeInv == TypeOK /\ ControlInv /\ CapacityKnown /\ ProgressInv

\* The bytes copied so far are those of the firmware, in their places.
InPlace == \A k \in 0 .. written - 1 : app[k] = <<image, k>>
LoadInv ==
  /\ stage = "CMD17" => sector = APP_START_SECTOR \/ InPlace
  /\ stage = "copy" => InPlace
  /\ ImageLoaded

IInv == RangeInv /\ LoadInv /\ BootDataIntact

-------------------------------------------------------------------------------
(* The polling *)

LEMMA ControlStep == ControlInv /\ [Next]_vars => ControlInv'
<1> SUFFICES ASSUME ControlInv, [Next]_vars PROVE ControlInv' OBVIOUS
<1> USE SizeAssumption DEF ControlInv, Stages, Commands, Goto, CsHigh, Answered, KeepsSelect
<1>1. CASE Start BY <1>1 DEF Start
<1>2. CASE SendCmd BY <1>2 DEF SendCmd
<1>3. CASE PollCmd
  <2>1. stage \in Commands /\ owed = stage /\ stage' = stage /\ n \in 1 .. CMD_POLLS
    BY <1>3 DEF PollCmd
  <2>2. CASE step' = "answer" /\ owed' = None /\ n' = n
    BY <2>1, <2>2
  <2>3. CASE owed' = owed /\ n' = n - 1 /\ step' = IF n = 1 THEN "answer" ELSE "poll"
    <3>1. n' \in Nat /\ (n # 1 => n' \in 1 .. CMD_POLLS) BY <2>1, <2>3
    <3>2. step' = "answer" \/ (step' = "poll" /\ n # 1) BY <2>3
    <3>. QED BY <2>1, <2>3, <3>1, <3>2, Zenon
  <2>. QED BY <1>3, <2>2, <2>3 DEF PollCmd
<1>4. CASE Cmd0 BY <1>4 DEF Cmd0, FailInit, Fail
<1>5. CASE Cmd8 BY <1>5 DEF Cmd8, FailInit, Fail
<1>6. CASE Cmd55 BY <1>6 DEF Cmd55
<1>7. CASE Acmd41 BY <1>7 DEF Acmd41, FailInit, Fail
<1>8. CASE Cmd58 BY <1>8 DEF Cmd58, FailInit, Fail
<1>9. CASE Cmd16 BY <1>9 DEF Cmd16
<1>10. CASE Cmd17 BY <1>10 DEF Cmd17, FailLoad, Fail
<1>11. CASE PollToken BY <1>11 DEF PollToken, FailLoad, Fail
<1>12. CASE Header BY <1>12 DEF Header, Continue, FailLoad, Fail
<1>13. CASE Copy BY <1>13 DEF Copy, Continue
<1>14. CASE Reset BY <1>14 DEF Reset
<1>15. CASE UNCHANGED vars BY <1>15 DEF vars, bootVars, cardVars
<1>. QED BY <1>1, <1>2, <1>3, <1>4, <1>5, <1>6, <1>7, <1>8, <1>9, <1>10, <1>11, <1>12, <1>13,
            <1>14, <1>15 DEF Next, Step

LEMMA ControlInit == Init => ControlInv
  BY DEF Init, ControlInv, Stages, Commands

\* No command goes out while the card still owes the answer to an earlier one, however
\* often the boot loader polls and wherever the reset button is pressed.
THEOREM NothingIsOwed == Spec => []NothingOwed
<1>1. ControlInv => NothingOwed BY DEF ControlInv, NothingOwed
<1>. QED BY <1>1, ControlInit, ControlStep, PTL DEF Spec

-------------------------------------------------------------------------------
(* Arithmetic and copying *)

\* A sector is asked for by its number or by its first byte; it is the same sector.
LEMMA SameSector ==
  ASSUME NEW s \in Nat
  PROVE  (s * SECTOR) \div SECTOR = s
  BY SizeAssumption

LEMMA NextSector ==
  ASSUME NEW s \in Nat
  PROVE  (s + 1 - APP_START_SECTOR) * SECTOR = (s - APP_START_SECTOR) * SECTOR + SECTOR
  BY SizeAssumption

LEMMA BufferType ==
  ASSUME TypeOK, NEW k \in Int
  PROVE  Buffer(k) \in Byte
<1> DEFINE pos == (sbuf - APP_START_SECTOR) * SECTOR + k
<1>1. pos \in Int BY SizeAssumption DEF TypeOK, Unread
<1>. HIDE DEF pos
<1>2. CardByte(pos) \in Byte
  BY <1>1, SizeAssumption DEF CardByte, TypeOK, Byte
<1>. QED BY <1>2 DEF Buffer, pos

\* Of the bytes that meet in one cell the last is kept; there is a last one.
LEMMA LastOf ==
  ASSUME NEW len \in Nat, NEW T, T \subseteq 0 .. len - 1, T # {}
  PROVE  \E k \in T : \A j \in T : j <= k
<1> DEFINE R == OpToRel(<, Nat)
           Rest == {len - k : k \in T}
<1>1. IsWellFoundedOn(R, Nat)
  BY NatLessThanWellFounded
<1>2. \A j, k \in Nat : <<j, k>> \in R <=> j < k
  BY DEF OpToRel
<1> HIDE DEF R
<1>3. Rest \subseteq Nat /\ Rest # {}
  <2>1. \A k \in T : len - k \in Nat OBVIOUS
  <2>. QED BY <2>1, Zenon
<1>4. PICK x \in Rest : \A y \in Rest : ~(<<y, x>> \in R)
  BY <1>1, <1>3, WFMin
<1>5. PICK k \in T : x = len - k
  BY <1>4
<1>6. ASSUME NEW j \in T PROVE j <= k
  <2>1. len - j \in Rest /\ len - j \in Nat /\ len - k \in Nat
    OBVIOUS
  <2>2. ~(len - j < len - k)
    BY <1>2, <1>4, <1>5, <2>1
  <2>. QED BY <2>2
<1>. QED BY <1>6

\* Whatever the copy hits, the memory holds bytes.
LEMMA CopiedBytes ==
  ASSUME TypeOK, NEW to \in Nat, NEW from \in Nat, NEW len \in Nat, memcpy(to, from, len)
  PROVE  \A c \in AppCell : app'[c] \in Byte
<1> SUFFICES ASSUME NEW c \in AppCell PROVE app'[c] \in Byte OBVIOUS
<1> DEFINE hits == {k \in 0 .. len - 1 : Cell(to + k) = c}
           last == CHOOSE k \in hits : \A j \in hits : j <= k
<1>1. app'[c] = IF hits = {} THEN app[c] ELSE Buffer(from + last)
  BY DEF memcpy
<1>2. CASE hits = {}
  BY <1>1, <1>2 DEF TypeOK
<1>3. CASE hits # {}
  <2>1. hits \subseteq 0 .. len - 1 OBVIOUS
  <2>. HIDE DEF hits
  <2>2. \E k \in hits : \A j \in hits : j <= k BY <1>3, <2>1, LastOf
  <2>3. last \in hits BY <2>2
  <2>. HIDE DEF last
  <2>4. from + last \in Int BY <2>1, <2>3
  <2>. QED BY <1>1, <1>3, <2>4, BufferType
<1>. QED BY <1>2, <1>3

-------------------------------------------------------------------------------
(* How far the load comes, whatever memory is behind the window *)

\* The first sector: its header says how many bytes there are.
LEMMA RangeHeader ==
  ASSUME RangeInv, Header
  PROVE  TypeOK' /\ ProgressInv'
<1> USE SizeAssumption DEF RangeInv
<1>1. /\ sbuf = APP_START_SECTOR /\ sector = sbuf + 1 /\ sz' = image
      /\ UNCHANGED <<sector, sbuf, g_sdhc, image, card_sdhc, card_ready, n, r, cs_n, owed>>
  BY DEF Header, ProgressInv, KeepsSelect, KeepCard
<1>2. image \in Nat /\ sector' \in Nat BY <1>1 DEF TypeOK
<1>3. stage' \in Stages /\ step' = "send" /\ LED' \in {0, 1, 3, 7, 225, 254}
  BY DEF Header, Continue, Goto, FailLoad, Fail, Stages, Commands, TypeOK
<1>4. CASE sz' = 0 \/ sz' > MAX_FW_BYTES
  <2>1. stage' = "failed" /\ UNCHANGED <<written, app>>
    BY <1>4 DEF Header, FailLoad, Fail, Goto
  <2>2. TypeOK' BY <1>1, <1>2, <1>3, <2>1 DEF TypeOK
  <2>3. ProgressInv' BY <2>1 DEF ProgressInv
  <2>. QED BY <2>2, <2>3
<1>5. CASE ~(sz' = 0 \/ sz' > MAX_FW_BYTES)
  <2>1. written' = Least(sz', SECTOR - HEADER) /\ memcpy(0, HEADER, written') /\ Continue
    BY <1>5 DEF Header
  <2>2. /\ written' \in Nat /\ written' <= image /\ written' <= MAX_FW_BYTES
        /\ written' # image => written' = SECTOR - HEADER /\ written' < image
    BY <1>1, <1>2, <1>5, <2>1 DEF Least
  <2>3. \A c \in AppCell : app'[c] \in Byte
    BY <2>1, <2>2, CopiedBytes
  <2>4. TypeOK' BY <1>1, <1>2, <1>3, <2>2, <2>3 DEF TypeOK
  <2>5. ProgressInv'
    <3>1. CASE written' < sz'
      <4>1. stage' = "CMD17" BY <2>1, <3>1 DEF Continue, Goto
      <4>2. (sector' - APP_START_SECTOR) * SECTOR = SECTOR BY <1>1
      <4>3. written' = SECTOR - HEADER BY <1>1, <2>2, <3>1
      <4>4. written' = (sector' - APP_START_SECTOR) * SECTOR - HEADER BY <4>2, <4>3
      <4>5. sector' > APP_START_SECTOR /\ sz' = image' /\ sz' <= MAX_FW_BYTES
        BY <1>1, <1>2, <1>5
      <4>6. Behind(sector)' BY <1>1, <3>1, <4>4, <4>5 DEF Behind
      <4>. QED BY <2>2, <4>1, <4>6 DEF ProgressInv
    <3>2. CASE ~(written' < sz')
      <4>1. stage' = "app" BY <2>1, <3>2 DEF Continue
      <4>. QED BY <2>2, <4>1 DEF ProgressInv
    <3>. QED BY <3>1, <3>2
  <2>. QED BY <2>4, <2>5
<1>. QED BY <1>4, <1>5

\* What is left of the firmware, at most a sector of it.
Chunk == Least(sz - written, SECTOR)

LEMMA ChunkFits ==
  ASSUME RangeInv, Copy
  PROVE  /\ sector = sbuf + 1 /\ Behind(sbuf) /\ sz' = sz
         /\ memcpy(written, 0, Chunk) /\ written' = written + Chunk /\ Continue
         /\ UNCHANGED <<sector, sbuf, g_sdhc, image, card_sdhc, card_ready, n, r, cs_n, owed>>
         /\ image \in Nat /\ sector' \in Nat /\ written \in Nat /\ sbuf \in Nat
         /\ Chunk \in Nat /\ written + Chunk <= MAX_FW_BYTES /\ written + Chunk <= image
         /\ written + Chunk # image => Chunk = SECTOR
<1> USE SizeAssumption DEF RangeInv
<1>1. /\ sector = sbuf + 1 /\ Behind(sbuf) /\ sz' = sz
      /\ memcpy(written, 0, Chunk) /\ written' = written + Chunk /\ Continue
      /\ UNCHANGED <<sector, sbuf, g_sdhc, image, card_sdhc, card_ready, n, r, cs_n, owed>>
  BY DEF Copy, ProgressInv, KeepsSelect, KeepCard, Chunk
<1>2. image \in Nat /\ sector' \in Nat /\ written \in Nat /\ sbuf \in Nat
  BY <1>1 DEF TypeOK, Behind, Unread
<1>3. /\ Chunk \in Nat /\ written + Chunk <= MAX_FW_BYTES /\ written + Chunk <= image
      /\ written + Chunk # image => Chunk = SECTOR
  BY <1>1, <1>2 DEF Behind, Least, Chunk
<1>. QED BY <1>1, <1>2, <1>3

\* Every other sector.
LEMMA RangeCopy ==
  ASSUME RangeInv, Copy
  PROVE  TypeOK' /\ ProgressInv'
<1> USE SizeAssumption
<1>1. /\ sector = sbuf + 1 /\ Behind(sbuf) /\ sz' = sz
      /\ memcpy(written, 0, Chunk) /\ written' = written + Chunk /\ Continue
      /\ UNCHANGED <<sector, sbuf, g_sdhc, image, card_sdhc, card_ready, n, r, cs_n, owed>>
  BY ChunkFits
<1>2. image \in Nat /\ sector' \in Nat /\ written \in Nat /\ sbuf \in Nat
  BY ChunkFits
<1>3. /\ Chunk \in Nat /\ written + Chunk <= MAX_FW_BYTES /\ written + Chunk <= image
      /\ written + Chunk # image => Chunk = SECTOR
  BY ChunkFits
<1>4. stage' \in Stages /\ step' = "send" /\ LED' \in {0, 1, 3, 7, 225, 254}
  BY <1>1 DEF Continue, Goto, Stages, Commands, RangeInv, TypeOK
<1>5. TypeOK /\ \A c \in AppCell : app'[c] \in Byte
  BY <1>1, <1>2, <1>3, CopiedBytes DEF RangeInv
<1>6. TypeOK' BY <1>1, <1>2, <1>3, <1>4, <1>5 DEF TypeOK
<1>7. ProgressInv'
  <2>1. CASE written' < sz'
    <3>1. stage' = "CMD17" BY <1>1, <2>1 DEF Continue, Goto
    <3>2. Chunk = SECTOR BY <1>1, <1>2, <1>3, <2>1 DEF Behind
    <3>3. written' = (sector' - APP_START_SECTOR) * SECTOR - HEADER
      <4> DEFINE start == (sbuf - APP_START_SECTOR) * SECTOR
      <4>1. start \in Int /\ written = start - HEADER BY <1>1, <1>2 DEF Behind
      <4>2. (sector' - APP_START_SECTOR) * SECTOR = start + SECTOR
        BY <1>1, <1>2, NextSector
      <4>. HIDE DEF start
      <4>. QED BY <1>1, <1>2, <3>2, <4>1, <4>2
    <3>4. Behind(sector)'
      BY <1>1, <1>2, <1>3, <2>1, <3>3 DEF Behind
    <3>. QED BY <1>1, <1>3, <3>1, <3>4 DEF ProgressInv
  <2>2. CASE ~(written' < sz')
    <3>1. stage' = "app" BY <1>1, <2>2 DEF Continue
    <3>. QED BY <1>1, <1>3, <3>1 DEF ProgressInv
  <2>. QED BY <2>1, <2>2
<1>. QED BY <1>6, <1>7

\* The last byte of a sector read: it is the sector that was asked for.
LEMMA RangeToken ==
  ASSUME RangeInv, PollToken
  PROVE  TypeOK' /\ ProgressInv'
<1> USE SizeAssumption DEF RangeInv, CsHigh, KeepsSelect, KeepCard, FailLoad, Fail, Goto
<1>1. /\ stage = "CMD17" /\ n \in Nat /\ n # 0
      /\ UNCHANGED <<g_sdhc, sz, written, app, image, card_sdhc, card_ready>>
  BY DEF PollToken, ControlInv
<1>2. Served = sector
  <2>1. sector \in Nat /\ g_sdhc = card_sdhc BY <1>1 DEF CapacityKnown, TypeOK
  <2>. QED BY <2>1, SameSector DEF Served, arg
<1>3. /\ n' \in Nat /\ r' \in R1 \cup {"FF", "other", "FE"}
      /\ cs_n' \in BOOLEAN /\ owed' \in Commands \cup {None}
      /\ stage' \in Stages /\ step' \in {"send", "poll", "answer", "token"}
      /\ LED' \in {0, 1, 3, 7, 225, 254}
  <2>1. n' \in Nat /\ r' \in {"other", "FE"} BY <1>1 DEF PollToken
  <2>2. stage' \in {stage, "failed", "header", "copy"} /\ step' \in {step, "send"}
    BY DEF PollToken
  <2>3. owed' \in {owed, None} /\ LED' \in {LED, 254} BY DEF PollToken
  <2>4. cs_n' \in BOOLEAN BY DEF PollToken, TypeOK
  <2>. QED BY <2>1, <2>2, <2>3, <2>4 DEF TypeOK, Stages
<1>4. CASE UNCHANGED <<sector, sbuf>> /\ stage' \in {"CMD17", "failed"}
  <2>1. TypeOK' BY <1>1, <1>3, <1>4 DEF TypeOK
  <2>2. ProgressInv' BY <1>1, <1>4 DEF ProgressInv, Behind
  <2>. QED BY <2>1, <2>2
<1>5. CASE /\ sbuf' = Served /\ sector' = sector + 1
           /\ stage' = IF sector = APP_START_SECTOR THEN "header" ELSE "copy"
  <2>1. sbuf' = sector /\ sector \in Nat BY <1>2, <1>5 DEF TypeOK
  <2>2. TypeOK' BY <1>1, <1>3, <1>5, <2>1 DEF TypeOK
  <2>3. ProgressInv'
    <3>1. CASE sector = APP_START_SECTOR
      BY <1>1, <1>5, <2>1, <3>1 DEF ProgressInv
    <3>2. CASE sector # APP_START_SECTOR
      <4>1. Behind(sector) BY <1>1, <3>2 DEF ProgressInv
      <4>2. Behind(sbuf)' BY <1>1, <2>1, <4>1 DEF Behind
      <4>. QED BY <1>1, <1>5, <2>1, <3>2, <4>2 DEF ProgressInv
    <3>. QED BY <3>1, <3>2
  <2>. QED BY <2>2, <2>3
<1>. QED BY <1>1, <1>4, <1>5 DEF PollToken

\* The steps that copy nothing: initialisation, commands and their answers.
Protocol ==
  SendCmd \/ PollCmd \/ Cmd0 \/ Cmd8 \/ Cmd55 \/ Acmd41 \/ Cmd58 \/ Cmd16 \/ Cmd17

LEMMA ProtocolLoads ==
  ASSUME RangeInv, Protocol
  PROVE  /\ UNCHANGED <<sz, written, sbuf, app, image, card_sdhc>>
         /\ \/ sector' = sector /\ stage = "CMD17" /\ stage' \in {"CMD17", "failed"}
            \/ sector' = sector /\ stage' \notin {"CMD17", "header", "copy", "app"}
            \/ sector' = APP_START_SECTOR /\ stage' = "CMD17"
<1> USE DEF Commands, KeepLoad, KeepCard, Goto, Answered, FailInit, FailLoad, Fail
<1>1. CASE SendCmd BY <1>1 DEF SendCmd
<1>2. CASE PollCmd
  <2>1. step = "poll" /\ stage \in Commands BY <1>2 DEF PollCmd, RangeInv, ControlInv
  <2>2. UNCHANGED <<sz, written, sbuf, app, image, card_sdhc, sector, stage>>
    BY <1>2 DEF PollCmd
  <2>. QED BY <2>1, <2>2
<1>3. CASE Cmd0 BY <1>3 DEF Cmd0
<1>4. CASE Cmd8 BY <1>4 DEF Cmd8
<1>5. CASE Cmd55 BY <1>5 DEF Cmd55
<1>6. CASE Acmd41 BY <1>6 DEF Acmd41
<1>7. CASE Cmd58 BY <1>7 DEF Cmd58
<1>8. CASE Cmd16 BY <1>8 DEF Cmd16
<1>9. CASE Cmd17 BY <1>9 DEF Cmd17
<1>. QED BY <1>1, <1>2, <1>3, <1>4, <1>5, <1>6, <1>7, <1>8, <1>9 DEF Protocol

LEMMA ProtocolTypes ==
  ASSUME RangeInv, Protocol
  PROVE  /\ r' \in R1 \cup {"FF", "other", "FE"} /\ g_sdhc' \in BOOLEAN
         /\ LED' \in {0, 1, 3, 7, 225, 254} /\ card_ready' \in BOOLEAN
         /\ cs_n' \in BOOLEAN /\ owed' \in Commands \cup {None}
<1> USE DEF RangeInv, TypeOK, KeepLoad, KeepCard, Goto, Answered, FailInit, FailLoad, Fail, CsHigh,
            KeepsSelect
<1>1. CASE SendCmd BY <1>1 DEF SendCmd
<1>2. CASE PollCmd
  <2>1. owed \in Commands BY <1>2 DEF PollCmd, ControlInv
  <2>2. Answers(owed) \subseteq R1 BY <2>1 DEF Answers, Commands, R1
  <2>3. r' \in R1 \cup {"FF"} /\ owed' \in {owed, None} /\ card_ready' \in BOOLEAN
    BY <1>2, <2>2 DEF PollCmd
  <2>4. UNCHANGED <<g_sdhc, LED, cs_n>> BY <1>2 DEF PollCmd
  <2>. QED BY <2>1, <2>3, <2>4
<1>3. CASE Cmd0 BY <1>3 DEF Cmd0
<1>4. CASE Cmd8 BY <1>4 DEF Cmd8
<1>5. CASE Cmd55 BY <1>5 DEF Cmd55
<1>6. CASE Acmd41 BY <1>6 DEF Acmd41
<1>7. CASE Cmd58 BY <1>7 DEF Cmd58
<1>8. CASE Cmd16 BY <1>8 DEF Cmd16
<1>9. CASE Cmd17
  <2>1. /\ UNCHANGED <<r, g_sdhc, card_ready>>
        /\ owed' \in {owed, None} /\ LED' \in {LED, 254}
    BY <1>9 DEF Cmd17
  <2>2. cs_n' \in BOOLEAN BY <1>9 DEF Cmd17
  <2>. QED BY <2>1, <2>2
<1>. QED BY <1>1, <1>2, <1>3, <1>4, <1>5, <1>6, <1>7, <1>8, <1>9 DEF Protocol

LEMMA RangeProtocol ==
  ASSUME RangeInv, Protocol, ControlInv'
  PROVE  TypeOK' /\ ProgressInv'
<1>1. TypeOK'
  BY ProtocolLoads, ProtocolTypes, SizeAssumption DEF RangeInv, TypeOK, ControlInv
<1>2. ProgressInv' BY ProtocolLoads DEF RangeInv, ProgressInv, Behind
<1>. QED BY <1>1, <1>2

LEMMA RangeStart ==
  ASSUME RangeInv, Start
  PROVE  TypeOK' /\ ProgressInv'
<1>1. \A c \in AppCell : app'[c] \in Byte BY DEF Start, RangeInv, TypeOK, Byte
<1>2. TypeOK'
  BY <1>1 DEF Start, Goto, CsHigh, KeepCard, RangeInv, TypeOK, Stages, Commands
<1>3. ProgressInv' BY DEF Start, Goto, RangeInv, ProgressInv
<1>. QED BY <1>2, <1>3

LEMMA RangeReset ==
  ASSUME RangeInv, Reset
  PROVE  TypeOK' /\ ProgressInv'
<1>1. \A c \in AppCell : app'[c] \in Byte BY DEF Reset, RangeInv, TypeOK, Byte
<1>2. TypeOK'
  <2>1. image' \in Images /\ card_sdhc' \in BOOLEAN /\ card_ready' \in BOOLEAN
    BY DEF Reset, KeepCard, RangeInv, TypeOK
  <2>2. /\ UNCHANGED <<n, r, g_sdhc, sector, sz, written, sbuf, LED>>
        /\ stage' = "start" /\ step' = "send" /\ cs_n' = TRUE /\ owed' = None
    BY DEF Reset, Goto, CsHigh
  <2>. QED BY <1>1, <2>1, <2>2 DEF RangeInv, TypeOK, Stages
<1>3. ProgressInv' BY DEF Reset, Goto, RangeInv, ProgressInv
<1>. QED BY <1>2, <1>3

LEMMA CapacityStep == ControlInv /\ CapacityKnown /\ [Next]_vars => CapacityKnown'
<1> SUFFICES ASSUME ControlInv, CapacityKnown, [Next]_vars PROVE CapacityKnown' OBVIOUS
<1> USE DEF CapacityKnown, Goto, KeepLoad, KeepCard, Answered, FailInit, FailLoad, Fail
<1>1. CASE Start BY <1>1 DEF Start
<1>2. CASE SendCmd BY <1>2 DEF SendCmd
<1>3. CASE PollCmd
  <2>1. UNCHANGED <<stage, g_sdhc, card_sdhc>> BY <1>3 DEF PollCmd
  <2>. QED BY <2>1
<1>4. CASE Cmd0 BY <1>4 DEF Cmd0
<1>5. CASE Cmd8 BY <1>5 DEF Cmd8
<1>6. CASE Cmd55 BY <1>6 DEF Cmd55
<1>7. CASE Acmd41 BY <1>7 DEF Acmd41
<1>8. CASE Cmd58 BY <1>8 DEF Cmd58
<1>9. CASE Cmd16 BY <1>9 DEF Cmd16
<1>10. CASE Cmd17 BY <1>10 DEF Cmd17
<1>11. CASE PollToken BY <1>11 DEF PollToken, ControlInv
<1>12. CASE Header BY <1>12 DEF Header, Continue
<1>13. CASE Copy BY <1>13 DEF Copy, Continue
<1>14. CASE Reset BY <1>14 DEF Reset
<1>15. CASE UNCHANGED vars BY <1>15 DEF vars, bootVars, cardVars
<1>. QED BY <1>1, <1>2, <1>3, <1>4, <1>5, <1>6, <1>7, <1>8, <1>9, <1>10, <1>11, <1>12, <1>13,
            <1>14, <1>15 DEF Next, Step

LEMMA RangeInit == Init => RangeInv
<1> SUFFICES ASSUME Init PROVE RangeInv OBVIOUS
<1>1. TypeOK
  <2>1. \A c \in AppCell : app[c] \in Byte BY DEF Init, Byte
  <2>. QED BY <2>1, SizeAssumption DEF Init, TypeOK, Stages
<1>2. CapacityKnown /\ ProgressInv
  BY SizeAssumption DEF Init, CapacityKnown, ProgressInv
<1>. QED BY <1>1, <1>2, ControlInit DEF RangeInv

LEMMA RangeStep == RangeInv /\ [Next]_vars => RangeInv'
<1> SUFFICES ASSUME RangeInv, [Next]_vars PROVE RangeInv' OBVIOUS
<1>1. ControlInv' /\ CapacityKnown' BY ControlStep, CapacityStep DEF RangeInv
<1>2. TypeOK' /\ ProgressInv'
  <2>1. CASE Protocol BY <1>1, <2>1, RangeProtocol
  <2>2. CASE Start BY <2>2, RangeStart
  <2>3. CASE PollToken BY <2>3, RangeToken
  <2>4. CASE Header BY <2>4, RangeHeader
  <2>5. CASE Copy BY <2>5, RangeCopy
  <2>6. CASE Reset BY <2>6, RangeReset
  <2>7. CASE UNCHANGED vars
    BY <2>7 DEF vars, bootVars, cardVars, RangeInv, TypeOK, ProgressInv, Behind
  <2>. QED BY <2>1, <2>2, <2>3, <2>4, <2>5, <2>6, <2>7 DEF Next, Step, Protocol
<1>. QED BY <1>1, <1>2 DEF RangeInv

\* Whatever memory is behind the window, polling ends within its limits, no sector is
\* asked for that the firmware of the card does not reach, the buffer holds the sector
\* asked for, and no more is copied than fits below the boot loader.
THEOREM LoadStaysInRange == Spec => []LoadInRange
<1>1. RangeInv => LoadInRange BY DEF RangeInv, ControlInv, ProgressInv, LoadInRange
<1>. QED BY <1>1, RangeInit, RangeStep, PTL DEF Spec

-------------------------------------------------------------------------------
(* What the memory holds, if the whole window is backed by it *)

\* Where the window is backed by memory, an address in it is the cell of that number.
LEMMA CellOfAddress ==
  ASSUME APP_SIZE = WINDOW, NEW a \in 0 .. WINDOW - 1
  PROVE  Cell(a) = a
  BY SizeAssumption DEF Cell

LEMMA BootCells == APP_SIZE = WINDOW => BootCell = BL_BASE .. WINDOW - 1
<1> SUFFICES ASSUME APP_SIZE = WINDOW PROVE BootCell = BL_BASE .. WINDOW - 1 OBVIOUS
<1>1. \A a \in BL_BASE .. WINDOW - 1 : Cell(a) = a BY CellOfAddress, SizeAssumption
<1>. QED BY <1>1 DEF BootCell

\* memcpy into the window changes exactly the cells it names.
LEMMA Copied ==
  ASSUME APP_SIZE = WINDOW, NEW to \in Nat, NEW from \in Nat, NEW len \in Nat,
         to + len <= WINDOW, memcpy(to, from, len), NEW c \in AppCell
  PROVE  app'[c] = IF to <= c /\ c < to + len THEN Buffer(from + (c - to)) ELSE app[c]
<1> DEFINE hits == {k \in 0 .. len - 1 : Cell(to + k) = c}
<1>1. app'[c] = IF hits = {} THEN app[c]
                ELSE Buffer(from + CHOOSE k \in hits : \A j \in hits : j <= k)
  BY DEF memcpy
<1>2. \A k \in 0 .. len - 1 : Cell(to + k) = to + k
  BY CellOfAddress, SizeAssumption
<1>3. c \in 0 .. WINDOW - 1 BY DEF AppCell
<1>4. hits = IF to <= c /\ c < to + len THEN {c - to} ELSE {}
  BY <1>2, <1>3, SizeAssumption
<1>. HIDE DEF hits
<1>5. CASE to <= c /\ c < to + len
  <2>1. hits = {c - to} BY <1>4, <1>5
  <2>2. (CHOOSE k \in hits : \A j \in hits : j <= k) = c - to
    BY <2>1, <1>3, <1>5, SizeAssumption
  <2>. QED BY <1>1, <1>5, <2>1, <2>2
<1>6. CASE ~(to <= c /\ c < to + len)
  BY <1>1, <1>4, <1>6
<1>. QED BY <1>5, <1>6

\* Copying below the boot loader's memory leaves its data alone.
LEMMA CopiedBelow ==
  ASSUME APP_SIZE = WINDOW, NEW to \in Nat, NEW from \in Nat, NEW len \in Nat,
         to + len <= MAX_FW_BYTES, memcpy(to, from, len)
  PROVE  \A c \in BootCell : app'[c] = app[c]
<1>1. to + len <= WINDOW BY SizeAssumption
<1> SUFFICES ASSUME NEW c \in BootCell PROVE app'[c] = app[c] OBVIOUS
<1>2. c \in AppCell /\ ~(c < to + len) BY BootCells, SizeAssumption DEF AppCell
<1>. QED BY <1>1, <1>2, Copied

\* Copying the next bytes of the firmware puts them in place behind the others.
LEMMA CopiedInPlace ==
  ASSUME APP_SIZE = WINDOW, TypeOK, NEW to \in Nat, NEW from \in Nat, NEW len \in Nat,
         NEW end, end = to + len, end <= MAX_FW_BYTES, end <= image, memcpy(to, from, len),
         (sbuf - APP_START_SECTOR) * SECTOR + from = to + HEADER,
         \A k \in 0 .. to - 1 : app[k] = <<image, k>>
  PROVE  \A k \in 0 .. end - 1 : app'[k] = <<image, k>>
<1> SUFFICES ASSUME NEW k \in 0 .. end - 1 PROVE app'[k] = <<image, k>> OBVIOUS
<1>1. to + len <= WINDOW /\ k \in AppCell BY SizeAssumption DEF AppCell
<1>2. app'[k] = IF to <= k /\ k < to + len THEN Buffer(from + (k - to)) ELSE app[k]
  BY <1>1, Copied
<1>3. CASE k < to
  BY <1>2, <1>3
<1>4. CASE to <= k
  <2> DEFINE start == (sbuf - APP_START_SECTOR) * SECTOR
  <2>1. start \in Int BY SizeAssumption DEF TypeOK, Unread
  <2>2. Buffer(from + (k - to)) = CardByte(start + (from + (k - to))) BY DEF Buffer
  <2>3. start + from = to + HEADER OBVIOUS
  <2>. HIDE DEF start
  <2>4. start + (from + (k - to)) = k + HEADER BY <2>1, <2>3, SizeAssumption
  <2>5. image \in Nat BY SizeAssumption DEF TypeOK
  <2>6. CardByte(k + HEADER) = <<image, k>> BY <2>5, SizeAssumption DEF CardByte
  <2>. QED BY <1>2, <1>4, <2>2, <2>4, <2>6
<1>. QED BY <1>3, <1>4

LEMMA HeaderLoads ==
  ASSUME APP_SIZE = WINDOW, IInv, Header
  PROVE  LoadInv' /\ BootDataIntact'
<1> USE SizeAssumption DEF IInv, RangeInv
<1>1. /\ sbuf = APP_START_SECTOR /\ sz' = image /\ image' = image /\ image \in Nat
  BY DEF Header, ProgressInv, KeepCard, TypeOK
<1>2. CASE sz' = 0 \/ sz' > MAX_FW_BYTES
  <2>1. stage' = "failed" /\ UNCHANGED app
    BY <1>2 DEF Header, FailLoad, Fail, Goto
  <2>2. LoadInv' BY <2>1 DEF LoadInv, ImageLoaded
  <2>3. BootDataIntact' BY <2>1 DEF BootDataIntact, Header
  <2>. QED BY <2>2, <2>3
<1>3. CASE ~(sz' = 0 \/ sz' > MAX_FW_BYTES)
  <2>1. written' = Least(sz', SECTOR - HEADER) /\ memcpy(0, HEADER, written') /\ Continue
    BY <1>3 DEF Header
  <2>2. /\ written' \in Nat /\ written' <= image /\ 0 + written' <= MAX_FW_BYTES
        /\ 0 + written' = written'
    BY <1>1, <1>3, <2>1 DEF Least
  <2>3. \A c \in BootCell : app'[c] = app[c]
    BY <2>1, <2>2, CopiedBelow
  <2>4. (sbuf - APP_START_SECTOR) * SECTOR + HEADER = 0 + HEADER BY <1>1
  <2>5. \A k \in 0 .. written' - 1 : app'[k] = <<image, k>>
    <3>1. \A k \in 0 .. 0 - 1 : app[k] = <<image, k>> OBVIOUS
    <3>2. TypeOK /\ 0 \in Nat /\ HEADER \in Nat OBVIOUS
    <3>3. /\ written' = 0 + written' /\ written' <= MAX_FW_BYTES /\ written' <= image
          /\ (sbuf - APP_START_SECTOR) * SECTOR + HEADER = 0 + HEADER
      BY <2>2, <2>4
    <3>. HIDE DEF IInv, RangeInv
    <3>. QED BY ONLY APP_SIZE = WINDOW, <2>1, <2>2, <3>1, <3>2, <3>3, CopiedInPlace
  <2>6. InPlace' BY <1>1, <2>5, Zenon DEF InPlace
  <2>7. LoadInv'
    <3>1. CASE written' < sz'
      <4>1. stage' = "CMD17" BY <2>1, <3>1 DEF Continue, Goto
      <4>. QED BY <2>6, <4>1 DEF LoadInv, ImageLoaded
    <3>2. CASE ~(written' < sz')
      <4>1. stage' = "app" BY <2>1, <3>2 DEF Continue
      <4>2. written' = image BY <1>1, <2>2, <3>2
      <4>3. ImageLoaded' BY <1>1, <2>5, <4>2 DEF ImageLoaded
      <4>. QED BY <4>1, <4>3 DEF LoadInv
    <3>. QED BY <3>1, <3>2
  <2>8. BootDataIntact' BY <2>3 DEF BootDataIntact, Header
  <2>. QED BY <2>7, <2>8, Zenon
<1>. QED BY <1>2, <1>3, Zenon

LEMMA CopyLoads ==
  ASSUME APP_SIZE = WINDOW, IInv, Copy
  PROVE  LoadInv' /\ BootDataIntact'
<1> USE SizeAssumption DEF IInv
<1>1. /\ Behind(sbuf) /\ sz' = sz /\ image' = image
      /\ memcpy(written, 0, Chunk) /\ written' = written + Chunk /\ Continue
      /\ image \in Nat /\ written \in Nat /\ sbuf \in Nat
      /\ Chunk \in Nat /\ written + Chunk <= MAX_FW_BYTES /\ written + Chunk <= image
  BY ChunkFits
<1>2. \A c \in BootCell : app'[c] = app[c]
  BY <1>1, CopiedBelow
<1>3. (sbuf - APP_START_SECTOR) * SECTOR + 0 = written + HEADER
  <2> DEFINE start == (sbuf - APP_START_SECTOR) * SECTOR
  <2>1. start \in Int /\ written = start - HEADER BY <1>1 DEF Behind
  <2>. HIDE DEF start
  <2>2. start + 0 = written + HEADER BY <1>1, <2>1
  <2>. QED BY <2>2 DEF start
<1>4. \A k \in 0 .. written' - 1 : app'[k] = <<image, k>>
  <2>1. /\ \A k \in 0 .. written - 1 : app[k] = <<image, k>>
        /\ written' <= MAX_FW_BYTES /\ written' <= image
    BY <1>1 DEF LoadInv, InPlace, Copy
  <2>2. TypeOK BY DEF RangeInv
  <2>. QED BY <1>1, <1>3, <2>1, <2>2, CopiedInPlace
<1>5. InPlace' BY <1>1, <1>4, Zenon DEF InPlace
<1>6. LoadInv'
  <2>1. CASE written' < sz'
    <3>1. stage' = "CMD17" BY <1>1, <2>1 DEF Continue, Goto
    <3>. QED BY <1>5, <3>1 DEF LoadInv, ImageLoaded
  <2>2. CASE ~(written' < sz')
    <3>1. stage' = "app" BY <1>1, <2>2 DEF Continue
    <3>2. written' = image BY <1>1, <2>2 DEF Behind
    <3>3. \A k \in 0 .. image' - 1 : app'[k] = <<image', k>>
      BY <1>1, <1>4, <3>2, Zenon
    <3>. QED BY <3>1, <3>3 DEF LoadInv, ImageLoaded
  <2>. QED BY <2>1, <2>2
<1>7. BootDataIntact' BY <1>2 DEF BootDataIntact, Copy
<1>. QED BY <1>6, <1>7

LEMMA TokenLoads ==
  ASSUME IInv, PollToken
  PROVE  LoadInv' /\ BootDataIntact'
<1> USE DEF FailLoad, Fail, Goto
<1>1. stage = "CMD17" /\ UNCHANGED <<written, app, image>>
  BY DEF PollToken, IInv, RangeInv, ControlInv, KeepCard
<1>2. InPlace <=> InPlace'
  BY <1>1 DEF InPlace
<1>3. \/ stage' = "failed"
      \/ sector' = sector /\ stage' = "CMD17"
      \/ stage' = IF sector = APP_START_SECTOR THEN "header" ELSE "copy"
  BY <1>1 DEF PollToken
<1>4. LoadInv' BY <1>1, <1>2, <1>3 DEF IInv, LoadInv, ImageLoaded
<1>5. BootDataIntact' BY <1>1 DEF IInv, BootDataIntact
<1>. QED BY <1>4, <1>5

LEMMA ProtocolKeepsLoad ==
  ASSUME IInv, Protocol
  PROVE  LoadInv' /\ BootDataIntact'
<1>1. LoadInv' BY ProtocolLoads DEF IInv, LoadInv, InPlace, ImageLoaded
<1>2. stage # "start"
  BY DEF IInv, RangeInv, ControlInv, Protocol, SendCmd, PollCmd, Cmd0, Cmd8, Cmd55, Acmd41, Cmd58,
         Cmd16, Cmd17, Answered, Commands
<1>3. BootDataIntact' BY <1>2, ProtocolLoads DEF IInv, BootDataIntact
<1>. QED BY <1>1, <1>3

\* The start of the boot loader claims its own memory, and the reset button leaves
\* whatever is there.
LEMMA StartClaims ==
  ASSUME APP_SIZE = WINDOW, Start
  PROVE  LoadInv' /\ BootDataIntact'
<1>1. BootCell \subseteq AppCell BY BootCells, SizeAssumption DEF AppCell
<1>2. LoadInv' BY DEF Start, Goto, LoadInv, ImageLoaded
<1>3. BootDataIntact' BY <1>1 DEF Start, BootDataIntact
<1>. QED BY <1>2, <1>3

LEMMA InvInit == Init => IInv
<1> SUFFICES ASSUME Init PROVE IInv OBVIOUS
<1>1. LoadInv /\ BootDataIntact BY DEF Init, LoadInv, ImageLoaded, BootDataIntact
<1>. QED BY <1>1, RangeInit DEF IInv

LEMMA InvStep == ASSUME APP_SIZE = WINDOW PROVE IInv /\ [Next]_vars => IInv'
<1> SUFFICES ASSUME IInv, [Next]_vars PROVE IInv' OBVIOUS
<1>1. RangeInv' BY RangeStep DEF IInv
<1>2. LoadInv' /\ BootDataIntact'
  <2>1. CASE Protocol BY <2>1, ProtocolKeepsLoad
  <2>2. CASE Start BY <2>2, StartClaims
  <2>3. CASE PollToken BY <2>3, TokenLoads
  <2>4. CASE Header BY <2>4, HeaderLoads
  <2>5. CASE Copy BY <2>5, CopyLoads
  <2>6. CASE Reset BY <2>6 DEF Reset, Goto, LoadInv, ImageLoaded, BootDataIntact
  <2>7. CASE UNCHANGED vars
    BY <2>7 DEF vars, bootVars, cardVars, IInv, LoadInv, InPlace, ImageLoaded, BootDataIntact
  <2>. QED BY <2>1, <2>2, <2>3, <2>4, <2>5, <2>6, <2>7 DEF Next, Step, Protocol
<1>. QED BY <1>1, <1>2 DEF IInv

\* If the whole window is backed by memory, the application is entered only with the
\* complete firmware of the card in the slot, whatever its size and wherever the reset
\* button was pressed before.
THEOREM LoadsImage == ASSUME APP_SIZE = WINDOW PROVE Spec => []ImageLoaded
<1>1. IInv => ImageLoaded BY DEF IInv, LoadInv
<1>. QED BY <1>1, InvInit, InvStep, PTL DEF Spec

\* The load never overwrites the boot loader's own data and stack, if the window is
\* backed by memory all the way; with less memory it may (run BootSmallMemory).
THEOREM BootDataSafe == ASSUME APP_SIZE = WINDOW PROVE Spec => []BootDataIntact
<1>1. IInv => BootDataIntact BY DEF IInv
<1>. QED BY <1>1, InvInit, InvStep, PTL DEF Spec
==============================================================================
