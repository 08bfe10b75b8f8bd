--------------------------------- MODULE SdSpi ---------------------------------
(***************************************************************************)
(* The SD card port: spi_xfer of the bootloader (bootloader.c) on one      *)
(* side, the card on the other, and between them the SPI registers of      *)
(* system.v and simple_spi_master.  One step is one clock; the processor   *)
(* performs at most one access to the registers in it, and none in the     *)
(* cycle after one (the memory interface of the core is not back in its    *)
(* idle state), however long it then takes to the next.                    *)
(***************************************************************************)
EXTENDS SimpleSpiMaster

CONSTANT Payload     \* the bytes the two ends exchange

ASSUME PayloadAssumption == Payload \subseteq Byte /\ Payload # {}

VARIABLES
  sdspi_tx_data, sdspi_clkdiv, sdspi_start, sdspi_cs_n, sdspi_done_sticky, sdspi_rx_data_reg,
  pc,             \* where spi_xfer is, "idle" between calls
  tx,             \* its argument
  result,         \* its last return value
  quiet,          \* the access of the previous cycle still occupies the bus
  card_out,       \* the byte the card is answering with
  card_in,        \* the bits it has received of the current byte
  card_bit,       \* the bit it is at
  heard,          \* the last byte it received
  gave            \* the byte it gave for it

regVars == <<sdspi_tx_data, sdspi_clkdiv, sdspi_start, sdspi_cs_n, sdspi_done_sticky,
             sdspi_rx_data_reg>>
hostVars == <<pc, tx, result, quiet>>
cardVars == <<card_out, card_in, card_bit, heard, gave>>
vars == <<spiVars, regVars, hostVars, cardVars>>

Pcs == {"idle", "wait_busy", "send", "wait_done", "receive"}

TypeOK ==
  /\ SpiTypeOK
  /\ sdspi_tx_data \in Byte /\ sdspi_clkdiv \in 0..MaxDiv
  /\ sdspi_start \in BOOLEAN /\ sdspi_cs_n \in BOOLEAN /\ sdspi_done_sticky \in BOOLEAN
  /\ sdspi_rx_data_reg \in Byte
  /\ pc \in Pcs /\ tx \in Byte /\ result \in Byte /\ quiet \in BOOLEAN
  /\ card_out \in Payload /\ card_in \in Byte /\ card_bit \in BitPos
  /\ heard \in Byte /\ gave \in Byte

-------------------------------------------------------------------------------
(* The card: SPI mode 0, active while selected *)

\* An unselected card leaves the line pulled up.
spi_miso == IF sdspi_cs_n THEN 1 ELSE card_out[card_bit]

CardListen ==
  /\ card_in' = [card_in EXCEPT ![card_bit] = spi_mosi]
  /\ UNCHANGED <<card_out, card_bit, heard, gave>>

CardShift ==
  /\ card_bit # 0 /\ card_bit' = card_bit - 1
  /\ UNCHANGED <<card_out, card_in, heard, gave>>

CardByte ==
  /\ card_bit = 0 /\ card_bit' = NBits - 1
  /\ heard' = card_in /\ gave' = card_out
  /\ card_out' \in Payload
  /\ UNCHANGED card_in

CardDeselect ==
  /\ card_bit' = NBits - 1 /\ card_out' \in Payload
  /\ UNCHANGED <<card_in, heard, gave>>

\* The card acts on the edges of SCK, and forgets half a byte when deselected.
Card ==
  IF sdspi_cs_n' /\ ~sdspi_cs_n THEN CardDeselect
  ELSE IF sdspi_cs_n \/ spi_sck' = spi_sck THEN UNCHANGED cardVars
  ELSE IF spi_sck' = 1 THEN CardListen ELSE CardShift \/ CardByte

-------------------------------------------------------------------------------
(* The registers at 0x6000_0000 *)

\* done is a pulse of one cycle; the sticky copy lasts until the next start.
Sticky_Pulse ==
  /\ sdspi_done_sticky' = done
  /\ sdspi_rx_data_reg' = IF done THEN rx_data ELSE sdspi_rx_data_reg
Sticky_NotCleared ==
  /\ sdspi_done_sticky' = (sdspi_done_sticky \/ done)
  /\ sdspi_rx_data_reg' = IF done THEN rx_data ELSE sdspi_rx_data_reg
Sticky ==
  /\ sdspi_done_sticky' = (done \/ (sdspi_done_sticky /\ ~sdspi_start))
  /\ sdspi_rx_data_reg' = IF done THEN rx_data ELSE sdspi_rx_data_reg

Clock == SpiClock(sdspi_start, sdspi_tx_data, sdspi_clkdiv, spi_miso) /\ Sticky

\* No write to a register of the port.
NoWrite == sdspi_start' = FALSE /\ UNCHANGED <<sdspi_tx_data, sdspi_clkdiv, sdspi_cs_n>>

\* A byte written while a transfer runs is dropped.
WriteData(byte) ==
  /\ sdspi_start' = ~busy
  /\ sdspi_tx_data' = IF busy THEN sdspi_tx_data ELSE byte
  /\ UNCHANGED <<sdspi_clkdiv, sdspi_cs_n>>
WriteCs(cs_n) ==
  /\ sdspi_start' = FALSE /\ sdspi_cs_n' = cs_n
  /\ UNCHANGED <<sdspi_tx_data, sdspi_clkdiv>>
WriteClkdiv(div) ==
  /\ sdspi_start' = FALSE /\ sdspi_clkdiv' = div
  /\ UNCHANGED <<sdspi_tx_data, sdspi_cs_n>>

-------------------------------------------------------------------------------
(* The processor: cs_lo, cs_hi, SD_CLKDIV = ... and spi_xfer *)

\* A cycle without an access.
Think ==
  /\ Clock /\ NoWrite /\ quiet' = FALSE
  /\ UNCHANGED <<pc, tx, result>>

Access(from) == pc = from /\ Clock /\ ~quiet /\ quiet' = TRUE

SetCs ==
  /\ Access("idle") /\ UNCHANGED <<pc, tx, result>>
  /\ \E cs_n \in BOOLEAN : WriteCs(cs_n)

SetClkdiv ==
  /\ Access("idle") /\ UNCHANGED <<pc, tx, result>>
  /\ \E div \in 0..MaxDiv : WriteClkdiv(div)

Call ==
  /\ pc = "idle" /\ Clock /\ NoWrite /\ quiet' = FALSE
  /\ tx' \in Payload /\ pc' = "wait_busy"
  /\ UNCHANGED result

WaitBusy ==
  /\ Access("wait_busy") /\ NoWrite
  /\ pc' = IF busy THEN "wait_busy" ELSE "send"
  /\ UNCHANGED <<tx, result>>

Send ==
  /\ Access("send") /\ WriteData(tx)
  /\ pc' = "wait_done"
  /\ UNCHANGED <<tx, result>>

WaitDone ==
  /\ Access("wait_done") /\ NoWrite
  /\ pc' = IF sdspi_done_sticky THEN "receive" ELSE "wait_done"
  /\ UNCHANGED <<tx, result>>

Receive ==
  /\ Access("receive") /\ NoWrite
  /\ result' = sdspi_rx_data_reg /\ pc' = "idle"
  /\ UNCHANGED tx

Host == WaitBusy \/ Send \/ WaitDone \/ Receive
Processor == Think \/ SetCs \/ SetClkdiv \/ Call \/ Host

-------------------------------------------------------------------------------
(* Reset, initial state, specification *)

Init ==
  /\ SpiInit
  /\ sdspi_tx_data = xFF /\ sdspi_clkdiv = MaxDiv /\ sdspi_start = FALSE
  /\ sdspi_cs_n = TRUE /\ sdspi_done_sticky = FALSE /\ sdspi_rx_data_reg = xFF
  /\ pc = "idle" /\ tx = xFF /\ result = xFF /\ quiet = FALSE
  /\ card_out \in Payload /\ card_in = xFF /\ card_bit = NBits - 1
  /\ heard = xFF /\ gave = xFF

\* The reset button: the port and the processor start over, the card only
\* sees itself deselected.
Reset ==
  /\ SpiReset
  /\ sdspi_tx_data' = xFF /\ sdspi_clkdiv' = MaxDiv /\ sdspi_start' = FALSE
  /\ sdspi_cs_n' = TRUE /\ sdspi_done_sticky' = FALSE /\ sdspi_rx_data_reg' = xFF
  /\ pc' = "idle" /\ tx' = xFF /\ result' = xFF /\ quiet' = FALSE
  /\ CardDeselect

Step == Processor /\ Card
Next == Reset \/ Step

\* The clock ticks, and the processor gets round to its next access.
Fairness == WF_vars(Step) /\ WF_vars(Host /\ Card)

Spec == Init /\ [][Next]_vars /\ Fairness

-------------------------------------------------------------------------------
(* Properties *)

\* SPI mode 0: the data line never moves on a rising edge of SCK or while SCK is
\* high; SCK and the transfer are at rest whenever the chip select changes or
\* the divider is written, so the card never sees a clipped clock pulse.
Mode0 ==
  [][Step => /\ spi_sck' = 1 => spi_mosi' = spi_mosi
             /\ sdspi_cs_n' # sdspi_cs_n \/ sdspi_clkdiv' # sdspi_clkdiv
                  => ~busy /\ ~sdspi_start /\ spi_sck = 0]_vars

\* Both ends count bits alike: during a transfer to the selected card they are
\* at the same bit; and every register keeps its range.
InStep ==
  /\ TypeOK
  /\ busy /\ ~sdspi_cs_n => card_bit = bitpos

\* The state of the abstract exchange: asked until the byte has gone over.
phase ==
  CASE pc = "idle" -> "idle"
    [] pc \in {"wait_busy", "send"} -> "asked"
    [] pc = "wait_done" -> IF sdspi_start \/ busy THEN "asked" ELSE "answered"
    [] pc = "receive" -> "answered"

Abs == INSTANCE SpiExchange WITH
         selected <- ~sdspi_cs_n,
         answer <- IF phase # "answered" THEN "none" ELSE IF sdspi_cs_n THEN xFF ELSE gave

\* Polling, start and done flags, divider and shift register make every call
\* of spi_xfer one exchange with the card: no byte lost, repeated or stale.
ImplementsExchange == Abs!Spec

\* A call returns, whatever the divider (or the processor is reset).
CallReturns == (pc # "idle") ~> (pc = "idle")
===============================================================================
