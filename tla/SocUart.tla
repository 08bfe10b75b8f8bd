-------------------------------- MODULE SocUart --------------------------------
(***************************************************************************)
(* The UART of the SoC: simpleuart.v, the registers and the transmit       *)
(* countdown that system.v puts in front of it, and software that polls    *)
(* the status before it writes (uart_putc of bootloader.c, pc of           *)
(* firmware.c).  One step is one clock; the line is looped back, so both   *)
(* directions are the same instance.  No firmware writes the divider: it   *)
(* keeps its reset value, here any of a set.                               *)
(***************************************************************************)
EXTENDS Integers, Sequences

CONSTANTS
  NBits,       \* data bits of a frame: 8
  IDLE,        \* bits of the idle frame after reset: 15
  HOLD,        \* tx_countdown of a byte: 9000, or 10500 on the slow path
  Dividers     \* reset values of cfg_divider: 868

BitPos == 0 .. NBits - 1
Byte == [BitPos -> {0, 1}]
FramePos == 0 .. NBits + 1
STOP == NBits + 2

ASSUME UartAssumption ==
  /\ NBits \in Nat \ {0} /\ IDLE \in Nat \ {0} /\ Dividers \subseteq Nat \ {0}
  \* "868 clocks/bit x 10 bits", "tx_countdown = 9000 (safe margin)"
  /\ HOLD \in Nat /\ \A d \in Dividers : HOLD >= (NBits + 2) * (d + 2)

VARIABLES
  uart_we, uart_tx_data, tx_busy, tx_countdown, uart_rx_rd,               \* system.v
  cfg_divider, send_pattern, send_bitcnt, send_divcnt, send_dummy,        \* simpleuart.v
  recv_state, recv_divcnt, recv_pattern, recv_buf_data, recv_buf_valid,
  pc,        \* where the software is: "free", "poll" or "write"
  quiet,     \* the access of the previous cycle still occupies the bus
  rx,        \* what its last read of the data register returned
  sent,      \* ghost: the bytes on the line
  warm       \* ghost: the idle frame after reset is over

sysVars == <<uart_we, uart_tx_data, tx_busy, tx_countdown, uart_rx_rd>>
sendVars == <<send_pattern, send_bitcnt, send_divcnt, send_dummy>>
recvVars == <<recv_state, recv_divcnt, recv_pattern, recv_buf_data, recv_buf_valid>>
vars == <<sysVars, cfg_divider, sendVars, recvVars, pc, quiet, rx, sent, warm>>

Ones == [i \in FramePos |-> 1]
Zero == [i \in BitPos |-> 0]

TypeOK ==
  /\ uart_we \in BOOLEAN /\ uart_tx_data \in Byte /\ tx_busy \in BOOLEAN
  /\ tx_countdown \in 0..HOLD /\ uart_rx_rd \in BOOLEAN
  /\ cfg_divider \in Dividers
  /\ send_pattern \in [FramePos -> {0, 1}] /\ send_bitcnt \in 0 .. IDLE + NBits + 2
  /\ send_divcnt \in 0 .. cfg_divider + 1 /\ send_dummy \in BOOLEAN
  /\ recv_state \in 0 .. STOP /\ recv_divcnt \in 0 .. cfg_divider + 1
  /\ recv_pattern \in Byte /\ recv_buf_data \in Byte /\ recv_buf_valid \in BOOLEAN
  /\ pc \in {"free", "poll", "write"} /\ quiet \in BOOLEAN
  /\ rx \in [valid : BOOLEAN, data : Byte]
  /\ sent \in Seq(Byte) /\ warm \in BOOLEAN

-------------------------------------------------------------------------------
(* simpleuart.v: transmit *)

ser_tx == send_pattern[0]

Frame(byte) ==
  [i \in FramePos |-> IF i = 0 THEN 0 ELSE IF i = NBits + 1 THEN 1 ELSE byte[i - 1]]

SendIdle ==
  /\ send_dummy /\ send_bitcnt = 0
  /\ send_pattern' = Ones /\ send_bitcnt' = IDLE /\ send_divcnt' = 0 /\ send_dummy' = FALSE

SendFrame ==
  /\ ~send_dummy /\ send_bitcnt = 0 /\ uart_we
  /\ send_pattern' = Frame(uart_tx_data) /\ send_bitcnt' = NBits + 2 /\ send_divcnt' = 0
  /\ UNCHANGED send_dummy

SendShift ==
  /\ send_bitcnt # 0 /\ send_divcnt > cfg_divider
  /\ send_pattern' = [i \in FramePos |-> IF i = NBits + 1 THEN 1 ELSE send_pattern[i + 1]]
  /\ send_bitcnt' = send_bitcnt - 1 /\ send_divcnt' = 0
  /\ UNCHANGED send_dummy

\* At rest the count has no meaning; it is kept at its largest value.
SendCount ==
  /\ IF send_bitcnt = 0 THEN ~send_dummy /\ ~uart_we ELSE send_divcnt <= cfg_divider
  /\ send_divcnt' = IF send_divcnt > cfg_divider THEN send_divcnt ELSE send_divcnt + 1
  /\ UNCHANGED <<send_pattern, send_bitcnt, send_dummy>>

Transmit == SendIdle \/ SendFrame \/ SendShift \/ SendCount

-------------------------------------------------------------------------------
(* simpleuart.v: receive *)

ser_rx == ser_tx

\* A read clears the buffer, unless a byte arrives with the same clock.
Clear == recv_buf_valid' = (recv_buf_valid /\ ~uart_rx_rd) /\ UNCHANGED recv_buf_data

RecvIdle ==
  /\ recv_state = 0
  /\ recv_state' = IF ser_rx = 0 THEN 1 ELSE 0
  /\ recv_divcnt' = 0 /\ UNCHANGED recv_pattern /\ Clear

\* Half a bit, so that the bits are sampled in the middle.
RecvStart_Whole ==
  /\ recv_state = 1
  /\ recv_state' = IF recv_divcnt > cfg_divider THEN 2 ELSE 1
  /\ recv_divcnt' = IF recv_divcnt > cfg_divider THEN 0 ELSE recv_divcnt + 1
  /\ UNCHANGED recv_pattern /\ Clear
RecvStart ==
  /\ recv_state = 1
  /\ recv_state' = IF 2 * recv_divcnt > cfg_divider THEN 2 ELSE 1
  /\ recv_divcnt' = IF 2 * recv_divcnt > cfg_divider THEN 0 ELSE recv_divcnt + 1
  /\ UNCHANGED recv_pattern /\ Clear

RecvWait ==
  /\ recv_state \in 2 .. STOP /\ recv_divcnt <= cfg_divider
  /\ recv_divcnt' = recv_divcnt + 1
  /\ UNCHANGED <<recv_state, recv_pattern>> /\ Clear

RecvBit ==
  /\ recv_state \in 2 .. STOP - 1 /\ recv_divcnt > cfg_divider
  /\ recv_pattern' = [i \in BitPos |-> IF i = NBits - 1 THEN ser_rx ELSE recv_pattern[i + 1]]
  /\ recv_state' = recv_state + 1 /\ recv_divcnt' = 0 /\ Clear

RecvStop_ReadWins ==
  /\ recv_state = STOP /\ recv_divcnt > cfg_divider
  /\ recv_buf_data' = recv_pattern /\ recv_buf_valid' = ~uart_rx_rd
  /\ recv_state' = 0 /\ recv_divcnt' = recv_divcnt /\ UNCHANGED recv_pattern
RecvStop ==
  /\ recv_state = STOP /\ recv_divcnt > cfg_divider
  /\ recv_buf_data' = recv_pattern /\ recv_buf_valid' = TRUE
  /\ recv_state' = 0 /\ recv_divcnt' = recv_divcnt /\ UNCHANGED recv_pattern

Receive == RecvIdle \/ RecvStart \/ RecvWait \/ RecvBit \/ RecvStop

-------------------------------------------------------------------------------
(* system.v: the registers at 0x1000_0004 .. 0x1000_000C *)

uart_tx_ready == ~tx_busy

Countdown ==
  /\ tx_countdown' = IF tx_busy /\ tx_countdown # 0 THEN tx_countdown - 1 ELSE tx_countdown
  /\ tx_busy' = (tx_busy /\ tx_countdown # 0)

WriteTx_DataBits(byte) ==
  /\ uart_we' = ~tx_busy
  /\ IF tx_busy THEN Countdown /\ UNCHANGED uart_tx_data
     ELSE tx_busy' = TRUE /\ tx_countdown' = NBits * (cfg_divider + 2) /\ uart_tx_data' = byte
\* A byte written while the countdown runs is dropped.
WriteTx(byte) ==
  /\ uart_we' = ~tx_busy
  /\ IF tx_busy THEN Countdown /\ UNCHANGED uart_tx_data
     ELSE tx_busy' = TRUE /\ tx_countdown' = HOLD /\ uart_tx_data' = byte

NoWrite == uart_we' = FALSE /\ Countdown /\ UNCHANGED uart_tx_data

\* The read returns at once, the clear reaches simpleuart one clock later.
ReadRx ==
  /\ rx' = [valid |-> recv_buf_valid, data |-> recv_buf_data]
  /\ uart_rx_rd' = TRUE
NoRead == uart_rx_rd' = FALSE /\ UNCHANGED rx

-------------------------------------------------------------------------------
(* The software: one access at a time, and none in the cycle after one *)

Access == ~quiet /\ quiet' = TRUE

Think ==
  /\ quiet' = FALSE /\ NoWrite /\ NoRead
  /\ pc' \in IF pc = "free" THEN {"free", "poll"} ELSE {pc}

\* while (!(UART_STATUS & 1));
Poll ==
  /\ pc = "poll" /\ Access /\ NoWrite /\ NoRead
  /\ pc' = IF uart_tx_ready THEN "write" ELSE "poll"

\* UART_TX = c;
Write ==
  /\ pc = "write" /\ Access /\ NoRead
  /\ \E byte \in Byte : WriteTx(byte)
  /\ pc' = "free"

ReadData ==
  /\ pc = "free" /\ Access /\ NoWrite /\ ReadRx
  /\ UNCHANGED pc

Software == Think \/ Poll \/ Write \/ ReadData

-------------------------------------------------------------------------------
(* One clock, the reset button, the specification *)

\* Ghosts: the bytes that entered the line and did not leave it yet, and
\* whether the idle frame after reset has ended.
Sending == send_bitcnt = 0 /\ ~send_dummy /\ uart_we
Arriving == recv_state = STOP /\ recv_divcnt > cfg_divider
Ghosts ==
  /\ sent' = (IF Arriving /\ sent # <<>> THEN Tail(sent) ELSE sent)
               \o (IF Sending THEN <<uart_tx_data>> ELSE <<>>)
  /\ warm' = (warm \/ (send_bitcnt = 1 /\ send_divcnt > cfg_divider))

Clock == Software /\ Transmit /\ Receive /\ Ghosts /\ UNCHANGED cfg_divider

Init ==
  /\ uart_we = FALSE /\ uart_tx_data \in Byte /\ tx_busy = FALSE /\ tx_countdown = 0
  /\ uart_rx_rd = FALSE
  /\ cfg_divider \in Dividers
  /\ send_pattern = Ones /\ send_bitcnt = 0 /\ send_divcnt = 0 /\ send_dummy = TRUE
  /\ recv_state = 0 /\ recv_divcnt = 0 /\ recv_pattern = Zero /\ recv_buf_data = Zero
  /\ recv_buf_valid = FALSE
  /\ pc = "free" /\ quiet = FALSE /\ rx = [valid |-> FALSE, data |-> Zero]
  /\ sent = <<>> /\ warm = FALSE

\* uart_tx_data has no reset; the divider returns to the value it still has.
Reset ==
  /\ uart_we' = FALSE /\ tx_busy' = FALSE /\ tx_countdown' = 0 /\ uart_rx_rd' = FALSE
  /\ send_pattern' = Ones /\ send_bitcnt' = 0 /\ send_divcnt' = 0 /\ send_dummy' = TRUE
  /\ recv_state' = 0 /\ recv_divcnt' = 0 /\ recv_pattern' = Zero /\ recv_buf_data' = Zero
  /\ recv_buf_valid' = FALSE
  /\ pc' = "free" /\ quiet' = FALSE /\ rx' = [valid |-> FALSE, data |-> Zero]
  /\ sent' = <<>> /\ warm' = FALSE
  /\ UNCHANGED <<uart_tx_data, cfg_divider>>

Next == Clock \/ Reset

\* The clock ticks, and polling software polls.
NextPoll == Clock /\ (quiet \/ pc # "poll" \/ quiet')

Spec == Init /\ [][Next]_vars /\ WF_vars(NextPoll)

-------------------------------------------------------------------------------
(* Properties *)

\* Each frame the receiver completes is the byte that entered the line
\* longest ago: the start bit is waited for half a bit and every bit is
\* sampled inside its own cell, for every divider but 0 (simpleuart.v:77-103).
Delivered ==
  [][RecvStop => sent # <<>> /\ recv_buf_data' = Head(sent)]_vars

\* The countdown stands for simpleuart's own wait signal, which system.v
\* does not connect: once the idle frame is over, a byte that passes
\* tx_busy always finds the shifter at rest and is sent (system.v:428-436).
DropsOnlyAfterReset ==
  uart_we /\ (send_bitcnt # 0 \/ send_dummy) => ~warm

\* Software that waits for the transmitter gets to write (bootloader.c:56,
\* firmware.c:45), and a byte on the line arrives, unless reset comes first.
ByteArrives ==
  /\ (warm /\ pc = "poll") ~> (pc = "write" \/ ~warm)
  /\ (sent # <<>>) ~> (recv_buf_valid \/ ~warm)

\* "will return the last received byte, or -1 ... when the receive buffer is
\* empty" (picosoc/README.md:60): what a read clears is what it returned.
\* The clear comes a clock after the read and takes a byte that arrived with it.
ReadTakesWhatItReturned ==
  uart_rx_rd /\ recv_buf_valid => rx.valid /\ rx.data = recv_buf_data
===============================================================================
