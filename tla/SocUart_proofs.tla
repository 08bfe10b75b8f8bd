----------------------------- MODULE SocUart_proofs -----------------------------
(***************************************************************************)
(* The countdown of system.v is a safe margin for every divider, frame and *)
(* hold time that meet the inequality its comment argues with: once the    *)
(* idle frame after reset is over, no byte that passes tx_busy is dropped. *)
(* And what is sent is what arrives: for every divider from 1 on and bytes *)
(* of any width, the receiver samples each bit inside its own cell.        *)
(***************************************************************************)
EXTENDS SocUart, TLAPS

\* The clocks until the shifter is at rest again.
Remaining == send_bitcnt * (cfg_divider + 2) - send_divcnt

\* A write is on its way for one clock, with the whole countdown in front of it;
\* after that the countdown lasts as long as the frame, but for the clock in which
\* the frame was taken over.
Margin ==
  /\ ~tx_busy => ~uart_we
  /\ uart_we => tx_countdown = HOLD
  /\ send_bitcnt # 0 => ~send_dummy
  /\ warm => /\ ~send_dummy
             /\ send_bitcnt # 0 => tx_busy /\ ~uart_we /\ Remaining <= tx_countdown + 1

IInv == TypeOK /\ Margin

-------------------------------------------------------------------------------
(* Types *)

LEMMA FrameType == ASSUME NEW byte \in Byte PROVE Frame(byte) \in [FramePos -> {0, 1}]
  BY UartAssumption DEF Byte, BitPos, FramePos, Frame

LEMMA ShiftInFrame ==
  ASSUME NEW f \in [FramePos -> {0, 1}]
  PROVE  [i \in FramePos |-> IF i = NBits + 1 THEN 1 ELSE f[i + 1]] \in [FramePos -> {0, 1}]
<1>1. \A i \in FramePos : i # NBits + 1 => i + 1 \in FramePos
  BY UartAssumption DEF FramePos
<1>. QED BY <1>1

LEMMA ShiftInByte ==
  ASSUME NEW x \in Byte, NEW b \in {0, 1}
  PROVE  [i \in BitPos |-> IF i = NBits - 1 THEN b ELSE x[i + 1]] \in Byte
<1>1. \A i \in BitPos : i # NBits - 1 => i + 1 \in BitPos
  BY UartAssumption DEF BitPos
<1>. QED BY <1>1 DEF Byte

LEMMA Constants ==
  /\ Ones \in [FramePos -> {0, 1}] /\ Zero \in Byte
  /\ 0 \in FramePos /\ STOP \in Nat /\ STOP >= 3
  /\ \A d \in Dividers : d \in Nat \ {0}
  BY UartAssumption DEF Ones, Zero, Byte, FramePos, STOP

LEMMA TransmitTypes ==
  ASSUME TypeOK, Transmit
  PROVE  /\ send_pattern' \in [FramePos -> {0, 1}] /\ send_bitcnt' \in 0 .. IDLE + NBits + 2
         /\ send_divcnt' \in 0 .. cfg_divider + 1 /\ send_dummy' \in BOOLEAN
<1> USE UartAssumption, Constants DEF TypeOK
<1>1. CASE SendIdle BY <1>1 DEF SendIdle
<1>2. CASE SendFrame BY <1>2, FrameType DEF SendFrame
<1>3. CASE SendShift
  <2>1. send_pattern' \in [FramePos -> {0, 1}] BY <1>3, ShiftInFrame DEF SendShift
  <2>. QED BY <1>3, <2>1 DEF SendShift
<1>4. CASE SendCount BY <1>4 DEF SendCount
<1>. QED BY <1>1, <1>2, <1>3, <1>4 DEF Transmit

LEMMA ReceiveTypes ==
  ASSUME TypeOK, Receive
  PROVE  /\ recv_state' \in 0 .. STOP /\ recv_divcnt' \in 0 .. cfg_divider + 1
         /\ recv_pattern' \in Byte /\ recv_buf_data' \in Byte /\ recv_buf_valid' \in BOOLEAN
<1> USE Constants DEF TypeOK, Clear
<1>1. CASE RecvIdle BY <1>1 DEF RecvIdle
<1>2. CASE RecvStart BY <1>2 DEF RecvStart
<1>3. CASE RecvWait BY <1>3 DEF RecvWait
<1>4. CASE RecvBit
  <2>1. ser_rx \in {0, 1} BY DEF ser_rx, ser_tx
  <2>2. recv_pattern' \in Byte BY <1>4, <2>1, ShiftInByte DEF RecvBit
  <2>. QED BY <1>4, <2>2 DEF RecvBit
<1>5. CASE RecvStop BY <1>5 DEF RecvStop
<1>. QED BY <1>1, <1>2, <1>3, <1>4, <1>5 DEF Receive

LEMMA SoftwareTypes ==
  ASSUME TypeOK, Software
  PROVE  /\ uart_we' \in BOOLEAN /\ uart_tx_data' \in Byte /\ tx_busy' \in BOOLEAN
         /\ tx_countdown' \in 0 .. HOLD /\ uart_rx_rd' \in BOOLEAN
         /\ pc' \in {"free", "poll", "write"} /\ quiet' \in BOOLEAN
         /\ rx' \in [valid : BOOLEAN, data : Byte]
<1> DEFINE WriteTypes == /\ uart_we' \in BOOLEAN /\ uart_tx_data' \in Byte
                         /\ tx_busy' \in BOOLEAN /\ tx_countdown' \in 0 .. HOLD
           ReadTypes == uart_rx_rd' \in BOOLEAN /\ rx' \in [valid : BOOLEAN, data : Byte]
           PcTypes == pc' \in {"free", "poll", "write"} /\ quiet' \in BOOLEAN
<1>1. Countdown => tx_countdown' \in 0 .. HOLD /\ tx_busy' \in BOOLEAN
  <2>1. tx_countdown # 0 => tx_countdown - 1 \in 0 .. HOLD BY UartAssumption DEF TypeOK
  <2>. QED BY <2>1 DEF TypeOK, Countdown
<1>2. NoWrite => WriteTypes BY <1>1 DEF NoWrite, TypeOK
<1>3. ASSUME NEW byte \in Byte, WriteTx(byte) PROVE WriteTypes
  <2>1. HOLD \in 0 .. HOLD BY UartAssumption
  <2>. QED BY <1>1, <1>3, <2>1 DEF WriteTx, TypeOK
<1>4. NoRead => ReadTypes BY DEF NoRead, TypeOK
<1>5. ReadRx => ReadTypes BY DEF ReadRx, TypeOK
<1>6. PcTypes BY DEF Software, Think, Poll, Write, ReadData, Access, TypeOK
<1>7. WriteTypes
  BY <1>2, <1>3 DEF Software, Think, Poll, Write, ReadData
<1>8. ReadTypes
  BY <1>4, <1>5 DEF Software, Think, Poll, Write, ReadData
<1>. QED BY <1>6, <1>7, <1>8

LEMMA GhostTypes ==
  ASSUME TypeOK, Ghosts
  PROVE  sent' \in Seq(Byte) /\ warm' \in BOOLEAN
<1>1. sent # <<>> => Tail(sent) \in Seq(Byte) BY DEF TypeOK
<1>2. <<uart_tx_data>> \in Seq(Byte) /\ <<>> \in Seq(Byte) BY DEF TypeOK
<1>. QED BY <1>1, <1>2 DEF Ghosts, TypeOK

LEMMA StepTypes == TypeOK /\ [Next]_vars => TypeOK'
<1> SUFFICES ASSUME TypeOK, [Next]_vars PROVE TypeOK' OBVIOUS
<1>1. CASE Clock
  BY <1>1, TransmitTypes, ReceiveTypes, SoftwareTypes, GhostTypes DEF Clock, TypeOK
<1>2. CASE Reset
  <2>1. <<>> \in Seq(Byte) OBVIOUS
  <2>2. [valid |-> FALSE, data |-> Zero] \in [valid : BOOLEAN, data : Byte] BY Constants
  <2>. QED BY <1>2, <2>1, <2>2, Constants, UartAssumption DEF Reset, TypeOK
<1>3. CASE UNCHANGED vars
  BY <1>3 DEF vars, sysVars, sendVars, recvVars, TypeOK
<1>. QED BY <1>1, <1>2, <1>3 DEF Next

-------------------------------------------------------------------------------
(* The margin *)

\* One clock of the shifter is one clock less, and no clock is missed: from one bit
\* to the next the count passes cfg_divider + 1 and starts over.
LEMMA OneClockLess ==
  ASSUME TypeOK, Transmit, cfg_divider' = cfg_divider, send_bitcnt # 0
  PROVE  Remaining' = Remaining - 1 /\ send_dummy' = send_dummy
<1> USE Constants DEF TypeOK
<1>1. CASE SendShift
  <2>1. send_divcnt = cfg_divider + 1 BY <1>1 DEF SendShift
  <2>2. (send_bitcnt - 1) * (cfg_divider + 2)
          = send_bitcnt * (cfg_divider + 2) - (cfg_divider + 2)
    OBVIOUS
  <2>. QED BY <1>1, <2>1, <2>2 DEF SendShift, Remaining
<1>2. CASE SendCount
  <2>1. send_divcnt' = send_divcnt + 1 BY <1>2 DEF SendCount
  <2>. QED BY <1>2, <2>1 DEF SendCount, Remaining
<1>. QED BY <1>1, <1>2 DEF Transmit, SendIdle, SendFrame

\* While bits are left, so is time.
LEMMA TimeLeft ==
  ASSUME NEW d \in Dividers, NEW bits \in Nat \ {0}, NEW clocks \in 0 .. d + 1
  PROVE  bits * (d + 2) - clocks >= 1
<1>1. d \in Nat BY Constants
<1>2. bits * (d + 2) >= d + 2 BY <1>1
<1>. QED BY <1>1, <1>2

\* What the software and the countdown do in one clock.
LEMMA CountdownStep ==
  ASSUME TypeOK, Margin, Software
  PROVE  /\ ~tx_busy' => ~uart_we'
         /\ uart_we' => tx_countdown' = HOLD /\ ~tx_busy
         /\ tx_busy => /\ tx_countdown # 0 => tx_busy' /\ tx_countdown' = tx_countdown - 1
  BY DEF TypeOK, Margin, Software, Think, Poll, Write, ReadData, NoWrite, WriteTx, Countdown

LEMMA MarginStep == IInv /\ [Next]_vars => Margin'
<1> SUFFICES ASSUME IInv, [Next]_vars PROVE Margin' OBVIOUS
<1> USE DEF IInv
<1>1. CASE Clock
  <2> USE <1>1 DEF Clock
  <2>1. /\ ~tx_busy' => ~uart_we'
        /\ uart_we' => tx_countdown' = HOLD /\ ~tx_busy
        /\ tx_busy /\ tx_countdown # 0 => tx_busy' /\ tx_countdown' = tx_countdown - 1
    BY CountdownStep
  <2>2. send_bitcnt' # 0 => ~send_dummy'
    BY DEF Margin, Transmit, SendIdle, SendFrame, SendShift, SendCount, TypeOK
  <2>3. TypeOK' BY StepTypes
  <2>4. CASE warm
    <3>1. ~send_dummy'
      BY <2>4 DEF Margin, Transmit, SendIdle, SendFrame, SendShift, SendCount
    <3>2. CASE send_bitcnt' # 0 /\ send_bitcnt # 0
      <4>1. tx_busy /\ ~uart_we /\ Remaining <= tx_countdown + 1 BY <2>4, <3>2 DEF Margin
      <4>2. Remaining' = Remaining - 1 BY <3>2, OneClockLess
      <4>3. Remaining' >= 1
        <5>1. /\ cfg_divider' \in Dividers /\ send_bitcnt' \in Nat \ {0}
              /\ send_divcnt' \in 0 .. cfg_divider' + 1
          BY <2>3, <3>2 DEF TypeOK
        <5>. QED BY <5>1, TimeLeft DEF Remaining
      <4>4. tx_countdown # 0 /\ Remaining \in Int
        BY <4>1, <4>2, <4>3, Constants DEF TypeOK, Remaining
      <4>. QED
        BY <2>1, <2>2, <3>1, <4>1, <4>2, <4>4, UartAssumption DEF Margin, TypeOK
    <3>3. CASE send_bitcnt' # 0 /\ send_bitcnt = 0
      <4>1. SendFrame
        BY <2>4, <3>3 DEF Margin, Transmit, SendIdle, SendShift, SendCount
      <4>2. tx_busy /\ tx_countdown = HOLD BY <4>1 DEF SendFrame, Margin
      <4> DEFINE frame == (NBits + 2) * (cfg_divider + 2)
      <4>3. frame \in Nat /\ frame > 0 /\ HOLD >= frame
        BY UartAssumption, Constants DEF TypeOK
      <4>4. Remaining' = frame
        <5>1. send_bitcnt' = NBits + 2 /\ send_divcnt' = 0 /\ cfg_divider' = cfg_divider
          BY <4>1 DEF SendFrame
        <5>. QED BY <4>3, <5>1 DEF Remaining
      <4>. HIDE DEF frame
      <4>6. HOLD # 0 BY <4>3, UartAssumption
      <4>7. Remaining' <= tx_countdown' + 1
        <5>1. tx_countdown' = HOLD - 1 BY <2>1, <4>2, <4>6
        <5>. QED BY <4>3, <4>4, <5>1, UartAssumption
      <4>. QED BY <2>1, <2>2, <3>1, <4>2, <4>6, <4>7 DEF Margin
    <3>4. CASE send_bitcnt' = 0
      BY <2>1, <2>2, <3>1, <3>4 DEF Margin
    <3>. QED BY <3>2, <3>3, <3>4
  <2>5. CASE ~warm /\ warm'
    <3>1. send_bitcnt = 1 /\ send_divcnt > cfg_divider BY <2>5 DEF Ghosts
    <3>2. send_bitcnt' = 0 /\ send_dummy' = send_dummy
      BY <3>1, Constants DEF Transmit, SendIdle, SendFrame, SendShift, SendCount, TypeOK
    <3>3. ~send_dummy BY <3>1 DEF Margin
    <3>. QED BY <2>1, <3>2, <3>3 DEF Margin
  <2>6. CASE ~warm' BY <2>1, <2>2, <2>6 DEF Margin
  <2>. QED BY <2>4, <2>5, <2>6
<1>2. CASE Reset BY <1>2 DEF Reset, Margin
<1>3. CASE UNCHANGED vars
  BY <1>3 DEF vars, sysVars, sendVars, Margin, Remaining
<1>. QED BY <1>1, <1>2, <1>3 DEF Next

-------------------------------------------------------------------------------
(* Where receiver and transmitter stand in a frame *)

\* The count at which half a bit is over.
Half == cfg_divider \div 2 + 1

\* The shifter has so many bits of the frame behind it, and is at this clock of the next.
Shifted(byte, bits) ==
  [i \in FramePos |-> IF i + bits <= NBits + 1 THEN Frame(byte)[i + bits] ELSE 1]
Sends(byte, bits, clock) ==
  send_pattern = Shifted(byte, bits) /\ send_bitcnt = NBits + 2 - bits /\ send_divcnt = clock

\* The first bits of the byte are in, from the top.
Received(byte, bits) ==
  \A i \in BitPos : i >= NBits - bits => recv_pattern[i] = byte[i - (NBits - bits)]

\* The receiver starts a clock after the frame, and its bits half a bit after the
\* bits on the line: it ends the count of a bit inside the next one.
InFrame(byte) ==
  \/ recv_state = 0 /\ Sends(byte, 0, 0)
  \/ recv_state = 1 /\ recv_divcnt <= Half /\ Sends(byte, 0, recv_divcnt + 1)
  \/ /\ recv_state \in 2 .. STOP /\ Received(byte, recv_state - 2)
     /\ IF recv_divcnt < cfg_divider - Half
        THEN Sends(byte, recv_state - 2, recv_divcnt + Half + 2)
        ELSE Sends(byte, recv_state - 1, recv_divcnt - (cfg_divider - Half))

\* The receiver is at rest and the line is high, or the one byte that is on the line
\* is the one it receives.
LineInv ==
  \/ recv_state = 0 /\ sent = <<>> /\ send_pattern = Ones
  \/ \E byte \in Byte : sent = <<byte>> /\ InFrame(byte)

LEMMA HalfBit ==
  ASSUME TypeOK
  PROVE  /\ cfg_divider \in Nat \ {0} /\ Half \in 1 .. cfg_divider
         /\ 2 * Half > cfg_divider /\ \A clock \in Nat : clock < Half => 2 * clock <= cfg_divider
<1>1. cfg_divider \in Nat \ {0} BY Constants DEF TypeOK
<1>. QED BY <1>1 DEF Half

\* One more bit of the frame is gone; behind the stop bit the line stays high.
LEMMA NextBit ==
  ASSUME NEW byte \in Byte, NEW bits \in 0 .. NBits + 1
  PROVE  [i \in FramePos |-> IF i = NBits + 1 THEN 1 ELSE Shifted(byte, bits)[i + 1]]
           = Shifted(byte, bits + 1)
<1>1. ASSUME NEW i \in FramePos
      PROVE  (IF i = NBits + 1 THEN 1 ELSE Shifted(byte, bits)[i + 1]) = Shifted(byte, bits + 1)[i]
  <2>1. CASE i = NBits + 1 BY <1>1, <2>1, UartAssumption DEF Shifted, FramePos
  <2>2. CASE i # NBits + 1
    <3>1. i + 1 \in FramePos /\ i + 1 + bits = i + (bits + 1)
      BY <1>1, <2>2, UartAssumption DEF FramePos
    <3>. QED BY <1>1, <2>2, <3>1 DEF Shifted
  <2>. QED BY <2>1, <2>2
<1>. QED BY <1>1 DEF Shifted

LEMMA FrameEnds ==
  ASSUME NEW byte \in Byte, NEW bits \in NBits + 1 .. NBits + 2
  PROVE  Shifted(byte, bits) = Ones
<1>1. ASSUME NEW i \in FramePos PROVE Shifted(byte, bits)[i] = 1
  <2>1. CASE i + bits <= NBits + 1
    <3>1. i = 0 /\ bits = NBits + 1 BY <2>1, UartAssumption DEF FramePos
    <3>. QED BY <3>1, UartAssumption DEF Shifted, Frame, FramePos
  <2>2. CASE ~(i + bits <= NBits + 1) BY <2>2 DEF Shifted
  <2>. QED BY <2>1, <2>2
<1>. QED BY <1>1 DEF Shifted, Ones

LEMMA BitOnLine ==
  ASSUME NEW byte \in Byte, NEW bits \in 0 .. NBits + 1
  PROVE  Shifted(byte, bits)[0] = IF bits = 0 THEN 0 ELSE IF bits = NBits + 1 THEN 1 ELSE byte[bits - 1]
<1>1. /\ 0 \in FramePos /\ bits \in FramePos /\ 0 + bits = bits
      /\ Shifted(byte, bits) = [i \in FramePos |-> IF i + bits <= NBits + 1 THEN Frame(byte)[i + bits] ELSE 1]
  BY UartAssumption DEF Shifted, FramePos
<1>2. Shifted(byte, bits)[0] = Frame(byte)[bits] BY <1>1
<1>. QED BY <1>1, <1>2 DEF Frame

LEMMA WholeFrame == ASSUME NEW byte \in Byte PROVE Shifted(byte, 0) = Frame(byte)
<1>1. \A i \in FramePos : i + 0 = i /\ i <= NBits + 1 BY UartAssumption DEF FramePos
<1>. QED BY <1>1 DEF Shifted, Frame

LEMMA LineHigh ==
  [i \in FramePos |-> IF i = NBits + 1 THEN 1 ELSE Ones[i + 1]] = Ones
<1>1. \A i \in FramePos : i # NBits + 1 => i + 1 \in FramePos
  BY UartAssumption DEF FramePos
<1>. QED BY <1>1 DEF Ones

\* The shifter in the middle of a frame.
LEMMA SendsOn ==
  ASSUME TypeOK, Transmit, NEW byte \in Byte, NEW bits \in 0 .. NBits + 1,
         NEW clock \in 0 .. cfg_divider + 1, Sends(byte, bits, clock)
  PROVE  /\ send_bitcnt # 0
         /\ clock <= cfg_divider => Sends(byte, bits, clock + 1)'
         /\ clock > cfg_divider => Sends(byte, bits + 1, 0)'
<1>1. /\ send_pattern = Shifted(byte, bits) /\ send_bitcnt = NBits + 2 - bits
      /\ send_divcnt = clock /\ send_bitcnt # 0 /\ cfg_divider \in Nat
  BY UartAssumption, HalfBit DEF Sends
<1>2. CASE clock <= cfg_divider
  <2>1. SendCount BY <1>1, <1>2 DEF Transmit, SendIdle, SendFrame, SendShift
  <2>. QED BY <1>1, <1>2, <2>1 DEF SendCount, Sends
<1>3. CASE clock > cfg_divider
  <2>1. SendShift BY <1>1, <1>3 DEF Transmit, SendIdle, SendFrame, SendCount
  <2>2. send_pattern' = Shifted(byte, bits + 1) BY <1>1, <2>1, NextBit DEF SendShift
  <2>. QED BY <1>1, <1>3, <2>1, <2>2, UartAssumption DEF SendShift, Sends
<1>. QED BY <1>1, <1>2, <1>3

LEMMA BitReceived ==
  ASSUME NEW byte \in Byte, NEW n \in 0 .. NBits - 1, NEW old \in Byte, NEW new,
         \A i \in BitPos : i >= NBits - n => old[i] = byte[i - (NBits - n)],
         new = [i \in BitPos |-> IF i = NBits - 1 THEN byte[n] ELSE old[i + 1]]
  PROVE  \A i \in BitPos : i >= NBits - (n + 1) => new[i] = byte[i - (NBits - (n + 1))]
<1> SUFFICES ASSUME NEW i \in BitPos, i >= NBits - (n + 1)
             PROVE  new[i] = byte[i - (NBits - (n + 1))]
  OBVIOUS
<1> USE UartAssumption DEF BitPos
<1>1. CASE i = NBits - 1
  <2>1. i - (NBits - (n + 1)) = n BY <1>1
  <2>. QED BY <1>1, <2>1
<1>2. CASE i # NBits - 1
  <2>1. i + 1 \in BitPos /\ i + 1 >= NBits - n BY <1>2
  <2>2. i + 1 - (NBits - n) = i - (NBits - (n + 1)) OBVIOUS
  <2>. QED BY <1>2, <2>1, <2>2
<1>. QED BY <1>1, <1>2

\* At rest the receiver stays at rest until a frame begins, which is the clock in which
\* the byte is counted as sent.
LEMMA RestStep ==
  ASSUME TypeOK, Clock, recv_state = 0, sent = <<>>, send_pattern = Ones
  PROVE  LineInv'
<1>1. Transmit /\ Receive /\ Ghosts BY DEF Clock
<1>2. recv_state' = 0
  <2>1. ser_rx = 1 BY Constants DEF ser_rx, ser_tx, Ones
  <2>2. RecvIdle BY <1>1, Constants DEF Receive, RecvStart, RecvWait, RecvBit, RecvStop
  <2>. QED BY <2>1, <2>2 DEF RecvIdle
<1>3. ~Arriving BY Constants DEF Arriving
<1>4. CASE Sending
  <2>1. SendFrame BY <1>1, <1>4 DEF Sending, Transmit, SendIdle, SendShift, SendCount
  <2>2. uart_tx_data \in Byte BY DEF TypeOK
  <2>3. send_pattern' = Shifted(uart_tx_data, 0) /\ send_bitcnt' = NBits + 2 /\ send_divcnt' = 0
    BY <2>1, <2>2, WholeFrame DEF SendFrame
  <2>4. sent' = <<uart_tx_data>> BY <1>1, <1>3, <1>4 DEF Ghosts
  <2>5. PICK byte \in Byte : byte = uart_tx_data BY <2>2
  <2>6. NBits + 2 - 0 = NBits + 2 BY UartAssumption
  <2>7. InFrame(byte)' BY <1>2, <2>3, <2>5, <2>6 DEF InFrame, Sends
  <2>. QED BY <2>4, <2>5, <2>7 DEF LineInv
<1>5. CASE ~Sending
  <2>1. sent' = <<>> BY <1>1, <1>3, <1>5 DEF Ghosts
  <2>2. send_pattern' = Ones
    BY <1>1, <1>5, LineHigh DEF Sending, Transmit, SendIdle, SendFrame, SendShift, SendCount
  <2>. QED BY <1>2, <2>1, <2>2 DEF LineInv
<1>. QED BY <1>4, <1>5

\* In a frame both ends go on together, and the receiver ends first.
LEMMA FrameStep ==
  ASSUME TypeOK, Clock, NEW byte \in Byte, sent = <<byte>>, InFrame(byte)
  PROVE  LineInv'
<1>1. Transmit /\ Receive /\ Ghosts /\ cfg_divider' = cfg_divider BY DEF Clock
<1>2. /\ cfg_divider \in Nat \ {0} /\ Half \in 1 .. cfg_divider
      /\ 2 * Half > cfg_divider /\ \A clock \in Nat : clock < Half => 2 * clock <= cfg_divider
  BY HalfBit
<1>3. Half' = Half BY <1>1 DEF Half
<1>4. NBits \in Nat \ {0} /\ STOP = NBits + 2 BY UartAssumption DEF STOP
<1>5. recv_divcnt \in 0 .. cfg_divider + 1 BY DEF TypeOK
<1>6. ASSUME NEW bits \in 0 .. NBits + 1, NEW clock \in 0 .. cfg_divider + 1,
             Sends(byte, bits, clock)
      PROVE  /\ send_bitcnt # 0
             /\ clock <= cfg_divider => Sends(byte, bits, clock + 1)'
             /\ clock > cfg_divider => Sends(byte, bits + 1, 0)'
  BY <1>1, <1>6, SendsOn
<1>7. ASSUME send_bitcnt # 0, recv_state # STOP \/ recv_divcnt <= cfg_divider
      PROVE  sent' = <<byte>>
  <2>1. ~Arriving /\ ~Sending BY <1>2, <1>5, <1>7 DEF Arriving, Sending
  <2>. QED BY <1>1, <2>1 DEF Ghosts
<1>8. CASE recv_state = 0 /\ Sends(byte, 0, 0)
  <2>1. ser_rx = 0 BY <1>4, <1>8, BitOnLine DEF ser_rx, ser_tx, Sends
  <2>2. RecvIdle BY <1>1, <1>4, <1>8 DEF Receive, RecvStart, RecvWait, RecvBit, RecvStop
  <2>3. recv_state' = 1 /\ recv_divcnt' = 0 BY <2>1, <2>2 DEF RecvIdle
  <2>4. send_bitcnt # 0 /\ Sends(byte, 0, 0 + 1)' BY <1>2, <1>4, <1>6, <1>8
  <2>5. sent' = <<byte>> BY <1>4, <1>7, <1>8, <2>4
  <2>6. InFrame(byte)' BY <1>2, <1>3, <2>3, <2>4 DEF InFrame, Sends
  <2>. QED BY <2>5, <2>6 DEF LineInv
<1>9. CASE recv_state = 1 /\ recv_divcnt <= Half /\ Sends(byte, 0, recv_divcnt + 1)
  <2>1. RecvStart BY <1>1, <1>4, <1>9 DEF Receive, RecvIdle, RecvWait, RecvBit, RecvStop
  <2>2. recv_divcnt + 1 \in 0 .. cfg_divider + 1 BY <1>2, <1>5, <1>9
  <2>3. PICK clock \in 0 .. cfg_divider + 1 : clock = recv_divcnt + 1 BY <2>2
  <2>4. /\ send_bitcnt # 0
        /\ clock <= cfg_divider => Sends(byte, 0, clock + 1)'
        /\ clock > cfg_divider => Sends(byte, 0 + 1, 0)'
    BY <1>4, <1>6, <1>9, <2>3
  <2>5. sent' = <<byte>> BY <1>4, <1>7, <1>9, <2>4
  <2>6. CASE recv_divcnt < Half
    <3>1. 2 * recv_divcnt <= cfg_divider BY <1>2, <1>5, <2>6
    <3>2. recv_state' = 1 /\ recv_divcnt' = recv_divcnt + 1
      BY <1>2, <1>5, <2>1, <3>1 DEF RecvStart
    <3>3. Sends(byte, 0, clock + 1)' BY <1>2, <1>5, <2>3, <2>4, <2>6
    <3>4. InFrame(byte)' BY <1>2, <1>3, <1>5, <2>3, <2>6, <3>2, <3>3 DEF InFrame, Sends
    <3>. QED BY <2>5, <3>4 DEF LineInv
  <2>7. CASE recv_divcnt = Half
    <3>1. recv_state' = 2 /\ recv_divcnt' = 0 BY <1>2, <2>1, <2>7 DEF RecvStart
    <3>2. Received(byte, 0)' BY <1>4 DEF Received, BitPos
    <3>3. IF 0 < cfg_divider - Half THEN Sends(byte, 0, Half + 2)' ELSE Sends(byte, 1, 0)'
      <4>1. CASE Half < cfg_divider BY <1>2, <1>3, <2>3, <2>4, <2>7, <4>1
      <4>2. CASE Half = cfg_divider BY <1>2, <2>3, <2>4, <2>7, <4>2
      <4>. QED BY <1>2, <4>1, <4>2
    <3>4. InFrame(byte)' BY <1>1, <1>2, <1>3, <1>4, <3>1, <3>2, <3>3 DEF InFrame, Sends, Received
    <3>. QED BY <2>5, <3>4 DEF LineInv
  <2>. QED BY <1>2, <1>5, <1>9, <2>6, <2>7
<1>10. CASE /\ recv_state \in 2 .. STOP /\ Received(byte, recv_state - 2)
            /\ IF recv_divcnt < cfg_divider - Half
               THEN Sends(byte, recv_state - 2, recv_divcnt + Half + 2)
               ELSE Sends(byte, recv_state - 1, recv_divcnt - (cfg_divider - Half))
  <2> DEFINE early == recv_divcnt < cfg_divider - Half
  <2>1. PICK bits \in 0 .. NBits + 1, clock \in 0 .. cfg_divider + 1 :
          /\ Sends(byte, bits, clock)
          /\ early => bits = recv_state - 2 /\ clock = recv_divcnt + Half + 2
          /\ ~early => bits = recv_state - 1 /\ clock = recv_divcnt - (cfg_divider - Half)
    <3>1. CASE early
      <4>1. recv_state - 2 \in 0 .. NBits + 1 /\ recv_divcnt + Half + 2 \in 0 .. cfg_divider + 1
        BY <1>2, <1>4, <1>5, <1>10, <3>1
      <4>. QED BY <1>10, <3>1, <4>1
    <3>2. CASE ~early
      <4>1. /\ recv_state - 1 \in 0 .. NBits + 1
            /\ recv_divcnt - (cfg_divider - Half) \in 0 .. cfg_divider + 1
        BY <1>2, <1>4, <1>5, <1>10, <3>2
      <4>. QED BY <1>10, <3>2, <4>1
    <3>. QED BY <3>1, <3>2
  <2>2. /\ send_bitcnt # 0
        /\ clock <= cfg_divider => Sends(byte, bits, clock + 1)'
        /\ clock > cfg_divider => Sends(byte, bits + 1, 0)'
    BY <1>6, <2>1
  <2>3. CASE recv_divcnt <= cfg_divider
    <3>1. RecvWait
      BY <1>1, <1>2, <1>4, <1>5, <1>10, <2>3 DEF Receive, RecvIdle, RecvStart, RecvBit, RecvStop
    <3>2. recv_state' = recv_state /\ recv_divcnt' = recv_divcnt + 1 /\ recv_pattern' = recv_pattern
      BY <3>1 DEF RecvWait
    <3>3. Received(byte, recv_state - 2)' BY <1>10, <3>2 DEF Received
    <3>4. sent' = <<byte>> BY <1>7, <2>2, <2>3
    <3>5. /\ recv_divcnt' < cfg_divider' - Half' =>
               Sends(byte, recv_state - 2, recv_divcnt + Half + 2)'
          /\ ~(recv_divcnt' < cfg_divider' - Half') =>
               Sends(byte, recv_state - 1, recv_divcnt - (cfg_divider - Half))'
      <4>1. CASE recv_divcnt + 1 < cfg_divider - Half
        <5>1. early /\ clock <= cfg_divider BY <1>2, <1>5, <2>1, <4>1
        <5>2. Sends(byte, bits, clock + 1)' BY <2>2, <5>1
        <5>3. bits = recv_state' - 2 /\ clock + 1 = recv_divcnt' + Half' + 2
          BY <1>2, <1>3, <1>5, <2>1, <3>2, <5>1
        <5>. QED BY <1>1, <1>3, <3>2, <4>1, <5>2, <5>3
      <4>2. CASE recv_divcnt + 1 = cfg_divider - Half
        <5>1. early /\ clock > cfg_divider BY <1>2, <1>5, <2>1, <4>2
        <5>2. Sends(byte, bits + 1, 0)' BY <2>2, <5>1
        <5>3. bits + 1 = recv_state' - 1 /\ 0 = recv_divcnt' - (cfg_divider' - Half')
          BY <1>1, <1>2, <1>3, <1>4, <1>5, <1>10, <2>1, <3>2, <4>2, <5>1
        <5>4. ~(recv_divcnt' < cfg_divider' - Half') BY <1>1, <1>2, <1>3, <1>5, <3>2, <4>2
        <5>. QED BY <5>2, <5>3, <5>4
      <4>3. CASE recv_divcnt + 1 > cfg_divider - Half
        <5>1. ~early /\ clock <= cfg_divider BY <1>2, <1>5, <2>1, <2>3, <4>3
        <5>2. Sends(byte, bits, clock + 1)' BY <2>2, <5>1
        <5>3. bits = recv_state' - 1 /\ clock + 1 = recv_divcnt' - (cfg_divider' - Half')
          BY <1>1, <1>2, <1>3, <1>5, <2>1, <3>2, <5>1
        <5>4. ~(recv_divcnt' < cfg_divider' - Half') BY <1>1, <1>2, <1>3, <1>5, <3>2, <4>3
        <5>. QED BY <5>2, <5>3, <5>4
      <4>. QED BY <1>2, <1>5, <4>1, <4>2, <4>3
    <3>6. InFrame(byte)' BY <1>10, <3>2, <3>3, <3>5 DEF InFrame
    <3>. QED BY <3>4, <3>6 DEF LineInv
  <2>4. CASE recv_divcnt = cfg_divider + 1
    <3>1. ~early /\ bits = recv_state - 1 /\ clock = Half + 1 BY <1>2, <2>1, <2>4
    <3>2. CASE recv_state # STOP
      <4>1. RecvBit
        BY <1>1, <1>2, <1>4, <1>10, <2>4, <3>2 DEF Receive, RecvIdle, RecvStart, RecvWait, RecvStop
      <4>2. recv_state' = recv_state + 1 /\ recv_divcnt' = 0 BY <4>1 DEF RecvBit
      <4>3. sent' = <<byte>> BY <1>7, <2>2, <3>2
      <4>4. Received(byte, recv_state - 2)'
        <5>1. PICK n \in 0 .. NBits - 1 : n = recv_state - 2 BY <1>4, <1>10, <3>2
        <5>2. ser_rx = byte[n]
          <6>1. ser_rx = Shifted(byte, bits)[0] BY <2>1 DEF ser_rx, ser_tx, Sends
          <6>2. bits = n + 1 BY <1>10, <3>1, <5>1
          <6>. QED BY <1>4, <6>1, <6>2, BitOnLine
        <5>3. \A i \in BitPos : i >= NBits - n => recv_pattern[i] = byte[i - (NBits - n)]
          BY <1>10, <5>1 DEF Received
        <5>4. recv_pattern' = [i \in BitPos |-> IF i = NBits - 1 THEN byte[n] ELSE recv_pattern[i + 1]]
          BY <4>1, <5>2 DEF RecvBit
        <5>5. recv_pattern \in Byte BY DEF TypeOK
        <5>6. \A i \in BitPos : i >= NBits - (n + 1) => recv_pattern'[i] = byte[i - (NBits - (n + 1))]
          BY <5>3, <5>4, <5>5, BitReceived
        <5>7. recv_state' - 2 = n + 1 BY <1>10, <4>2, <5>1
        <5>. QED BY <5>6, <5>7 DEF Received
      <4>5. /\ recv_divcnt' < cfg_divider' - Half' =>
                 Sends(byte, recv_state - 2, recv_divcnt + Half + 2)'
            /\ ~(recv_divcnt' < cfg_divider' - Half') =>
                 Sends(byte, recv_state - 1, recv_divcnt - (cfg_divider - Half))'
        <5>1. CASE Half < cfg_divider
          <6>1. Sends(byte, bits, clock + 1)' BY <1>2, <2>2, <3>1, <5>1
          <6>2. bits = recv_state' - 2 /\ clock + 1 = recv_divcnt' + Half' + 2
            BY <1>2, <1>3, <1>10, <3>1, <4>2
          <6>3. recv_divcnt' < cfg_divider' - Half' BY <1>1, <1>2, <1>3, <4>2, <5>1
          <6>. QED BY <6>1, <6>2, <6>3
        <5>2. CASE Half = cfg_divider
          <6>1. Sends(byte, bits + 1, 0)' BY <1>2, <2>2, <3>1, <5>2
          <6>2. bits + 1 = recv_state' - 1 /\ 0 = recv_divcnt' - (cfg_divider' - Half')
            BY <1>1, <1>2, <1>3, <1>10, <3>1, <4>2, <5>2
          <6>3. ~(recv_divcnt' < cfg_divider' - Half') BY <1>1, <1>2, <1>3, <4>2, <5>2
          <6>. QED BY <6>1, <6>2, <6>3
        <5>. QED BY <1>2, <5>1, <5>2
      <4>6. recv_state' \in 2 .. STOP BY <1>4, <1>10, <3>2, <4>2
      <4>7. InFrame(byte)' BY <4>4, <4>5, <4>6 DEF InFrame
      <4>. QED BY <4>3, <4>7 DEF LineInv
    <3>3. CASE recv_state = STOP
      <4>1. RecvStop
        BY <1>1, <1>2, <1>4, <2>4, <3>3 DEF Receive, RecvIdle, RecvStart, RecvWait, RecvBit
      <4>2. recv_state' = 0 BY <4>1 DEF RecvStop
      <4>3. sent' = <<>>
        <5>1. Arriving /\ ~Sending BY <1>2, <2>2, <2>4, <3>3 DEF Arriving, Sending
        <5>2. sent' = Tail(<<byte>>) \o <<>> BY <1>1, <5>1 DEF Ghosts
        <5>. QED BY <5>2
      <4>4. bits = NBits + 1 BY <1>4, <3>1, <3>3
      <4>5. send_pattern' = Ones
        <5>1. NBits + 1 \in NBits + 1 .. NBits + 2 /\ bits + 1 \in NBits + 1 .. NBits + 2
          BY <1>4, <4>4
        <5>2. clock <= cfg_divider \/ clock > cfg_divider BY <1>2
        <5>. QED BY <2>2, <4>4, <5>1, <5>2, FrameEnds DEF Sends
      <4>. QED BY <4>2, <4>3, <4>5 DEF LineInv
    <3>. QED BY <3>2, <3>3
  <2>. QED BY <1>2, <1>5, <2>3, <2>4
<1>. QED BY <1>8, <1>9, <1>10 DEF InFrame

LEMMA LineStep == TypeOK /\ LineInv /\ [Next]_vars => LineInv'
<1> SUFFICES ASSUME TypeOK, LineInv, [Next]_vars PROVE LineInv' OBVIOUS
<1>1. CASE Clock BY <1>1, RestStep, FrameStep DEF LineInv
<1>2. CASE Reset BY <1>2 DEF Reset, LineInv
<1>3. CASE UNCHANGED vars
  BY <1>3 DEF vars, sysVars, sendVars, recvVars, LineInv, InFrame, Received, Sends, Half
<1>. QED BY <1>1, <1>2, <1>3 DEF Next

-------------------------------------------------------------------------------
(* The theorems *)

\* Types, and the margin: the countdown outlasts the frame it stands for.
THEOREM Invariant == Spec => []IInv
<1>1. Init => IInv
  <2> SUFFICES ASSUME Init PROVE IInv OBVIOUS
  <2>1. [valid |-> FALSE, data |-> Zero] \in [valid : BOOLEAN, data : Byte] BY Constants
  <2>2. <<>> \in Seq(Byte) OBVIOUS
  <2>3. TypeOK BY <2>1, <2>2, Constants, UartAssumption DEF Init, TypeOK
  <2>4. Margin BY DEF Init, Margin
  <2>. QED BY <2>3, <2>4 DEF IInv
<1>2. IInv /\ [Next]_vars => IInv'
  BY StepTypes, MarginStep DEF IInv
<1>. QED BY <1>1, <1>2, PTL DEF Spec

\* Once the idle frame after reset is over, a byte that passes tx_busy always finds the
\* shifter at rest, for every divider and frame the hold time covers.
THEOREM DropsAreAfterReset == Spec => []DropsOnlyAfterReset
<1>1. IInv => DropsOnlyAfterReset BY DEF IInv, Margin, DropsOnlyAfterReset
<1>. QED BY <1>1, Invariant, PTL

\* Every register keeps its range: the counters of both directions never run past the
\* bit they time.
THEOREM TypeCorrect == Spec => []TypeOK
<1>1. IInv => TypeOK BY DEF IInv
<1>. QED BY <1>1, Invariant, PTL

\* Both directions go through a frame together, at a distance that is the same for
\* every bit: half a bit, rounded up, and what the receiver needs to see the start.
THEOREM LineInvariant == Spec => []LineInv
<1>1. Init => LineInv BY DEF Init, LineInv
<1>2. IInv => TypeOK BY DEF IInv
<1>. QED BY <1>1, <1>2, LineStep, Invariant, PTL DEF Spec

\* Every frame the receiver completes is the byte that entered the line longest ago,
\* for any divider but 0 and any number of data bits.
THEOREM BytesArriveAsSent == Spec => Delivered
<1>1. ASSUME TypeOK, LineInv, [Next]_vars
      PROVE  [RecvStop => sent # <<>> /\ recv_buf_data' = Head(sent)]_vars
  <2> SUFFICES ASSUME RecvStop PROVE sent # <<>> /\ recv_buf_data' = Head(sent) OBVIOUS
  <2>1. recv_state = STOP /\ STOP = NBits + 2 /\ NBits \in Nat /\ recv_buf_data' = recv_pattern
    BY UartAssumption DEF RecvStop, STOP
  <2>2. PICK byte \in Byte : sent = <<byte>> /\ Received(byte, NBits)
    <3>1. STOP - 2 = NBits BY <2>1
    <3>. QED BY <1>1, <2>1, <3>1 DEF LineInv, InFrame
  <2>3. recv_pattern = byte
    <3>1. recv_pattern \in Byte BY <1>1 DEF TypeOK
    <3>2. \A i \in BitPos : i >= NBits - NBits /\ i - (NBits - NBits) = i BY <2>1 DEF BitPos
    <3>3. \A i \in BitPos : recv_pattern[i] = byte[i] BY <2>2, <3>2 DEF Received
    <3>. QED BY <3>1, <3>3 DEF Byte
  <2>. QED BY <2>1, <2>2, <2>3
<1>2. IInv => TypeOK BY DEF IInv
<1>. QED BY <1>1, <1>2, LineInvariant, Invariant, PTL DEF Spec, Delivered
===============================================================================
