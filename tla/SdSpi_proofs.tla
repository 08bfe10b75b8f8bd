------------------------------ MODULE SdSpi_proofs ------------------------------
(***************************************************************************)
(* The SD card port for bytes of any width and dividers of any size: the   *)
(* wires keep the rules of SPI mode 0, the two ends count bits alike, and  *)
(* every call of spi_xfer is one exchange with the card (SpiExchange).     *)
(* All of it rests on what the software does, which starts a transfer only *)
(* when the last one is over and touches nothing while one runs            *)
(* (Handshake); the exchange also on what the two shift registers hold at  *)
(* every bit of a transfer (Carried).                                      *)
(***************************************************************************)
EXTENDS SdSpi, TLAPS

\* A transfer is on its way only while spi_xfer waits for it; the sticky flag is
\* down all the while, also in the cycle in which done says it is over; and the
\* processor is off the bus in the one cycle between the write and the start.
Handshake ==
  /\ sdspi_start \/ busy \/ done => pc = "wait_done"
  /\ sdspi_start => quiet /\ ~busy /\ ~done
  /\ busy \/ done => ~sdspi_done_sticky
  /\ busy => ~done

\* The card is at the bit the master is at, and at the first one in between.
BitsAgree ==
  /\ busy /\ ~sdspi_cs_n => card_bit = bitpos
  /\ ~busy \/ sdspi_cs_n => card_bit = NBits - 1

IInv == TypeOK /\ Handshake /\ BitsAgree

-------------------------------------------------------------------------------
(* Types *)

LEMMA Bytes == xFF \in Byte /\ x00 \in Byte /\ NBits - 1 \in BitPos /\ 0 \in BitPos
  BY SpiAssumption DEF xFF, x00, Byte, BitPos

LEMMA Divs == 0 \in 0..MaxDiv /\ MaxDiv \in 0..MaxDiv
  BY SpiAssumption

LEMMA InitTypes == Init => TypeOK
<1> SUFFICES ASSUME Init PROVE TypeOK OBVIOUS
<1>1. SpiTypeOK BY Bytes, Divs DEF Init, SpiInit, SpiTypeOK
<1>2. sdspi_clkdiv \in 0..MaxDiv /\ pc \in Pcs BY Divs DEF Init, Pcs
<1>. QED BY <1>1, <1>2, Bytes DEF Init, TypeOK

LEMMA SettingBit ==
  ASSUME NEW x \in Byte, NEW i \in BitPos, NEW b \in {0, 1}
  PROVE  [x EXCEPT ![i] = b] \in Byte
  BY DEF Byte

LEMMA Bit ==
  ASSUME NEW x \in Byte, NEW i \in BitPos
  PROVE  x[i] \in {0, 1}
  BY DEF Byte

\* What the card sends is a bit, selected or not.
LEMMA MisoIsBit == TypeOK => spi_miso \in {0, 1}
  BY Bit, PayloadAssumption DEF TypeOK, spi_miso

LEMMA ClockTypes ==
  ASSUME TypeOK, Clock
  PROVE  SpiTypeOK' /\ sdspi_done_sticky' \in BOOLEAN /\ sdspi_rx_data_reg' \in Byte
<1> USE SpiAssumption DEF TypeOK, SpiTypeOK
<1>1. sdspi_done_sticky' \in BOOLEAN /\ sdspi_rx_data_reg' \in Byte
  BY DEF Clock, Sticky
<1>2. CASE SpiStart(sdspi_start, sdspi_tx_data, sdspi_clkdiv)
  <2>1. sdspi_tx_data[NBits - 1] \in {0, 1} BY Bit, Bytes
  <2>. QED BY <1>1, <1>2, <2>1, Bytes DEF SpiStart
<1>3. CASE SpiIdle(sdspi_start)
  BY <1>1, <1>3 DEF SpiIdle
<1>4. CASE SpiCount
  <2>1. divcnt - 1 \in 0..MaxDiv BY <1>4 DEF SpiCount
  <2>. QED BY <1>1, <1>4, <2>1 DEF SpiCount
<1>5. CASE SpiRise(sdspi_clkdiv, spi_miso)
  <2>1. rx_shift' \in Byte BY <1>5, SettingBit, MisoIsBit DEF SpiRise
  <2>. QED BY <1>1, <1>5, <2>1 DEF SpiRise
<1>6. CASE SpiFall(sdspi_clkdiv)
  <2>1. bitpos - 1 \in BitPos BY <1>6 DEF SpiFall, BitPos
  <2>2. tx_latch[bitpos - 1] \in {0, 1} BY <2>1, Bit
  <2>. QED BY <1>1, <1>6, <2>1, <2>2 DEF SpiFall
<1>7. CASE SpiFinish(sdspi_clkdiv)
  BY <1>1, <1>7 DEF SpiFinish
<1>. QED BY <1>2, <1>3, <1>4, <1>5, <1>6, <1>7 DEF Clock, SpiClock

LEMMA CardTypes ==
  ASSUME TypeOK, Card, spi_mosi \in {0, 1}
  PROVE  /\ card_out' \in Payload /\ card_in' \in Byte /\ card_bit' \in BitPos
         /\ heard' \in Byte /\ gave' \in Byte
<1> USE SpiAssumption DEF TypeOK
<1>1. CASE CardListen
  BY <1>1, SettingBit DEF CardListen
<1>2. CASE CardShift
  BY <1>2 DEF CardShift, BitPos
<1>3. CASE CardByte
  BY <1>3, Bytes, PayloadAssumption DEF CardByte
<1>4. CASE CardDeselect
  BY <1>4, Bytes DEF CardDeselect
<1>5. CASE UNCHANGED cardVars
  BY <1>5 DEF cardVars
<1>. QED BY <1>1, <1>2, <1>3, <1>4, <1>5 DEF Card

\* What the processor does to the registers keeps their types.
LEMMA ProcessorTypes ==
  ASSUME TypeOK, Processor
  PROVE  /\ Clock
         /\ sdspi_tx_data' \in Byte /\ sdspi_clkdiv' \in 0..MaxDiv
         /\ sdspi_start' \in BOOLEAN /\ sdspi_cs_n' \in BOOLEAN
         /\ pc' \in Pcs /\ tx' \in Byte /\ result' \in Byte /\ quiet' \in BOOLEAN
<1> USE DEF TypeOK, NoWrite, Access, Pcs
<1>1. CASE Think BY <1>1 DEF Think
<1>2. CASE SetCs BY <1>2 DEF SetCs, WriteCs
<1>3. CASE SetClkdiv BY <1>3 DEF SetClkdiv, WriteClkdiv
<1>4. CASE Call BY <1>4, PayloadAssumption DEF Call
<1>5. CASE WaitBusy BY <1>5 DEF WaitBusy
<1>6. CASE Send BY <1>6 DEF Send, WriteData, SpiTypeOK
<1>7. CASE WaitDone BY <1>7 DEF WaitDone
<1>8. CASE Receive BY <1>8 DEF Receive
<1>. QED BY <1>1, <1>2, <1>3, <1>4, <1>5, <1>6, <1>7, <1>8 DEF Processor, Host

LEMMA StepTypes == TypeOK /\ Next => TypeOK'
<1>1. ASSUME TypeOK, Step PROVE TypeOK'
  <2>1. spi_mosi \in {0, 1} BY <1>1 DEF spi_mosi, TypeOK, SpiTypeOK
  <2>. QED BY <1>1, <2>1, ClockTypes, CardTypes, ProcessorTypes DEF Step, TypeOK
<1>2. ASSUME TypeOK, Reset PROVE TypeOK'
  <2>1. SpiTypeOK' BY <1>2, Bytes, Divs DEF Reset, SpiReset, SpiTypeOK
  <2>2. sdspi_clkdiv' \in 0..MaxDiv /\ pc' \in Pcs BY <1>2, Divs DEF Reset, Pcs
  <2>. QED BY <1>2, <2>1, <2>2, Bytes DEF Reset, CardDeselect, TypeOK
<1>. QED BY <1>1, <1>2 DEF Next

-------------------------------------------------------------------------------
(* The handshake *)

LEMMA ClockHandshake ==
  ASSUME TypeOK, Clock
  PROVE  /\ busy' => busy \/ sdspi_start
         /\ done' => busy /\ ~busy'
         /\ sdspi_done_sticky' = (done \/ (sdspi_done_sticky /\ ~sdspi_start))
  BY DEF TypeOK, SpiTypeOK, Clock, Sticky, SpiClock, SpiStart, SpiIdle, SpiCount, SpiRise,
         SpiFall, SpiFinish

LEMMA StepHandshake ==
  ASSUME TypeOK, Handshake, Processor
  PROVE  Handshake'
<1> USE ClockHandshake DEF TypeOK, SpiTypeOK, Handshake, NoWrite, Access
<1>1. CASE Think BY <1>1 DEF Think
<1>2. CASE SetCs BY <1>2 DEF SetCs, WriteCs
<1>3. CASE SetClkdiv BY <1>3 DEF SetClkdiv, WriteClkdiv
<1>4. CASE Call BY <1>4 DEF Call
<1>5. CASE WaitBusy BY <1>5 DEF WaitBusy
<1>6. CASE Send BY <1>6 DEF Send, WriteData
<1>7. CASE WaitDone BY <1>7 DEF WaitDone
<1>8. CASE Receive BY <1>8 DEF Receive
<1>. QED BY <1>1, <1>2, <1>3, <1>4, <1>5, <1>6, <1>7, <1>8 DEF Processor, Host

\* Chip select and divider change only between transfers.
LEMMA QuietChange ==
  ASSUME TypeOK, Handshake, Processor
  PROVE  sdspi_cs_n' # sdspi_cs_n \/ sdspi_clkdiv' # sdspi_clkdiv => ~busy /\ ~sdspi_start
<1> USE DEF NoWrite, Access, Handshake
<1>1. CASE SetCs \/ SetClkdiv BY <1>1 DEF SetCs, SetClkdiv
<1>2. CASE Think \/ Call \/ Host
  BY <1>2 DEF Think, Call, Host, WaitBusy, Send, WaitDone, Receive, WriteData
<1>. QED BY <1>1, <1>2 DEF Processor

-------------------------------------------------------------------------------
(* The wires *)

LEMMA StepMode0 ==
  ASSUME TypeOK, Handshake, Step
  PROVE  /\ spi_sck' = 1 => spi_mosi' = spi_mosi
         /\ sdspi_cs_n' # sdspi_cs_n \/ sdspi_clkdiv' # sdspi_clkdiv
              => ~busy /\ ~sdspi_start /\ spi_sck = 0
<1>1. Clock BY ProcessorTypes DEF Step
<1>2. spi_sck' = 1 => spi_mosi' = spi_mosi
  BY <1>1 DEF TypeOK, SpiTypeOK, Clock, SpiClock, SpiStart, SpiIdle, SpiCount, SpiRise, SpiFall,
              SpiFinish, spi_sck, spi_mosi
<1>. QED BY <1>2, QuietChange DEF Step, spi_sck

LEMMA StepBits ==
  ASSUME IInv, Step
  PROVE  BitsAgree'
<1> USE SpiAssumption DEF IInv, TypeOK, SpiTypeOK, BitsAgree
<1>1. Clock /\ Card BY ProcessorTypes DEF Step
<1>2. sdspi_cs_n' # sdspi_cs_n => ~busy /\ ~sdspi_start BY QuietChange DEF Step
<1>3. CASE sdspi_cs_n' /\ ~sdspi_cs_n
  <2>1. CardDeselect BY <1>1, <1>3 DEF Card
  <2>2. ~busy' BY <1>1, <1>2, <1>3, ClockHandshake
  <2>. QED BY <1>3, <2>1, <2>2 DEF CardDeselect
<1>4. CASE sdspi_cs_n
  <2>1. card_bit' = card_bit BY <1>1, <1>4 DEF Card, cardVars
  <2>2. ~sdspi_cs_n' => ~busy' BY <1>1, <1>2, <1>4, ClockHandshake
  <2>. QED BY <1>4, <2>1, <2>2
<1>5. CASE ~sdspi_cs_n /\ ~sdspi_cs_n'
  <2>1. CASE SpiStart(sdspi_start, sdspi_tx_data, sdspi_clkdiv)
    <3>1. spi_sck' = spi_sck BY <2>1 DEF SpiStart, spi_sck
    <3>. QED BY <1>1, <1>5, <2>1, <3>1 DEF SpiStart, Card, cardVars
  <2>2. CASE SpiIdle(sdspi_start) \/ SpiCount
    <3>1. spi_sck' = spi_sck BY <2>2 DEF SpiIdle, SpiCount, spi_sck
    <3>. QED BY <1>1, <1>5, <2>2, <3>1 DEF SpiIdle, SpiCount, Card, cardVars
  <2>3. CASE SpiRise(sdspi_clkdiv, spi_miso)
    <3>1. spi_sck = 0 /\ spi_sck' = 1 BY <2>3 DEF SpiRise, spi_sck
    <3>. QED BY <1>1, <1>5, <2>3, <3>1 DEF SpiRise, Card, CardListen
  <2>4. CASE SpiFall(sdspi_clkdiv)
    <3>1. spi_sck = 1 /\ spi_sck' = 0 BY <2>4 DEF SpiFall, spi_sck
    <3>. QED BY <1>1, <1>5, <2>4, <3>1 DEF SpiFall, Card, CardShift, CardByte
  <2>5. CASE SpiFinish(sdspi_clkdiv)
    <3>1. spi_sck = 1 /\ spi_sck' = 0 BY <2>5 DEF SpiFinish, spi_sck
    <3>. QED BY <1>1, <1>5, <2>5, <3>1 DEF SpiFinish, Card, CardShift, CardByte
  <2>. QED BY <1>1, <2>1, <2>2, <2>3, <2>4, <2>5 DEF Clock, SpiClock
<1>. QED BY <1>3, <1>4, <1>5

-------------------------------------------------------------------------------
(* The theorems *)

\* The inductive invariant: a transfer runs only while spi_xfer waits for it, and
\* the card is at the bit the master is at.
THEOREM Invariant == Spec => []IInv
<1>1. Init => IInv
  BY InitTypes DEF IInv, Init, SpiInit, Handshake, BitsAgree
<1>2. IInv /\ [Next]_vars => IInv'
  <2> SUFFICES ASSUME IInv, [Next]_vars PROVE IInv' OBVIOUS
  <2>1. CASE Step
    <3>1. TypeOK' BY <2>1, StepTypes DEF IInv, Next
    <3>2. Handshake' BY <2>1, StepHandshake DEF IInv, Step
    <3>3. BitsAgree' BY <2>1, StepBits
    <3>. QED BY <3>1, <3>2, <3>3 DEF IInv
  <2>2. CASE Reset
    <3>1. TypeOK' BY <2>2, StepTypes DEF IInv, Next
    <3>. QED BY <2>2, <3>1 DEF Reset, SpiReset, CardDeselect, IInv, Handshake, BitsAgree
  <2>3. CASE UNCHANGED vars
    BY <2>3 DEF vars, spiVars, regVars, hostVars, cardVars, IInv, TypeOK, SpiTypeOK, Handshake,
                BitsAgree
  <2>. QED BY <2>1, <2>2, <2>3 DEF Next
<1>. QED BY <1>1, <1>2, PTL DEF Spec

\* Both ends count bits alike during a transfer, and every register keeps its range.
THEOREM EndsInStep == Spec => []InStep
<1>1. IInv => InStep BY DEF IInv, InStep, BitsAgree
<1>. QED BY <1>1, Invariant, PTL

\* The data line is at rest on rising edges and while SCK is high; chip select and
\* divider change only between transfers, whatever the width of a byte.
THEOREM WiresKeepMode0 == Spec => Mode0
<1>1. IInv /\ [Next]_vars =>
        [Step => /\ spi_sck' = 1 => spi_mosi' = spi_mosi
                 /\ sdspi_cs_n' # sdspi_cs_n \/ sdspi_clkdiv' # sdspi_clkdiv
                      => ~busy /\ ~sdspi_start /\ spi_sck = 0]_vars
  BY StepMode0 DEF IInv
<1>. QED BY <1>1, Invariant, PTL DEF Spec, Mode0
-------------------------------------------------------------------------------
(* The data on its way *)

\* The bits that have been sampled so far in the running transfer.
BitsOver == {i \in BitPos : i > bitpos \/ (i = bitpos /\ sck_reg = 1)}

\* What the line gives the master, bit by bit, and what a finished exchange gave.
Line == IF sdspi_cs_n THEN xFF ELSE card_out
Reply == IF sdspi_cs_n THEN xFF ELSE gave

\* The master sends the argument of the call, its current bit on the line.
Sends ==
  /\ sdspi_start => sdspi_tx_data = tx
  /\ busy => tx_latch = tx /\ mosi_reg = tx[bitpos]

\* Every bit that is over has arrived at both ends.
Gathers ==
  busy => \A i \in BitsOver :
            /\ rx_shift[i] = Line[i]
            /\ ~sdspi_cs_n => card_in[i] = tx[i]

\* After the last bit the reply is in one of two places, the pulse says in which,
\* and the card has heard the argument.
Answers ==
  phase = "answered" =>
    /\ done => rx_data = Reply
    /\ ~done => sdspi_done_sticky /\ sdspi_rx_data_reg = Reply
    /\ ~sdspi_cs_n => heard = tx

Carried == Sends /\ Gathers /\ Answers

\* A call keeps its argument and its chip select, starts the port once, and goes
\* to receive only by an access that finds the sticky flag up.
LEMMA CallKeeps ==
  ASSUME TypeOK, Handshake, Processor
  PROVE  /\ sdspi_start' => pc = "send" /\ pc' = "wait_done" /\ sdspi_tx_data' = tx
         /\ pc # "idle" => tx' = tx /\ sdspi_cs_n' = sdspi_cs_n
         /\ pc = "send" /\ pc' = "wait_done" => sdspi_start'
         /\ pc' = "wait_done" => pc = "send" \/ pc = "wait_done"
         /\ pc' = "receive" => pc = "receive" \/ (pc = "wait_done" /\ sdspi_done_sticky /\ ~quiet)
<1> USE DEF TypeOK, SpiTypeOK, Handshake, NoWrite, Access, Pcs
<1>1. CASE Think BY <1>1 DEF Think
<1>2. CASE SetCs BY <1>2 DEF SetCs, WriteCs
<1>3. CASE SetClkdiv BY <1>3 DEF SetClkdiv, WriteClkdiv
<1>4. CASE Call BY <1>4 DEF Call
<1>5. CASE WaitBusy BY <1>5 DEF WaitBusy
<1>6. CASE Send BY <1>6 DEF Send, WriteData
<1>7. CASE WaitDone BY <1>7 DEF WaitDone
<1>8. CASE Receive BY <1>8 DEF Receive
<1>. QED BY <1>1, <1>2, <1>3, <1>4, <1>5, <1>6, <1>7, <1>8 DEF Processor, Host

LEMMA StepSends ==
  ASSUME IInv, Sends, Step
  PROVE  Sends'
<1> USE SpiAssumption DEF IInv, Sends
<1>1. Clock /\ Processor BY ProcessorTypes DEF Step
<1>2. sdspi_start' => sdspi_tx_data' = tx'
  <2> SUFFICES ASSUME sdspi_start' PROVE sdspi_tx_data' = tx' OBVIOUS
  <2>1. pc = "send" /\ sdspi_tx_data' = tx BY <1>1, CallKeeps
  <2>. QED BY <1>1, <2>1, CallKeeps
<1>3. sdspi_start \/ busy => tx' = tx BY <1>1, CallKeeps DEF Handshake
<1>4. busy' => tx_latch' = tx' /\ mosi_reg' = tx'[bitpos']
  <2>1. CASE SpiStart(sdspi_start, sdspi_tx_data, sdspi_clkdiv)
    BY <1>3, <2>1 DEF SpiStart
  <2>2. CASE SpiIdle(sdspi_start) \/ SpiFinish(sdspi_clkdiv)
    BY <2>2 DEF SpiIdle, SpiFinish
  <2>3. CASE SpiCount \/ SpiRise(sdspi_clkdiv, spi_miso)
    BY <1>3, <2>3 DEF SpiCount, SpiRise
  <2>4. CASE SpiFall(sdspi_clkdiv)
    BY <1>3, <2>4 DEF SpiFall
  <2>. QED BY <1>1, <2>1, <2>2, <2>3, <2>4 DEF Clock, SpiClock
<1>. QED BY <1>2, <1>4

\* Between the edges, and on every edge but the two that sample a bit or end a
\* byte, the card keeps what it holds.
LEMMA CardRests ==
  ASSUME Card, sdspi_cs_n' = sdspi_cs_n, sdspi_cs_n \/ spi_sck' = spi_sck
  PROVE  UNCHANGED cardVars
  BY DEF Card

LEMMA StepGathers ==
  ASSUME IInv, Sends, Gathers, Step
  PROVE  Gathers'
<1> USE SpiAssumption DEF IInv, TypeOK, SpiTypeOK
<1>1. Clock /\ Processor /\ Card BY ProcessorTypes DEF Step
<1>2. sdspi_start \/ busy => tx' = tx /\ sdspi_cs_n' = sdspi_cs_n
  BY <1>1, CallKeeps DEF Handshake
<1>3. CASE SpiStart(sdspi_start, sdspi_tx_data, sdspi_clkdiv)
  <2>1. BitsOver' = {} BY <1>3 DEF SpiStart, BitsOver, BitPos
  <2>. QED BY <2>1 DEF Gathers
<1>4. CASE SpiIdle(sdspi_start) \/ SpiFinish(sdspi_clkdiv)
  BY <1>4 DEF SpiIdle, SpiFinish, Gathers
<1>5. CASE SpiCount
  <2>1. spi_sck' = spi_sck BY <1>5 DEF SpiCount, spi_sck
  <2>2. UNCHANGED cardVars BY <1>1, <1>2, <1>5, <2>1, CardRests DEF SpiCount
  <2>3. BitsOver' = BitsOver BY <1>5 DEF SpiCount, BitsOver
  <2>4. Line' = Line BY <1>2, <1>5, <2>2 DEF SpiCount, Line, cardVars
  <2>. QED BY <1>2, <1>5, <2>2, <2>3, <2>4 DEF SpiCount, Gathers, cardVars
<1>6. CASE SpiRise(sdspi_clkdiv, spi_miso)
  <2>1. BitsOver' = BitsOver \cup {bitpos} BY <1>6 DEF SpiRise, BitsOver
  <2>2. spi_sck = 0 /\ spi_sck' = 1 BY <1>6 DEF SpiRise, spi_sck
  <2>3. Line' = Line /\ Line \in Byte
    BY <1>1, <1>2, <1>6, <2>2, Bytes, PayloadAssumption DEF SpiRise, Line, Card, CardListen, cardVars
  <2>4. spi_miso = Line[bitpos]
    BY <1>6 DEF SpiRise, spi_miso, Line, BitsAgree, xFF
  <2>5. \A i \in BitsOver' : rx_shift'[i] = Line'[i]
    BY <1>6, <2>1, <2>3, <2>4 DEF SpiRise, Gathers, Byte, BitsOver
  <2>6. ASSUME ~sdspi_cs_n PROVE \A i \in BitsOver' : card_in'[i] = tx'[i]
    <3>1. CardListen BY <1>1, <1>2, <1>6, <2>2, <2>6 DEF Card, SpiRise
    <3>2. card_bit = bitpos /\ spi_mosi = tx[bitpos]
      BY <1>6, <2>6 DEF SpiRise, BitsAgree, Sends, spi_mosi
    <3>. QED BY <1>2, <1>6, <2>1, <2>6, <3>1, <3>2 DEF SpiRise, CardListen, Gathers, Byte, BitsOver
  <2>. QED BY <1>2, <1>6, <2>5, <2>6 DEF SpiRise, Gathers
<1>7. CASE SpiFall(sdspi_clkdiv)
  <2>1. BitsOver' = BitsOver BY <1>7 DEF SpiFall, BitsOver, BitPos
  <2>2. card_in' = card_in /\ card_out' = card_out
    BY <1>1, <1>2, <1>7 DEF SpiFall, Card, CardShift, CardByte, cardVars, BitsAgree, spi_sck
  <2>3. Line' = Line BY <1>2, <1>7, <2>2 DEF SpiFall, Line
  <2>. QED BY <1>2, <1>7, <2>1, <2>2, <2>3 DEF SpiFall, Gathers
<1>. QED BY <1>1, <1>3, <1>4, <1>5, <1>6, <1>7 DEF Clock, SpiClock

\* When the last bit is over, the master holds what the card gave and the card
\* what the master sent.
LEMMA LastBit ==
  ASSUME IInv, Sends, Gathers, SpiFinish(sdspi_clkdiv)
  PROVE  rx_shift = Line /\ (~sdspi_cs_n => card_in = tx)
<1> USE SpiAssumption DEF IInv, TypeOK, SpiTypeOK
<1>1. BitsOver = BitPos BY DEF SpiFinish, BitsOver, BitPos
<1>2. Line \in Byte BY Bytes, PayloadAssumption DEF Line
<1>3. \A i \in BitPos : rx_shift[i] = Line[i] /\ (~sdspi_cs_n => card_in[i] = tx[i])
  BY <1>1 DEF SpiFinish, Gathers
<1>4. rx_shift = Line BY <1>2, <1>3 DEF Byte
<1>5. ~sdspi_cs_n => card_in = tx BY <1>3 DEF Byte
<1>. QED BY <1>4, <1>5

\* What the end of a transfer does: the pulse comes with the reply, and the card
\* has heard the argument, or nothing at all.
LEMMA ByteIsOver ==
  ASSUME IInv, Sends, Gathers, Step, SpiFinish(sdspi_clkdiv)
  PROVE  /\ done' /\ rx_data' = Reply'
         /\ heard' = IF sdspi_cs_n THEN heard ELSE tx
         /\ tx' = tx /\ sdspi_cs_n' = sdspi_cs_n
<1> USE SpiAssumption DEF IInv, TypeOK, SpiTypeOK
<1>1. Clock /\ Processor /\ Card BY ProcessorTypes DEF Step
<1>2. tx' = tx /\ sdspi_cs_n' = sdspi_cs_n
  BY <1>1, CallKeeps DEF Handshake, SpiFinish
<1>3. done' /\ rx_data' = Line BY LastBit DEF SpiFinish
<1>4. CASE sdspi_cs_n
  BY <1>1, <1>2, <1>3, <1>4, CardRests DEF Line, Reply, cardVars
<1>5. CASE ~sdspi_cs_n
  <2>1. CardByte
    BY <1>1, <1>2, <1>5 DEF SpiFinish, Card, CardShift, BitsAgree, spi_sck
  <2>. QED BY <1>2, <1>3, <1>5, <2>1, LastBit DEF CardByte, Line, Reply
<1>. QED BY <1>2, <1>4, <1>5

\* Nothing happens to an answer before it is taken.
LEMMA AnswerWaits ==
  ASSUME IInv, Answers, Step, phase = "answered"
  PROVE  /\ ~busy' /\ ~done' /\ UNCHANGED <<heard, gave, sdspi_cs_n, tx>>
         /\ sdspi_done_sticky' /\ sdspi_rx_data_reg' = Reply
<1> USE DEF IInv, TypeOK, SpiTypeOK
<1>1. Clock /\ Processor /\ Card BY ProcessorTypes DEF Step
<1>2. ~busy /\ ~sdspi_start /\ pc # "idle" BY DEF phase, Handshake, Pcs
<1>3. ~busy' /\ ~done' BY <1>1, <1>2, ClockHandshake
<1>4. UNCHANGED <<sdspi_cs_n, tx>> BY <1>1, <1>2, CallKeeps
<1>5. UNCHANGED <<heard, gave>>
  <2>1. spi_sck' = spi_sck BY <1>2, <1>3 DEF spi_sck
  <2>. QED BY <1>1, <1>4, <2>1, CardRests DEF cardVars
<1>6. sdspi_done_sticky' BY <1>1, <1>2, ClockHandshake DEF Answers
<1>7. sdspi_rx_data_reg' = Reply BY <1>1 DEF Answers, Clock, Sticky
<1>. QED BY <1>3, <1>4, <1>5, <1>6, <1>7

\* The exchange is over when the transfer is, and not before.
LEMMA PhaseStep ==
  ASSUME IInv, Step, phase' = "answered"
  PROVE  phase = "answered" \/ SpiFinish(sdspi_clkdiv)
<1> USE DEF IInv, TypeOK, SpiTypeOK, Handshake
<1>1. Clock /\ Processor BY ProcessorTypes DEF Step
<1>2. pc' = "wait_done" \/ pc' = "receive" BY StepTypes DEF phase, Pcs, Next
<1>3. CASE pc' = "receive"
  BY <1>1, <1>3, CallKeeps DEF phase
<1>4. CASE pc' = "wait_done"
  <2>1. ~sdspi_start' /\ ~busy' BY <1>4 DEF phase
  <2>2. pc = "wait_done" BY <1>1, <1>4, <2>1, CallKeeps
  <2>3. CASE sdspi_start
    BY <1>1, <2>1, <2>3 DEF Clock, SpiClock, SpiStart, SpiIdle, SpiCount, SpiRise, SpiFall, SpiFinish
  <2>4. CASE busy
    BY <1>1, <2>1, <2>4 DEF Clock, SpiClock, SpiStart, SpiIdle, SpiCount, SpiRise, SpiFall
  <2>5. CASE ~sdspi_start /\ ~busy
    BY <2>2, <2>5 DEF phase
  <2>. QED BY <2>3, <2>4, <2>5
<1>. QED BY <1>2, <1>3, <1>4

LEMMA StepAnswers ==
  ASSUME IInv, Carried, Step
  PROVE  Answers'
<1> SUFFICES ASSUME phase' = "answered"
             PROVE  /\ done' => rx_data' = Reply'
                    /\ ~done' => sdspi_done_sticky' /\ sdspi_rx_data_reg' = Reply'
                    /\ ~sdspi_cs_n' => heard' = tx'
  BY DEF Answers
<1>1. CASE phase = "answered"
  BY <1>1, AnswerWaits DEF Carried, Answers, Reply
<1>2. CASE SpiFinish(sdspi_clkdiv)
  BY <1>2, ByteIsOver DEF Carried
<1>. QED BY <1>1, <1>2, PhaseStep

THEOREM DataInvariant == Spec => [](IInv /\ Carried)
<1>1. Init => Carried
  BY DEF Init, SpiInit, Carried, Sends, Gathers, Answers, phase
<1>2. IInv /\ Carried /\ [Next]_vars => Carried'
  <2> SUFFICES ASSUME IInv, Carried, [Next]_vars PROVE Carried' OBVIOUS
  <2>1. CASE Step
    BY <2>1, StepSends, StepGathers, StepAnswers DEF Carried
  <2>2. CASE Reset
    BY <2>2 DEF Reset, SpiReset, Carried, Sends, Gathers, Answers, phase
  <2>3. CASE UNCHANGED vars
    BY <2>3 DEF vars, spiVars, regVars, hostVars, cardVars, Carried, Sends, Gathers, BitsOver, Line,
                Answers, Reply, phase
  <2>. QED BY <2>1, <2>2, <2>3 DEF Next
<1>. QED BY <1>1, <1>2, Invariant, PTL DEF Spec

-------------------------------------------------------------------------------
(* The abstract exchange *)

\* The processor's own steps, and what each is to the caller.
LEMMA HostSteps ==
  ASSUME IInv, Processor, pc # "wait_done", pc # "receive"
  PROVE  \/ pc = "idle" /\ pc' = "idle" /\ UNCHANGED <<tx, result>>
         \/ /\ pc = "idle" /\ pc' = "wait_busy" /\ tx' \in Byte
            /\ UNCHANGED <<result, sdspi_cs_n>>
         \/ /\ phase = "asked" /\ phase' = "asked"
            /\ UNCHANGED <<tx, result, sdspi_cs_n>>
<1> USE DEF IInv, TypeOK, SpiTypeOK, Handshake, NoWrite, Access
<1>1. CASE Think BY <1>1, ClockHandshake DEF Think, phase, Pcs
<1>2. CASE SetCs BY <1>2 DEF SetCs
<1>3. CASE SetClkdiv BY <1>3 DEF SetClkdiv
<1>4. CASE Call BY <1>4, PayloadAssumption DEF Call
<1>5. CASE WaitBusy BY <1>5 DEF WaitBusy, phase
<1>6. CASE Send BY <1>6 DEF Send, WriteData, phase
<1>7. CASE WaitDone \/ Receive BY <1>7 DEF WaitDone, Receive
<1>. QED BY <1>1, <1>2, <1>3, <1>4, <1>5, <1>6, <1>7 DEF Processor, Host

\* Without a transfer the card hears nothing.
LEMMA CardIdle ==
  ASSUME IInv, Step, ~busy
  PROVE  heard' = heard
<1>1. Clock /\ Card BY ProcessorTypes DEF IInv, Step
<1>2. spi_sck' = spi_sck
  BY <1>1 DEF Clock, SpiClock, SpiStart, SpiIdle, SpiCount, SpiRise, SpiFall, SpiFinish, spi_sck
<1>. QED BY <1>1, <1>2 DEF Card, CardDeselect, cardVars

\* During a transfer the card hears nothing before the last bit.
LEMMA CardGathers ==
  ASSUME IInv, Step, busy, ~SpiFinish(sdspi_clkdiv)
  PROVE  heard' = heard
<1> USE SpiAssumption DEF IInv, TypeOK, SpiTypeOK
<1>1. Clock /\ Processor /\ Card BY ProcessorTypes DEF Step
<1>2. sdspi_cs_n' = sdspi_cs_n BY <1>1, CallKeeps DEF Handshake
<1>3. CASE SpiCount \/ SpiRise(sdspi_clkdiv, spi_miso)
  <2>1. spi_sck' = spi_sck \/ spi_sck' = 1 BY <1>3 DEF SpiCount, SpiRise, spi_sck
  <2>. QED BY <1>1, <1>2, <2>1 DEF Card, CardListen, cardVars
<1>4. CASE SpiFall(sdspi_clkdiv)
  BY <1>1, <1>2, <1>4 DEF SpiFall, BitsAgree, Card, CardListen, CardShift, CardByte, cardVars
<1>. QED BY <1>1, <1>3, <1>4 DEF Clock, SpiClock, SpiStart, SpiIdle

\* Waiting for the transfer changes nothing the caller sees before the last bit.
LEMMA StepWaiting ==
  ASSUME IInv, Carried, Step, phase = "asked", pc = "wait_done"
  PROVE  [Abs!Exchange]_(Abs!xferVars)
<1> USE DEF IInv, TypeOK, SpiTypeOK, Handshake
<1>1. Clock /\ Processor BY ProcessorTypes DEF Step
<1>2. sdspi_start \/ busy BY DEF phase
<1>3. UNCHANGED <<tx, result, sdspi_cs_n>> /\ pc' \in {"wait_done", "receive"}
  BY <1>1 DEF Processor, Host, Think, SetCs, SetClkdiv, Call, WaitBusy, Send, WaitDone, Receive,
              NoWrite, Access
<1>4. CASE SpiFinish(sdspi_clkdiv)
  <2>1. heard' = IF sdspi_cs_n THEN heard ELSE tx BY <1>4, ByteIsOver DEF Carried
  <2>2. ~sdspi_start' /\ ~busy' BY <1>1, <1>3, <1>4, CallKeeps DEF SpiFinish
  <2>3. phase' = "answered" BY <1>3, <2>2 DEF phase
  <2>4. gave' \in Byte BY StepTypes DEF Next
  <2>. QED BY <1>3, <2>1, <2>3, <2>4 DEF Abs!Exchange
<1>5. CASE ~SpiFinish(sdspi_clkdiv)
  <2>1. heard' = heard BY <1>5, CardIdle, CardGathers
  <2>2. busy' BY <1>1, <1>2, <1>5 DEF Clock, SpiClock, SpiStart, SpiIdle, SpiCount, SpiRise, SpiFall
  <2>3. pc' = "wait_done" BY <2>2, StepTypes, StepHandshake DEF Step, Next
  <2>4. phase' = "asked" BY <2>2, <2>3 DEF phase
  <2>. QED BY <1>3, <2>1, <2>4 DEF Abs!xferVars
<1>. QED BY <1>4, <1>5

\* An answer stays what it is until the call takes it, and the call takes it whole.
LEMMA StepAnswered ==
  ASSUME IInv, Carried, Step, phase = "answered"
  PROVE  [Abs!Return]_(Abs!xferVars)
<1> USE DEF IInv, TypeOK, SpiTypeOK, Handshake
<1>1. Clock /\ Processor BY ProcessorTypes DEF Step
<1>2. /\ ~busy' /\ UNCHANGED <<heard, gave, sdspi_cs_n, tx>>
  BY AnswerWaits DEF Carried
<1>3. pc = "wait_done" \/ pc = "receive" BY DEF phase, Pcs
<1>4. CASE Receive
  <2>1. ~done BY <1>4 DEF Receive, Access
  <2>2. result' = Reply BY <1>4, <2>1 DEF Receive, Carried, Answers
  <2>3. phase' = "idle" BY <1>4 DEF Receive, phase
  <2>. QED BY <1>2, <2>2, <2>3 DEF Reply, Abs!Return, Abs!NoAnswer
<1>5. CASE ~Receive
  <2>1. result' = result /\ pc' \in {"wait_done", "receive"} /\ ~sdspi_start'
    BY <1>1, <1>3, <1>5 DEF Processor, Host, Think, SetCs, SetClkdiv, Call, WaitBusy, Send,
                            WaitDone, NoWrite, Access
  <2>2. phase' = "answered" BY <1>2, <2>1 DEF phase
  <2>. QED BY <1>2, <2>1, <2>2 DEF Abs!xferVars
<1>. QED BY <1>4, <1>5

LEMMA StepExchange ==
  ASSUME IInv, Carried, Step
  PROVE  [Abs!Next]_(Abs!xferVars)
<1>1. CASE pc = "wait_done" \/ pc = "receive"
  <2>1. (phase = "asked" /\ pc = "wait_done") \/ phase = "answered" BY <1>1 DEF phase
  <2>. QED BY <2>1, StepWaiting, StepAnswered DEF Abs!Next
<1>2. CASE pc # "wait_done" /\ pc # "receive"
  <2>1. heard' = heard BY <1>2, CardIdle DEF IInv, Handshake
  <2>2. CASE pc = "idle" /\ pc' = "idle" /\ UNCHANGED <<tx, result>>
    <3>1. phase = "idle" /\ phase' = "idle" BY <2>2 DEF phase
    <3>2. (~sdspi_cs_n') \in BOOLEAN OBVIOUS
    <3>. QED BY <2>1, <2>2, <3>1, <3>2 DEF Abs!Next, Abs!Select
  <2>3. CASE /\ pc = "idle" /\ pc' = "wait_busy" /\ tx' \in Byte
             /\ UNCHANGED <<result, sdspi_cs_n>>
    <3>1. phase = "idle" /\ phase' = "asked" BY <2>3 DEF phase
    <3>. QED BY <2>1, <2>3, <3>1 DEF Abs!Next, Abs!Call
  <2>4. CASE /\ phase = "asked" /\ phase' = "asked"
             /\ UNCHANGED <<tx, result, sdspi_cs_n>>
    BY <2>1, <2>4 DEF Abs!xferVars
  <2>5. Processor BY DEF Step
  <2>. QED BY <1>2, <2>2, <2>3, <2>4, <2>5, HostSteps
<1>. QED BY <1>1, <1>2

\* Polling, start and done flags, divider and shift register make every call of
\* spi_xfer one exchange with the card, for bytes of any width and any divider:
\* the card hears the argument once, and the call returns what it gave for it.
THEOREM ExchangesOneByte == Spec => ImplementsExchange
<1>1. Init => Abs!Init
  BY DEF Init, phase, Abs!Init, Abs!NoAnswer
<1>2. IInv /\ Carried /\ [Next]_vars => [Abs!Next]_(Abs!xferVars)
  <2> SUFFICES ASSUME IInv, Carried, [Next]_vars PROVE [Abs!Next]_(Abs!xferVars) OBVIOUS
  <2>1. CASE Step BY <2>1, StepExchange
  <2>2. CASE Reset
    BY <2>2 DEF Reset, CardDeselect, phase, Abs!Next, Abs!Restart, Abs!NoAnswer
  <2>3. CASE UNCHANGED vars
    BY <2>3 DEF vars, spiVars, regVars, hostVars, cardVars, phase, Abs!xferVars
  <2>. QED BY <2>1, <2>2, <2>3 DEF Next
<1>. QED BY <1>1, <1>2, DataInvariant, PTL DEF Spec, ImplementsExchange, Abs!Spec
===============================================================================
