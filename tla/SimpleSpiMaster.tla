---------------------------- MODULE SimpleSpiMaster ----------------------------
(***************************************************************************)
(* simple_spi_master.v: shifts one byte out and one byte in, most          *)
(* significant bit first, SCK idle low, sampling on its rising edge.       *)
(* One step is one rising edge of clk; the inputs start, tx_data, clkdiv   *)
(* and spi_miso are parameters of the actions.                             *)
(***************************************************************************)
EXTENDS Integers

CONSTANTS
  NBits,     \* bits of a byte: 8 in the code
  MaxDiv     \* largest half-period divider in use

ASSUME SpiAssumption == NBits \in Nat \ {0} /\ MaxDiv \in Nat

BitPos == 0 .. NBits - 1
Byte == [BitPos -> {0, 1}]
xFF == [i \in BitPos |-> 1]
x00 == [i \in BitPos |-> 0]

VARIABLES busy, done, rx_data, divcnt, bitpos, sck_reg, mosi_reg, tx_latch, rx_shift
spiVars == <<busy, done, rx_data, divcnt, bitpos, sck_reg, mosi_reg, tx_latch, rx_shift>>

SpiTypeOK ==
  /\ busy \in BOOLEAN /\ done \in BOOLEAN /\ rx_data \in Byte
  /\ divcnt \in 0..MaxDiv /\ bitpos \in BitPos
  /\ sck_reg \in {0, 1} /\ mosi_reg \in {0, 1}
  /\ tx_latch \in Byte /\ rx_shift \in Byte

spi_sck == IF busy THEN sck_reg ELSE 0
spi_mosi == mosi_reg

SpiInit ==
  /\ busy = FALSE /\ done = FALSE /\ rx_data = xFF
  /\ divcnt = 0 /\ bitpos = 0 /\ sck_reg = 0 /\ mosi_reg = 1
  /\ tx_latch = xFF /\ rx_shift = x00

SpiReset ==
  /\ busy' = FALSE /\ done' = FALSE /\ rx_data' = xFF
  /\ divcnt' = 0 /\ bitpos' = 0 /\ sck_reg' = 0 /\ mosi_reg' = 1
  /\ tx_latch' = xFF /\ rx_shift' = x00

SpiStart(start, tx_data, clkdiv) ==
  /\ start /\ ~busy
  /\ busy' = TRUE /\ done' = FALSE
  /\ sck_reg' = 0 /\ divcnt' = clkdiv /\ bitpos' = NBits - 1
  /\ tx_latch' = tx_data /\ rx_shift' = x00 /\ mosi_reg' = tx_data[NBits - 1]
  /\ UNCHANGED rx_data

SpiIdle(start) ==
  /\ ~start /\ ~busy
  /\ done' = FALSE
  /\ UNCHANGED <<busy, rx_data, divcnt, bitpos, sck_reg, mosi_reg, tx_latch, rx_shift>>

SpiCount ==
  /\ busy /\ divcnt # 0
  /\ divcnt' = divcnt - 1 /\ done' = FALSE
  /\ UNCHANGED <<busy, rx_data, bitpos, sck_reg, mosi_reg, tx_latch, rx_shift>>

SpiRise(clkdiv, spi_miso) ==
  /\ busy /\ divcnt = 0 /\ sck_reg = 0
  /\ sck_reg' = 1 /\ divcnt' = clkdiv /\ done' = FALSE
  /\ rx_shift' = [rx_shift EXCEPT ![bitpos] = spi_miso]
  /\ UNCHANGED <<busy, rx_data, bitpos, mosi_reg, tx_latch>>

\* The next bit goes out half a period before it is sampled.
SpiFall_Repeats(clkdiv) ==
  /\ busy /\ divcnt = 0 /\ sck_reg = 1 /\ bitpos # 0
  /\ sck_reg' = 0 /\ divcnt' = clkdiv /\ done' = FALSE
  /\ bitpos' = bitpos - 1 /\ mosi_reg' = tx_latch[bitpos]
  /\ UNCHANGED <<busy, rx_data, tx_latch, rx_shift>>
SpiFall(clkdiv) ==
  /\ busy /\ divcnt = 0 /\ sck_reg = 1 /\ bitpos # 0
  /\ sck_reg' = 0 /\ divcnt' = clkdiv /\ done' = FALSE
  /\ bitpos' = bitpos - 1 /\ mosi_reg' = tx_latch[bitpos - 1]
  /\ UNCHANGED <<busy, rx_data, tx_latch, rx_shift>>

SpiFinish(clkdiv) ==
  /\ busy /\ divcnt = 0 /\ sck_reg = 1 /\ bitpos = 0
  /\ sck_reg' = 0 /\ divcnt' = clkdiv
  /\ busy' = FALSE /\ done' = TRUE /\ rx_data' = rx_shift /\ mosi_reg' = 1
  /\ UNCHANGED <<bitpos, tx_latch, rx_shift>>

SpiClock(start, tx_data, clkdiv, spi_miso) ==
  \/ SpiStart(start, tx_data, clkdiv) \/ SpiIdle(start) \/ SpiCount
  \/ SpiRise(clkdiv, spi_miso) \/ SpiFall(clkdiv) \/ SpiFinish(clkdiv)
===============================================================================
