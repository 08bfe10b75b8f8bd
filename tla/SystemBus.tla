------------------------------- MODULE SystemBus -------------------------------
(***************************************************************************)
(* The two memory paths of the Arty SoC (system.v) behind the native       *)
(* interface of the core.  The fast path acts on the look-ahead cycle and  *)
(* answers every clock; the slow path acts on the registered address, one  *)
(* clock later for a peripheral and three for a read of the block RAM, and *)
(* answers only what it decodes.  One step is one clock.                   *)
(***************************************************************************)
EXTENDS NativeMaster, Sequences, Naturals

CONSTANTS
  Data,       \* what reads may return
  Ram,        \* block RAM, of the boot loader and the application
  Readable,   \* peripheral registers that can be read
  Writable    \* what can be written: application RAM and peripheral registers

VARIABLES
  fast,       \* FAST_MEMORY
  mem_ready, mem_rdata, m_read_en, m_read_data,
  performed,  \* what the system has performed since the transfer of the core began
  result      \* what the core took with its last read

busVars == <<mem_ready, mem_rdata, m_read_en, m_read_data>>
vars == <<masterVars, fast, busVars, performed, result>>

TypeOK ==
  /\ MasterTypeOK
  /\ fast \in BOOLEAN /\ mem_ready \in BOOLEAN /\ mem_rdata \in Data
  /\ m_read_en \in BOOLEAN /\ m_read_data \in Data
  /\ Len(performed) <= 1 /\ result \in Data

\* The address decoder has an arm for the access.
Decoded(write, addr) == addr \in IF write THEN Writable ELSE Ram \cup Readable

-------------------------------------------------------------------------------
(* What is performed: a write has no answer, a read has one. *)

Accesses(write, addr) ==
  {[transfer |-> [write |-> write, addr |-> addr, data |-> addr],
    answer |-> IF write THEN {} ELSE {value}] : value \in Data}

\* The record of a transfer is kept until the transfer has ended.
Performed == IF mem_valid THEN performed ELSE <<>>
NoPerform == performed' = Performed

-------------------------------------------------------------------------------
(* The fast path: an access in the look-ahead cycle, which is the one before
   mem_valid; outside it mem_rdata follows the address lines. *)

FastAccess ==
  \E access \in Accesses(mem_wstrb', mem_addr') :
     /\ performed' = <<access>>
     /\ mem_rdata' \in IF access.answer = {} THEN Data ELSE access.answer

FastStep ==
  /\ mem_ready' = TRUE
  /\ IF Begin THEN FastAccess ELSE NoPerform /\ mem_rdata' \in Data
  /\ UNCHANGED <<m_read_en, m_read_data>>

FastReset == mem_ready' = FALSE /\ NoPerform /\ UNCHANGED <<mem_rdata, m_read_en, m_read_data>>

-------------------------------------------------------------------------------
(* The slow path: the register assignments in front, then the case statement,
   whose arms come later in the block and so override them. *)

Offered == mem_valid /\ ~mem_ready
RamRead == Offered /\ ~mem_wstrb /\ mem_addr \in Ram
RegisterRead == Offered /\ ~mem_wstrb /\ mem_addr \in Readable
Write == Offered /\ mem_wstrb /\ mem_addr \in Writable

\* The RAM is sampled every clock; the first sample of a transfer is the one
\* that reaches mem_rdata with mem_ready.
Sample ==
  \E access \in Accesses(FALSE, mem_addr) :
     IF performed = <<>>
     THEN performed' = <<access>> /\ m_read_data' \in access.answer
     ELSE NoPerform /\ m_read_data' \in Data

Answer(default) ==
  /\ mem_ready' = TRUE
  /\ \E access \in Accesses(mem_wstrb, mem_addr) :
       /\ performed' = Append(performed, access)
       /\ mem_rdata' \in IF RegisterRead THEN access.answer ELSE {default.rdata}

\* The defaults: while resetn is low, and while it is high.
ResetDefaults == [ready |-> FALSE, rdata |-> mem_rdata]
Pipeline_OneStage == [ready |-> Offered, rdata |-> m_read_data]
Pipeline == [ready |-> Offered /\ m_read_en, rdata |-> m_read_data]

SlowCase(default) ==
  \/ /\ RamRead /\ Sample
     /\ m_read_en' = TRUE
     /\ mem_ready' = default.ready /\ mem_rdata' = default.rdata
  \/ /\ RegisterRead \/ Write
     /\ Answer(default)
     /\ m_read_en' = FALSE /\ m_read_data' \in Data
  \/ /\ ~(RamRead \/ RegisterRead \/ Write)
     /\ NoPerform
     /\ m_read_en' = FALSE /\ m_read_data' \in Data
     /\ mem_ready' = default.ready /\ mem_rdata' = default.rdata

-------------------------------------------------------------------------------
(* One clock, reset, specification *)

Clock ==
  /\ MasterStep(mem_ready)
  /\ IF fast THEN FastStep ELSE SlowCase(Pipeline)
  /\ result' = IF mem_valid /\ mem_ready /\ ~mem_wstrb THEN mem_rdata ELSE result
  /\ UNCHANGED fast

\* The case statement of the slow path stands outside the test of resetn: a
\* transfer on the bus when reset begins is still performed.
Reset ==
  /\ MasterReset
  /\ IF fast THEN FastReset ELSE SlowCase(ResetDefaults)
  /\ UNCHANGED <<fast, result>>

Init ==
  /\ MasterInit
  /\ fast \in BOOLEAN /\ mem_ready = FALSE /\ mem_rdata \in Data
  /\ m_read_en = FALSE /\ m_read_data \in Data
  /\ performed = <<>> /\ result \in Data

-------------------------------------------------------------------------------
(* Properties *)

\* The core is told ready only for a transfer that was performed; so the slow
\* path never answers what it does not decode.
ReadyMeetsTransfer ==
  mem_valid /\ mem_ready =>
    /\ performed # <<>>
    /\ fast \/ Decoded(mem_wstrb, mem_addr)
===============================================================================
