------------------------------- MODULE WbAdapter -------------------------------
(***************************************************************************)
(* The Wishbone side of picorv32_wb (picorv32.v): its state machine        *)
(* between the native memory interface of the core and a Wishbone device.  *)
(* One step is one clock.  The device may acknowledge in the cycle of the  *)
(* strobe or any time later, and performs the transfer with its            *)
(* acknowledgement.                                                        *)
(***************************************************************************)
EXTENDS NativeMaster, Sequences, Naturals

CONSTANT Data       \* what reads may return

VARIABLES
  state, wbm_adr_o, wbm_we_o, wbm_stb_o, wbm_cyc_o, mem_ready, mem_rdata,
  wbm_ack_i, wbm_dat_i,
  performed,     \* what the device has performed since the transfer of the core began
  result         \* what the core took with its last read

wbVars == <<state, wbm_adr_o, wbm_we_o, wbm_stb_o, wbm_cyc_o, mem_ready, mem_rdata>>
deviceVars == <<wbm_ack_i, wbm_dat_i, performed>>
vars == <<masterVars, wbVars, deviceVars, result>>

Transfer == [write : BOOLEAN, addr : Addr, data : Addr]

TypeOK ==
  /\ MasterTypeOK
  /\ state \in {"IDLE", "WBSTART", "WBEND"} /\ wbm_adr_o \in Addr
  /\ wbm_we_o \in BOOLEAN /\ wbm_stb_o \in BOOLEAN /\ wbm_cyc_o \in BOOLEAN
  /\ mem_ready \in BOOLEAN /\ mem_rdata \in Data
  /\ wbm_ack_i \in BOOLEAN /\ wbm_dat_i \in Data
  /\ performed \in Seq([transfer : Transfer, answer : SUBSET Data]) /\ Len(performed) <= 1
  /\ result \in Data

-------------------------------------------------------------------------------
(* The state machine *)

IdleStart ==
  /\ state = "IDLE" /\ mem_valid
  /\ wbm_adr_o' = mem_addr /\ wbm_we_o' = mem_wstrb
  /\ wbm_stb_o' = TRUE /\ wbm_cyc_o' = TRUE
  /\ state' = "WBSTART"
  /\ UNCHANGED <<mem_ready, mem_rdata>>

Idle_KeepsReady ==
  /\ state = "IDLE" /\ ~mem_valid
  /\ wbm_stb_o' = FALSE /\ wbm_cyc_o' = FALSE /\ wbm_we_o' = FALSE
  /\ UNCHANGED <<state, wbm_adr_o, mem_ready, mem_rdata>>
Idle ==
  /\ state = "IDLE" /\ ~mem_valid
  /\ mem_ready' = FALSE
  /\ wbm_stb_o' = FALSE /\ wbm_cyc_o' = FALSE /\ wbm_we_o' = FALSE
  /\ UNCHANGED <<state, wbm_adr_o, mem_rdata>>

WbWait == state = "WBSTART" /\ ~wbm_ack_i /\ UNCHANGED wbVars

WbAck ==
  /\ state = "WBSTART" /\ wbm_ack_i
  /\ mem_rdata' = wbm_dat_i /\ mem_ready' = TRUE
  /\ wbm_stb_o' = FALSE /\ wbm_cyc_o' = FALSE /\ wbm_we_o' = FALSE
  /\ state' = "WBEND" /\ UNCHANGED wbm_adr_o

\* The core takes the answer in this cycle.
WbEnd ==
  /\ state = "WBEND"
  /\ mem_ready' = FALSE /\ state' = "IDLE"
  /\ UNCHANGED <<wbm_adr_o, wbm_we_o, wbm_stb_o, wbm_cyc_o, mem_rdata>>

Adapter == IdleStart \/ Idle \/ WbWait \/ WbAck \/ WbEnd

\* Reset leaves mem_ready and mem_rdata as they are.
AdapterReset ==
  /\ state' = "IDLE" /\ wbm_adr_o' \in Addr /\ wbm_we_o' = FALSE
  /\ wbm_stb_o' = FALSE /\ wbm_cyc_o' = FALSE
  /\ UNCHANGED <<mem_ready, mem_rdata>>

-------------------------------------------------------------------------------
(* The device *)

Strobe == wbm_stb_o /\ wbm_cyc_o

\* It acknowledges only a strobe.
Signals ==
  /\ wbm_ack_i' \in {FALSE, Strobe'}
  /\ wbm_dat_i' \in Data

\* The record of what was performed is kept until the transfer has ended.
Performed == IF mem_valid THEN performed ELSE <<>>
Perform ==
  LET transfer == [write |-> wbm_we_o, addr |-> wbm_adr_o, data |-> wbm_adr_o]
      answer == IF wbm_we_o THEN {} ELSE {wbm_dat_i}
  IN  performed' = Append(Performed, [transfer |-> transfer, answer |-> answer])
NoPerform == performed' = Performed

-------------------------------------------------------------------------------
(* One clock, reset, specification *)

Clock ==
  /\ MasterStep(mem_ready) /\ Adapter
  /\ result' = IF mem_valid /\ mem_ready /\ ~mem_wstrb THEN mem_rdata ELSE result
  /\ IF Strobe /\ wbm_ack_i THEN Perform ELSE NoPerform
  /\ Signals

\* A transfer acknowledged in the cycle of the reset may still be performed.
Reset ==
  /\ MasterReset /\ AdapterReset /\ UNCHANGED result
  /\ (Strobe /\ wbm_ack_i /\ Perform) \/ NoPerform
  /\ Signals

\* After power-up and reset.
Init ==
  /\ MasterInit
  /\ state = "IDLE" /\ wbm_adr_o \in Addr /\ wbm_we_o = FALSE
  /\ wbm_stb_o = FALSE /\ wbm_cyc_o = FALSE
  /\ mem_ready \in BOOLEAN /\ mem_rdata \in Data
  /\ wbm_ack_i = FALSE /\ wbm_dat_i \in Data /\ performed = <<>>
  /\ result \in Data

Next == Clock \/ Reset
Spec == Init /\ [][Next]_vars

-------------------------------------------------------------------------------
(* Properties *)

\* The core is told ready for one cycle, in which it is waiting for just that:
\* a mem_ready left from before a reset never meets a new transfer.
ReadyMeetsTransfer ==
  mem_valid /\ mem_ready => state = "WBEND" /\ performed # <<>> /\ wbm_adr_o = mem_addr

\* A cycle on the bus stays as it is until it is acknowledged, and the strobe
\* falls with the acknowledgement: the device never sees a second one.
CycleStays ==
  Strobe => IF wbm_ack_i THEN ~Strobe' ELSE Strobe' /\ UNCHANGED <<wbm_adr_o, wbm_we_o>>
===============================================================================
