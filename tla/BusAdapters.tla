----------------------------- MODULE BusAdapters -----------------------------
(***************************************************************************)
(* The core with what answers its native memory interface in each of the   *)
(* tops it is built into: picorv32_axi puts AxiAdapter between the core    *)
(* and the bus, picorv32_wb the state machine of WbAdapter, and the Arty   *)
(* SoC of system.v one of the two memory paths of SystemBus.  All have to  *)
(* keep the same promise, MemoryPort.                                      *)
(***************************************************************************)
EXTENDS NativeMaster

CONSTANTS
  Data,                     \* what reads may return
  Ram, Readable, Writable   \* what the decoder of the Arty SoC knows

ASSUME DecoderAssumption ==
  /\ Ram \subseteq Addr /\ Readable \subseteq Addr /\ Writable \subseteq Addr
  /\ Ram \cap Readable = {}

VARIABLES
  top,                                      \* the top module that was built
  performed, result,                        \* of whichever it is
  ack_awvalid, ack_arvalid, ack_wvalid, xfer_done,
  mem_axi_awready, mem_axi_wready, mem_axi_arready, mem_axi_bvalid, mem_axi_rvalid,
  mem_axi_rdata, got_aw, got_w, got_ar, owed,
  state, wbm_adr_o, wbm_we_o, wbm_stb_o, wbm_cyc_o, mem_ready, mem_rdata,
  wbm_ack_i, wbm_dat_i,
  fast, sys_ready, sys_rdata, m_read_en, m_read_data

axiVars ==
  <<ack_awvalid, ack_arvalid, ack_wvalid, xfer_done,
    mem_axi_awready, mem_axi_wready, mem_axi_arready, mem_axi_bvalid, mem_axi_rvalid,
    mem_axi_rdata, got_aw, got_w, got_ar, owed>>
wbVars ==
  <<state, wbm_adr_o, wbm_we_o, wbm_stb_o, wbm_cyc_o, mem_ready, mem_rdata,
    wbm_ack_i, wbm_dat_i>>
sysVars == <<fast, sys_ready, sys_rdata, m_read_en, m_read_data>>
vars == <<masterVars, top, performed, result, axiVars, wbVars, sysVars>>

Axi == INSTANCE AxiAdapter
Wb == INSTANCE WbAdapter
Sys == INSTANCE SystemBus WITH mem_ready <- sys_ready, mem_rdata <- sys_rdata

\* The registers of what was not built.
AxiAbsent ==
  /\ ack_awvalid = "none" /\ ack_arvalid = "none" /\ ack_wvalid = "none" /\ xfer_done = "none"
  /\ mem_axi_awready = "none" /\ mem_axi_wready = "none" /\ mem_axi_arready = "none"
  /\ mem_axi_bvalid = "none" /\ mem_axi_rvalid = "none" /\ mem_axi_rdata = "none"
  /\ got_aw = "none" /\ got_w = "none" /\ got_ar = "none" /\ owed = "none"
WbAbsent ==
  /\ state = "none" /\ wbm_adr_o = "none" /\ wbm_we_o = "none" /\ wbm_stb_o = "none"
  /\ wbm_cyc_o = "none" /\ mem_ready = "none" /\ mem_rdata = "none"
  /\ wbm_ack_i = "none" /\ wbm_dat_i = "none"
SysAbsent ==
  /\ fast = "none" /\ sys_ready = "none" /\ sys_rdata = "none"
  /\ m_read_en = "none" /\ m_read_data = "none"

AxiTop == top = "picorv32_axi"
WbTop == top = "picorv32_wb"
SysTop == top = "system"

Init ==
  \/ top = "picorv32_axi" /\ Axi!Init /\ WbAbsent /\ SysAbsent
  \/ top = "picorv32_wb" /\ Wb!Init /\ AxiAbsent /\ SysAbsent
  \/ top = "system" /\ Sys!Init /\ AxiAbsent /\ WbAbsent

AxiClock == AxiTop /\ Axi!Clock /\ UNCHANGED <<top, wbVars, sysVars>>
AxiReset == AxiTop /\ Axi!Reset /\ UNCHANGED <<top, wbVars, sysVars>>
WbClock == WbTop /\ Wb!Clock /\ UNCHANGED <<top, axiVars, sysVars>>
WbReset == WbTop /\ Wb!Reset /\ UNCHANGED <<top, axiVars, sysVars>>
SysClock == SysTop /\ Sys!Clock /\ UNCHANGED <<top, axiVars, wbVars>>
SysReset == SysTop /\ Sys!Reset /\ UNCHANGED <<top, axiVars, wbVars>>

Reset == AxiReset \/ WbReset \/ SysReset
Next == AxiClock \/ WbClock \/ SysClock \/ Reset

\* The clock ticks; an AXI device takes what it is offered and answers what it
\* has taken; a Wishbone device acknowledges a strobe some time.
Fairness ==
  /\ WF_vars(AxiClock \/ WbClock \/ SysClock)
  /\ WF_vars(AxiClock /\ mem_axi_awready') /\ WF_vars(AxiClock /\ mem_axi_wready')
  /\ WF_vars(AxiClock /\ mem_axi_arready') /\ WF_vars(AxiClock /\ Axi!mem_ready')
  /\ WF_vars(WbClock /\ wbm_ack_i')

Spec == Init /\ [][Next]_vars /\ Fairness

-------------------------------------------------------------------------------
(* Properties *)

\* One transfer at a time, each response to its own transfer: on AXI no channel
\* is offered again while the device is at it and every response is taken at
\* once; on Wishbone and in the SoC a mem_ready never meets a transfer it does
\* not belong to, and the slow path of the SoC answers only what it decodes.
OneAtATime ==
  /\ AxiTop => Axi!TypeOK /\ Axi!OneInFlight /\ Axi!ResponseTaken
  /\ WbTop => Wb!TypeOK /\ Wb!ReadyMeetsTransfer
  /\ SysTop => Sys!TypeOK /\ Sys!ReadyMeetsTransfer

\* What is on the bus stays there, its payload included, until it is taken, and
\* falls with the acknowledgement: the handshake rule of both buses.
KeepsOffer ==
  /\ AxiClock => Axi!OffersStay
  /\ WbClock => Wb!CycleStays
OffersStay == [][KeepsOffer]_vars

pending == IF mem_valid THEN {[write |-> mem_wstrb, addr |-> mem_addr, data |-> mem_addr]} ELSE {}
Port == INSTANCE MemoryPort

\* Whatever the device takes first and however late it answers, whenever reset
\* comes, each transfer of the core is performed once, and a read gets the
\* answer to its own address.
ImplementsPort == Port!Spec

\* A transfer of the core ends, whatever it addresses, in every top but one: on
\* the slow memory path of the SoC the core waits for ever for an address that
\* has no arm in the decoder.
Hangs == SysTop /\ fast = FALSE /\ ~Sys!Decoded(mem_wstrb, mem_addr)
TransferEnds == (mem_valid /\ ~Hangs) ~> ~mem_valid
===============================================================================
