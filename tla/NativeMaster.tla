----------------------------- MODULE NativeMaster -----------------------------
(***************************************************************************)
(* The native memory interface as the core drives it, cycle by cycle: a    *)
(* transfer is announced, kept unchanged until mem_ready, and followed by  *)
(* at least one cycle without one.  PicoRV32 is checked to be such a       *)
(* master; the bus adapters are composed with it.                          *)
(***************************************************************************)
CONSTANT Addr       \* address of a transfer, and the data it writes

VARIABLES mem_valid, mem_wstrb, mem_addr
masterVars == <<mem_valid, mem_wstrb, mem_addr>>

MasterTypeOK ==
  /\ mem_valid \in BOOLEAN /\ mem_wstrb \in BOOLEAN /\ mem_addr \in Addr

MasterInit == MasterTypeOK /\ mem_valid = FALSE

Begin ==
  /\ ~mem_valid /\ mem_valid' = TRUE
  /\ mem_addr' \in Addr /\ mem_wstrb' \in BOOLEAN

Rest == ~mem_valid /\ UNCHANGED masterVars

Wait(mem_ready) == mem_valid /\ ~mem_ready /\ UNCHANGED masterVars

Finish(mem_ready) ==
  /\ mem_valid /\ mem_ready /\ mem_valid' = FALSE
  /\ UNCHANGED <<mem_wstrb, mem_addr>>

MasterStep(mem_ready) == Begin \/ Rest \/ Wait(mem_ready) \/ Finish(mem_ready)

MasterReset == mem_valid' = FALSE /\ UNCHANGED <<mem_wstrb, mem_addr>>
===============================================================================
