------------------------------ MODULE AxiAdapter ------------------------------
(***************************************************************************)
(* picorv32_axi_adapter (picorv32.v): the native memory interface of the   *)
(* core on one side, an AXI4-Lite device on the other.  One step is one    *)
(* clock.  The device takes the address and data channels in any order,    *)
(* answers as early as in the cycle that completes them, and performs the  *)
(* transfer at any clock in between.                                       *)
(***************************************************************************)
EXTENDS NativeMaster, Sequences, Naturals

CONSTANT Data       \* what reads may return

VARIABLES
  ack_awvalid, ack_arvalid, ack_wvalid, xfer_done,
  mem_axi_awready, mem_axi_wready, mem_axi_arready, mem_axi_bvalid, mem_axi_rvalid,
  mem_axi_rdata,
  got_aw, got_w, got_ar,   \* what the device has taken and not performed, if anything
  owed,                    \* the response it owes, if any
  performed,               \* what it has performed since the transfer of the core began
  result                   \* what the core took with its last read

ackVars == <<ack_awvalid, ack_arvalid, ack_wvalid, xfer_done>>
readyVars == <<mem_axi_awready, mem_axi_wready, mem_axi_arready>>
responseVars == <<mem_axi_bvalid, mem_axi_rvalid, mem_axi_rdata>>
deviceVars == <<got_aw, got_w, got_ar, owed, performed>>
vars == <<masterVars, ackVars, readyVars, responseVars, deviceVars, result>>

Transfer == [write : BOOLEAN, addr : Addr, data : Addr]
Response == [write : BOOLEAN, answer : SUBSET Data]

TypeOK ==
  /\ MasterTypeOK
  /\ ack_awvalid \in BOOLEAN /\ ack_arvalid \in BOOLEAN /\ ack_wvalid \in BOOLEAN
  /\ xfer_done \in BOOLEAN
  /\ mem_axi_awready \in BOOLEAN /\ mem_axi_wready \in BOOLEAN /\ mem_axi_arready \in BOOLEAN
  /\ mem_axi_bvalid \in BOOLEAN /\ mem_axi_rvalid \in BOOLEAN /\ mem_axi_rdata \in Data
  /\ got_aw \subseteq Addr /\ got_w \subseteq Addr /\ got_ar \subseteq Addr
  /\ owed \subseteq Response /\ result \in Data
  /\ performed \in Seq([transfer : Transfer, answer : SUBSET Data]) /\ Len(performed) <= 1

-------------------------------------------------------------------------------
(* The wires *)

mem_axi_awvalid == mem_valid /\ mem_wstrb /\ ~ack_awvalid
mem_axi_wvalid == mem_valid /\ mem_wstrb /\ ~ack_wvalid
mem_axi_arvalid == mem_valid /\ ~mem_wstrb /\ ~ack_arvalid
mem_axi_bready == mem_valid /\ mem_wstrb
mem_axi_rready == mem_valid /\ ~mem_wstrb
mem_ready == mem_axi_bvalid \/ mem_axi_rvalid
mem_rdata == mem_axi_rdata

AwTaken == mem_axi_awvalid /\ mem_axi_awready
WTaken == mem_axi_wvalid /\ mem_axi_wready
ArTaken == mem_axi_arvalid /\ mem_axi_arready

-------------------------------------------------------------------------------
(* The registers of the adapter *)

Clear_NotIdle == xfer_done
Clear == xfer_done \/ ~mem_valid

Adapter_SharedAck ==
  /\ xfer_done' = (mem_valid /\ mem_ready)
  /\ ack_awvalid' = (~Clear /\ (ack_awvalid \/ AwTaken))
  /\ ack_arvalid' = (~Clear /\ (ack_arvalid \/ ArTaken))
  /\ ack_wvalid' = (~Clear /\ (ack_wvalid \/ AwTaken))
Adapter ==
  /\ xfer_done' = (mem_valid /\ mem_ready)
  /\ ack_awvalid' = (~Clear /\ (ack_awvalid \/ AwTaken))
  /\ ack_arvalid' = (~Clear /\ (ack_arvalid \/ ArTaken))
  /\ ack_wvalid' = (~Clear /\ (ack_wvalid \/ WTaken))

\* Reset clears one of the four; the others follow when mem_valid is low.
AdapterReset == ack_awvalid' = FALSE /\ UNCHANGED <<ack_arvalid, ack_wvalid, xfer_done>>

-------------------------------------------------------------------------------
(* The device *)

\* What it holds at the end of the cycle.
AwNow == got_aw \cup (IF AwTaken THEN {mem_addr} ELSE {})
WNow == got_w \cup (IF WTaken THEN {mem_addr} ELSE {})
ArNow == got_ar \cup (IF ArTaken THEN {mem_addr} ELSE {})

Complete == {[write |-> TRUE, addr |-> a, data |-> d] : a \in AwNow, d \in WNow}
       \cup {[write |-> FALSE, addr |-> a, data |-> a] : a \in ArNow}

Answers(transfer) == IF transfer.write THEN {{}} ELSE {{value} : value \in Data}

\* The record of what was performed is kept until the transfer has ended.
Performed == IF mem_valid THEN performed ELSE <<>>
Performs(transfer, answer) ==
  performed' = Append(Performed, [transfer |-> transfer, answer |-> answer])

Perform(transfer, answer) ==
  /\ Performs(transfer, answer)
  /\ got_aw' = IF transfer.write THEN {} ELSE AwNow
  /\ got_w' = IF transfer.write THEN {} ELSE WNow
  /\ got_ar' = IF transfer.write THEN ArNow ELSE {}

Keep ==
  /\ got_aw' = AwNow /\ got_w' = WNow /\ got_ar' = ArNow
  /\ performed' = Performed

Responds(write) ==
  IF write THEN mem_axi_bvalid /\ mem_axi_bready ELSE mem_axi_rvalid /\ mem_axi_rready

Respond ==
  /\ owed' = {}
  /\ \/ \E response \in owed : Responds(response.write) /\ Keep
     \/ /\ owed = {}
        /\ \E transfer \in Complete :
             /\ Responds(transfer.write)
             /\ Perform(transfer, IF transfer.write THEN {} ELSE {mem_axi_rdata})

Work ==
  /\ ~Responds(FALSE) /\ ~Responds(TRUE)
  /\ \/ /\ owed = {}
        /\ \E transfer \in Complete : \E answer \in Answers(transfer) :
             /\ Perform(transfer, answer)
             /\ owed' = {[write |-> transfer.write, answer |-> answer]}
     \/ Keep /\ UNCHANGED owed

\* The signals of the next cycle: ready while there is room, and a response
\* once its transfer is complete, which stays until it is taken.
MayRespond(write) ==
  \/ \E response \in owed : response.write = write
  \/ owed = {} /\ IF write THEN AwNow # {} /\ WNow # {} ELSE ArNow # {}
Signals ==
  /\ mem_axi_awready' \in {FALSE, got_aw' = {}}
  /\ mem_axi_wready' \in {FALSE, got_w' = {}}
  /\ mem_axi_arready' \in {FALSE, got_ar' = {}}
  /\ mem_axi_bvalid' \in {mem_axi_bvalid /\ ~mem_axi_bready, MayRespond(TRUE)'}
  /\ mem_axi_rvalid' \in {mem_axi_rvalid /\ ~mem_axi_rready, MayRespond(FALSE)'}
  /\ mem_axi_rdata' \in IF ~mem_axi_rvalid' THEN {mem_axi_rdata}
                        ELSE IF owed' = {} THEN Data
                        ELSE UNION {response.answer : response \in owed'}

\* The device starts over too, and may have performed what it held.
DeviceReset ==
  /\ got_aw' = {} /\ got_w' = {} /\ got_ar' = {} /\ owed' = {}
  /\ \/ performed' = Performed
     \/ /\ owed = {}
        /\ \E transfer \in Complete : \E answer \in Answers(transfer) : Performs(transfer, answer)

-------------------------------------------------------------------------------
(* One clock, reset, specification *)

Read == mem_valid /\ mem_ready /\ ~mem_wstrb

Clock ==
  /\ MasterStep(mem_ready) /\ Adapter
  /\ Respond \/ Work
  /\ result' = IF Read THEN mem_rdata ELSE result
  /\ Signals

Reset ==
  /\ MasterReset /\ AdapterReset /\ DeviceReset /\ UNCHANGED result
  /\ Signals

\* After power-up and reset; three registers hold whatever they held.
Init ==
  /\ MasterInit
  /\ ack_awvalid = FALSE
  /\ ack_arvalid \in BOOLEAN /\ ack_wvalid \in BOOLEAN /\ xfer_done \in BOOLEAN
  /\ mem_axi_awready = FALSE /\ mem_axi_wready = FALSE /\ mem_axi_arready = FALSE
  /\ mem_axi_bvalid = FALSE /\ mem_axi_rvalid = FALSE /\ mem_axi_rdata \in Data
  /\ got_aw = {} /\ got_w = {} /\ got_ar = {} /\ owed = {}
  /\ performed = <<>> /\ result \in Data

Next == Clock \/ Reset
Spec == Init /\ [][Next]_vars

-------------------------------------------------------------------------------
(* Properties *)

\* One transaction in flight at a time: nothing is offered again while the
\* device is at it, and a read never overlaps a write (axicheck.v).
OneInFlight ==
  LET owes(write) == \E response \in owed : response.write = write
  IN  /\ got_aw # {} \/ owes(TRUE) => ~mem_axi_awvalid
      /\ got_w # {} \/ owes(TRUE) => ~mem_axi_wvalid
      /\ got_ar # {} \/ owes(FALSE) => ~mem_axi_arvalid /\ got_aw = {} /\ got_w = {}

\* Every response is taken in the cycle it appears, by the transfer it is for.
ResponseTaken ==
  /\ mem_axi_bvalid => mem_axi_bready
  /\ mem_axi_rvalid => mem_axi_rready

\* A channel that is offered stays offered, and its payload the same, until it
\* is taken: the rule of AXI, here across five wires derived from one request.
OffersStay ==
  /\ mem_axi_awvalid /\ ~mem_axi_awready => mem_axi_awvalid' /\ mem_addr' = mem_addr
  /\ mem_axi_wvalid /\ ~mem_axi_wready => mem_axi_wvalid' /\ mem_addr' = mem_addr
  /\ mem_axi_arvalid /\ ~mem_axi_arready => mem_axi_arvalid' /\ mem_addr' = mem_addr
===============================================================================
