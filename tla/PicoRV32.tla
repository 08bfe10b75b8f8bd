------------------------------- MODULE PicoRV32 -------------------------------
(***************************************************************************)
(* The control of the picorv32 core (picorv32.v, module picorv32): the     *)
(* native memory interface, the two decode stages, the main state machine, *)
(* the interrupt controller and the co-processor handshake.                *)
(*                                                                         *)
(* One step is one rising clock edge.  Registers are variables under their *)
(* Verilog names, wires are operators.  Instruction words are abstracted   *)
(* to their class and tagged with the address they were fetched from; the  *)
(* values of registers are abstracted to what control depends on.          *)
(* Addresses count halfwords: the word of address a is a \div 2, and an    *)
(* odd address stands for one that its access size forbids.                *)
(* COMPRESSED_ISA, LATCHED_MEM_RDATA and ENABLE_TRACE are 0.               *)
(***************************************************************************)
EXTENDS Integers, FiniteSets

CONSTANTS
  Configs,           \* settings of the parameters of the module
  NHalf,             \* number of halfword addresses
  JumpTargets,       \* addresses a jump or a taken branch may go to
  DataAddrs,         \* effective addresses of loads and stores
  PROGADDR_RESET, PROGADDR_IRQ,
  Irqs,              \* interrupt numbers
  irq_timer, irq_ebreak, irq_buserror,
  ExtIrqs,           \* lines of the irq input the environment drives
  MASKED_IRQ, LATCHED_IRQ,
  MaxTimer, MaxShift, MaxTimeout

AllOps == {"lui", "jal", "jalr", "branch", "load", "badload", "store", "badstore",
           "addi", "slli", "add", "sll", "csr", "getq", "setq", "retirq",
           "maskirq", "waitirq", "timer", "ebreak", "illegal"}
IrqOps == {"getq", "setq", "retirq", "maskirq", "waitirq", "timer"}
Switches ==
  {"ENABLE_IRQ", "ENABLE_IRQ_TIMER", "WITH_PCPI", "CATCH_ILLINSN", "CATCH_MISALIGN",
   "ENABLE_REGS_DUALPORT", "BARREL_SHIFTER", "TWO_CYCLE_ALU", "TWO_CYCLE_COMPARE",
   "HAS_STACKADDR"}      \* the last one: STACKADDR is not ~0

\* A setting: the switches that are on, and the instruction classes in memory.
ASSUME ConfigsAssumption ==
  \A c \in Configs :
    /\ c \in [on : SUBSET Switches, Ops : SUBSET AllOps]
    /\ "ENABLE_IRQ" \in c.on \/ c.Ops \cap IrqOps = {}
    /\ "ENABLE_IRQ_TIMER" \in c.on \/ "timer" \notin c.Ops

Addr == 0 .. NHalf - 1

ASSUME AddrAssumption ==
  /\ NHalf \in Nat \ {0}
  /\ NHalf % 2 = 0
  /\ JumpTargets \subseteq Addr /\ \E a \in JumpTargets : a % 2 = 0
  /\ DataAddrs \subseteq Addr /\ \E a \in DataAddrs : a % 2 = 0
  /\ PROGADDR_RESET \in Addr /\ PROGADDR_RESET % 2 = 0
  /\ PROGADDR_IRQ \in Addr /\ PROGADDR_IRQ % 2 = 0

ASSUME BoundsAssumption ==
  /\ {irq_timer, irq_ebreak, irq_buserror} \subseteq Irqs
  /\ ExtIrqs \subseteq Irqs /\ MASKED_IRQ \subseteq Irqs /\ LATCHED_IRQ \subseteq Irqs
  /\ MaxTimer \in Nat /\ MaxShift \in Nat /\ MaxTimeout \in Nat \ {0}

X == -1                        \* a 'bx value, or data that is no address
Word(a) == a \div 2            \* {a[31:2]}
Odd(a) == a % 2 = 1
Plus4(a) == IF a + 2 < NHalf THEN a + 2 ELSE a + 2 - NHalf
Words == {Word(a) : a \in Addr \cup {X}}

\* What a fetched word decodes to, and the address it came from.
Insn == [at : Words, op : AllOps \cup {"data"}]
Blank == [at |-> Word(X), op |-> "data"]

CpuStates == {"trap", "fetch", "ld_rs1", "ld_rs2", "exec", "shift", "stmem", "ldmem"}
RdKinds == {"rd", "q", "q0", "q1", "x0", "sp"}

VARIABLES
  config,            \* the setting of this instance
  mem_state, mem_valid, mem_instr, mem_addr, mem_wstrb, mem_rdata_q, mem_ready,
  mem_do_prefetch, mem_do_rinst, mem_do_rdata, mem_do_wdata,
  dec1, dec2, decoder_trigger, decoder_trigger_q,
  decoder_pseudo_trigger, decoder_pseudo_trigger_q,
  cpu_state, trap, reg_pc, reg_next_pc, reg_out, reg_op1, reg_sh,
  latched_store, latched_stalu, latched_branch, latched_rd,
  alu_cmp, alu_cmp_r, alu_out_0_q, alu_out_q, alu_wait, alu_wait_2,
  irq_state, irq_active, irq_delay, irq_pending, irq_mask, eoi, timer, do_waitirq,
  pcpi_valid, pcpi_timeout, pcpi_timeout_counter

memVars  == <<mem_state, mem_valid, mem_instr, mem_addr, mem_wstrb, mem_rdata_q, mem_ready>>
reqVars  == <<mem_do_prefetch, mem_do_rinst, mem_do_rdata, mem_do_wdata>>
decVars  == <<dec1, dec2, decoder_trigger, decoder_trigger_q,
              decoder_pseudo_trigger, decoder_pseudo_trigger_q>>
cpuVars  == <<cpu_state, trap, reg_pc, reg_next_pc, reg_out, reg_op1, reg_sh>>
latVars  == <<latched_store, latched_stalu, latched_branch, latched_rd>>
aluVars  == <<alu_cmp, alu_cmp_r, alu_out_0_q, alu_out_q, alu_wait, alu_wait_2>>
irqVars  == <<irq_state, irq_active, irq_delay, irq_pending, irq_mask, eoi, timer, do_waitirq>>
pcpiVars == <<pcpi_valid, pcpi_timeout, pcpi_timeout_counter>>
vars == <<config, memVars, reqVars, decVars, cpuVars, latVars, aluVars, irqVars, pcpiVars>>

ENABLE_IRQ == "ENABLE_IRQ" \in config.on
ENABLE_IRQ_TIMER == "ENABLE_IRQ_TIMER" \in config.on
WITH_PCPI == "WITH_PCPI" \in config.on
CATCH_ILLINSN == "CATCH_ILLINSN" \in config.on
CATCH_MISALIGN == "CATCH_MISALIGN" \in config.on
ENABLE_REGS_DUALPORT == "ENABLE_REGS_DUALPORT" \in config.on
BARREL_SHIFTER == "BARREL_SHIFTER" \in config.on
TWO_CYCLE_ALU == "TWO_CYCLE_ALU" \in config.on
TWO_CYCLE_COMPARE == "TWO_CYCLE_COMPARE" \in config.on
HAS_STACKADDR == "HAS_STACKADDR" \in config.on

\* Without CATCH_MISALIGN the low bits of the program counter read 0, and those
\* of a data address only select bytes.
Possible(addrs) == {a \in addrs : CATCH_MISALIGN \/ ~Odd(a)}

MemTypeOK ==
  /\ mem_state \in 0..3 /\ mem_valid \in BOOLEAN /\ mem_instr \in BOOLEAN
  /\ mem_addr \in Words /\ mem_wstrb \in BOOLEAN /\ mem_rdata_q \in Insn
  /\ mem_ready \in BOOLEAN
ReqTypeOK ==
  /\ mem_do_prefetch \in BOOLEAN /\ mem_do_rinst \in BOOLEAN
  /\ mem_do_rdata \in BOOLEAN /\ mem_do_wdata \in BOOLEAN
DecTypeOK ==
  /\ dec1 \in Insn /\ dec2 \in Insn
  /\ decoder_trigger \in BOOLEAN /\ decoder_trigger_q \in BOOLEAN
  /\ decoder_pseudo_trigger \in BOOLEAN /\ decoder_pseudo_trigger_q \in BOOLEAN
CpuTypeOK ==
  /\ cpu_state \in CpuStates /\ trap \in BOOLEAN
  /\ reg_pc \in Addr /\ reg_next_pc \in Addr
  /\ reg_out \in Addr \cup {X} /\ reg_op1 \in Addr \cup {X} /\ reg_sh \in 0..MaxShift
LatTypeOK ==
  /\ latched_store \in BOOLEAN /\ latched_stalu \in BOOLEAN /\ latched_branch \in BOOLEAN
  /\ latched_rd \in [reg : RdKinds, at : Words]
AluTypeOK ==
  /\ alu_cmp \in BOOLEAN /\ alu_cmp_r \in BOOLEAN /\ alu_out_0_q \in BOOLEAN
  /\ alu_out_q \in Addr \cup {X} /\ alu_wait \in BOOLEAN /\ alu_wait_2 \in BOOLEAN
IrqTypeOK ==
  /\ irq_state \in 0..2 /\ irq_active \in BOOLEAN /\ irq_delay \in BOOLEAN
  /\ irq_pending \subseteq Irqs /\ irq_mask \subseteq Irqs /\ eoi \subseteq Irqs
  /\ timer \in 0..MaxTimer /\ do_waitirq \in BOOLEAN
PcpiTypeOK ==
  /\ pcpi_valid \in BOOLEAN /\ pcpi_timeout \in BOOLEAN
  /\ pcpi_timeout_counter \in 0..MaxTimeout
TypeOK ==
  /\ config \in Configs
  /\ MemTypeOK /\ ReqTypeOK /\ DecTypeOK /\ CpuTypeOK
  /\ LatTypeOK /\ AluTypeOK /\ IrqTypeOK /\ PcpiTypeOK

-------------------------------------------------------------------------------
(* Memory interface *)

next_pc == IF latched_store /\ latched_branch THEN reg_out ELSE reg_next_pc

mem_xfer == mem_valid /\ mem_ready
mem_done_IgnoresReady ==
  \/ mem_valid /\ mem_state # 0 /\ (mem_do_rinst \/ mem_do_rdata \/ mem_do_wdata)
  \/ mem_state = 3 /\ mem_do_rinst
mem_done ==
  \/ mem_xfer /\ mem_state # 0 /\ (mem_do_rinst \/ mem_do_rdata \/ mem_do_wdata)
  \/ mem_state = 3 /\ mem_do_rinst

mem_la_write == mem_state = 0 /\ mem_do_wdata
mem_la_read_NoPrefetch == mem_state = 0 /\ (mem_do_rinst \/ mem_do_rdata)
mem_la_read == mem_state = 0 /\ (mem_do_rinst \/ mem_do_prefetch \/ mem_do_rdata)
mem_la_addr == Word(IF mem_do_prefetch \/ mem_do_rinst THEN next_pc ELSE reg_op1)

\* What a look-ahead pulse latches.
AddressPhase ==
  /\ mem_addr' = IF mem_la_read \/ mem_la_write THEN mem_la_addr ELSE mem_addr
  /\ mem_wstrb' = (mem_la_write \/ (mem_wstrb /\ ~mem_la_read))

MemIdle ==
  /\ ~trap /\ mem_state = 0
  /\ AddressPhase
  /\ LET read == mem_do_prefetch \/ mem_do_rinst \/ mem_do_rdata
     IN  /\ mem_valid' = (mem_valid \/ read \/ mem_do_wdata)
         /\ mem_state' = IF mem_do_wdata THEN 2 ELSE IF read THEN 1 ELSE 0
         /\ mem_instr' = (/\ ~mem_do_wdata
                          /\ mem_do_prefetch \/ mem_do_rinst \/ (mem_instr /\ ~mem_do_rdata))

\* A prefetch nobody asked for yet is held.
AfterRead_HoldsData == IF mem_do_rinst THEN 0 ELSE 3
AfterRead == IF mem_do_rinst \/ mem_do_rdata THEN 0 ELSE 3

MemRead_Pulse ==
  /\ ~trap /\ mem_state = 1
  /\ mem_valid' = FALSE
  /\ mem_state' = IF mem_xfer THEN AfterRead ELSE 1
  /\ UNCHANGED <<mem_addr, mem_wstrb, mem_instr>>
MemRead ==
  /\ ~trap /\ mem_state = 1
  /\ mem_valid' = (mem_valid /\ ~mem_xfer)
  /\ mem_state' = IF mem_xfer THEN AfterRead ELSE 1
  /\ UNCHANGED <<mem_addr, mem_wstrb, mem_instr>>

MemWrite_BackToBack ==
  /\ ~trap /\ mem_state = 2
  /\ mem_valid' = (mem_valid /\ (~mem_xfer \/ mem_do_wdata))
  /\ mem_state' = IF mem_xfer THEN 0 ELSE 2
  /\ UNCHANGED <<mem_addr, mem_wstrb, mem_instr>>
MemWrite ==
  /\ ~trap /\ mem_state = 2
  /\ mem_valid' = (mem_valid /\ ~mem_xfer)
  /\ mem_state' = IF mem_xfer THEN 0 ELSE 2
  /\ UNCHANGED <<mem_addr, mem_wstrb, mem_instr>>

\* A completed prefetch waits for the core to ask for the instruction.
MemHold ==
  /\ ~trap /\ mem_state = 3
  /\ mem_state' = IF mem_do_rinst THEN 0 ELSE 3
  /\ UNCHANGED <<mem_valid, mem_addr, mem_wstrb, mem_instr>>

MemTrapped ==
  /\ trap
  /\ mem_valid' = (mem_valid /\ ~mem_ready)
  /\ UNCHANGED <<mem_state, mem_addr, mem_wstrb, mem_instr>>

\* mem_ready is read only while mem_valid is high.
Memory ==
  /\ MemIdle \/ MemRead \/ MemWrite \/ MemHold \/ MemTrapped
  /\ mem_ready' \in {FALSE, mem_valid'}

-------------------------------------------------------------------------------
(* Instruction decoder *)

Stage1Ops == {"lui", "jal", "jalr", "retirq", "waitirq"}
Stage2Ops == {"branch", "load", "store", "addi", "slli", "add", "sll", "csr",
              "getq", "setq", "maskirq", "timer"}

\* Stage 2 combines the class stage 1 found with the word's other fields.
NeedsStage1 == {"branch", "load", "store", "addi", "slli", "add", "sll"}
Stage2(w) == IF w.op \in NeedsStage1 /\ dec1.op # w.op THEN [w EXCEPT !.op = "data"] ELSE w

instr_trap ==
  (CATCH_ILLINSN \/ WITH_PCPI) /\ dec1.op \notin Stage1Ops /\ dec2.op \notin Stage2Ops
is_branch == dec1.op = "branch"
is_load == dec1.op \in {"load", "badload"}
is_store == dec1.op \in {"store", "badstore"}

\* The word on mem_rdata when a transfer completes.
Fetched == IF mem_instr THEN [at : {mem_addr}, op : config.Ops]
           ELSE {[at |-> mem_addr, op |-> "data"]}

Stage2Enable_Pseudo == decoder_trigger
Stage2Enable == decoder_trigger /\ ~decoder_pseudo_trigger

\* Stage 1 latches a requested instruction as it arrives, stage 2 one cycle
\* later from mem_rdata_q, unless the trigger only reports a finished load or
\* store (decoder_pseudo_trigger).
Decode ==
  /\ \E w \in IF mem_xfer THEN Fetched ELSE {mem_rdata_q} :
       /\ mem_rdata_q' = w
       /\ dec1' = IF mem_do_rinst /\ mem_done THEN w ELSE dec1
  /\ dec2' = IF Stage2Enable THEN Stage2(mem_rdata_q) ELSE dec2
  /\ decoder_trigger_q' = decoder_trigger
  /\ decoder_pseudo_trigger_q' = decoder_pseudo_trigger

-------------------------------------------------------------------------------
(* What every cycle of the main state machine shares *)

Pending == irq_pending \ irq_mask
Raisable(i) == ENABLE_IRQ /\ i \notin irq_mask /\ ~irq_active

Misaligned ==
  /\ CATCH_MISALIGN
  /\ \/ (mem_do_rdata \/ mem_do_wdata) /\ Odd(reg_op1)
     \/ mem_do_rinst /\ Odd(reg_pc)

\* Without CATCH_ILLINSN an EBREAK stops the core as soon as it is decoded.
EbreakDecoded ==
  ~CATCH_ILLINSN /\ decoder_trigger_q /\ ~decoder_pseudo_trigger_q /\ dec2.op = "ebreak"

\* The assignments after the case statement that may override cpu_state.
Goto(s) ==
  cpu_state' = IF EbreakDecoded \/ (Misaligned /\ ~Raisable(irq_buserror)) THEN "trap" ELSE s

TimerIrq == IF ENABLE_IRQ_TIMER /\ timer = 1 THEN {irq_timer} ELSE {}

\* next_irq_pending: kept latched interrupts, those this cycle raises, the lines.
IrqPending(kept, raised) ==
  \E lines \in SUBSET ExtIrqs :
    irq_pending' =
      IF ~ENABLE_IRQ THEN {}
      ELSE (kept \cup raised \cup lines
            \cup (IF Misaligned /\ Raisable(irq_buserror) THEN {irq_buserror} ELSE {})
            \cup TimerIrq) \ MASKED_IRQ

Latched == irq_pending \cap LATCHED_IRQ

Countdown_Underflow == timer' = IF ENABLE_IRQ_TIMER THEN timer - 1 ELSE 0
Countdown == timer' = IF timer > 0 THEN timer - 1 ELSE 0

\* mem_do_*: a finished transfer clears all four, a set_mem_do_* wins over it.
Request(prefetch, rinst, set) ==
  /\ mem_do_prefetch' = (prefetch /\ ~mem_done)
  /\ mem_do_rinst' = ((rinst /\ ~mem_done) \/ set = "rinst")
  /\ mem_do_rdata' = ((mem_do_rdata /\ ~mem_done) \/ set = "rdata")
  /\ mem_do_wdata' = ((mem_do_wdata /\ ~mem_done) \/ set = "wdata")

KeepRequest == Request(mem_do_prefetch, mem_do_rinst, "none")

Trigger == decoder_trigger' = (mem_do_rinst /\ mem_done) /\ decoder_pseudo_trigger' = FALSE

\* The comparison of the operand registers, and its pipeline registers.
Alu ==
  /\ alu_cmp_r' = (TWO_CYCLE_ALU /\ alu_cmp)
  /\ alu_out_0_q' = (TWO_CYCLE_COMPARE /\ IF TWO_CYCLE_ALU THEN alu_cmp_r ELSE alu_cmp)
BranchTaken ==
  IF TWO_CYCLE_COMPARE THEN alu_out_0_q ELSE IF TWO_CYCLE_ALU THEN alu_cmp_r ELSE alu_cmp

\* The counter is reloaded outside a co-processor instruction and by pcpi_wait.
PcpiCount_NoReload(wait) ==
  IF wait THEN MaxTimeout
  ELSE IF pcpi_valid /\ pcpi_timeout_counter > 0 THEN pcpi_timeout_counter - 1
  ELSE pcpi_timeout_counter
PcpiCount(wait) ==
  IF ~pcpi_valid \/ wait THEN MaxTimeout
  ELSE IF pcpi_timeout_counter > 0 THEN pcpi_timeout_counter - 1 ELSE 0

PcpiTimeout ==
  IF WITH_PCPI /\ CATCH_ILLINSN
  THEN /\ \E pcpi_int_wait \in IF pcpi_valid THEN BOOLEAN ELSE {FALSE} :
            pcpi_timeout_counter' = PcpiCount(pcpi_int_wait)
       /\ pcpi_timeout' = (pcpi_timeout_counter = 0)
  ELSE UNCHANGED <<pcpi_timeout, pcpi_timeout_counter>>

Every == Memory /\ Decode /\ Alu /\ PcpiTimeout /\ UNCHANGED config

-------------------------------------------------------------------------------
(* cpu_state_fetch: write back, take an interrupt, wait, or launch *)

IrqArm == irq_state # 0 /\ ~latched_branch /\ ~latched_store
current_pc_AnyBranch ==
  IF latched_branch THEN IF latched_stalu THEN alu_out_q ELSE reg_out
  ELSE IF IrqArm /\ irq_state = 1 THEN PROGADDR_IRQ
  ELSE reg_next_pc
current_pc ==
  IF latched_branch /\ latched_store THEN IF latched_stalu THEN alu_out_q ELSE reg_out
  ELSE IF IrqArm /\ irq_state = 1 THEN PROGADDR_IRQ
  ELSE reg_next_pc

TakeIrq_Unmasked ==
  /\ ENABLE_IRQ
  /\ \/ irq_state # 0
     \/ decoder_trigger /\ ~irq_active /\ ~irq_delay /\ irq_pending # {}
TakeIrq_AnyTime ==
  /\ ENABLE_IRQ
  /\ irq_state # 0 \/ (~irq_active /\ ~irq_delay /\ Pending # {})
TakeIrq ==
  /\ ENABLE_IRQ
  /\ \/ irq_state # 0
     \/ decoder_trigger /\ ~irq_active /\ ~irq_delay /\ Pending # {}
WaitIrq == ~TakeIrq /\ ENABLE_IRQ /\ (decoder_trigger \/ do_waitirq) /\ dec1.op = "waitirq"
Launch == ~TakeIrq /\ ~WaitIrq /\ decoder_trigger

InFetch == cpu_state = "fetch" /\ Every
FetchCommon ==
  /\ InFetch
  /\ reg_pc' = current_pc
  /\ latched_stalu' = FALSE
  /\ Countdown
  /\ UNCHANGED <<reg_op1, reg_sh, alu_cmp, irq_mask, pcpi_valid>>
  /\ trap' = FALSE /\ Trigger
  /\ alu_wait' = FALSE /\ alu_wait_2' = FALSE /\ alu_out_q' = X

\* The three cycles of an interrupt entry: accept, vector, acknowledge.
FetchIrq ==
  /\ FetchCommon /\ TakeIrq
  /\ reg_next_pc' = current_pc /\ reg_out' = X
  /\ latched_store' = FALSE /\ latched_branch' = FALSE
  /\ latched_rd' = [reg |-> IF irq_state = 1 THEN "q1" ELSE "q0", at |-> Word(X)]
  /\ irq_state' = (irq_state + 1) % 3
  /\ irq_active' = (irq_active \/ (IrqArm /\ irq_state = 1))
  /\ IF IrqArm /\ irq_state = 2
     THEN eoi' = Pending /\ IrqPending(Latched \cap irq_mask, {})
     ELSE eoi' = eoi /\ IrqPending(Latched, {})
  /\ Request(mem_do_prefetch,
             (~decoder_trigger /\ ~do_waitirq) \/ (IrqArm /\ irq_state = 1), "none")
  /\ do_waitirq' = FALSE /\ UNCHANGED irq_delay
  /\ Goto("fetch")

Rd(insn) == [reg |-> "rd", at |-> insn.at]

FetchWaitirq ==
  /\ FetchCommon /\ WaitIrq
  /\ latched_rd' = Rd(dec1) /\ latched_branch' = FALSE /\ reg_out' = X
  /\ latched_store' = (irq_pending # {})
  /\ reg_next_pc' = IF irq_pending # {} THEN Plus4(current_pc) ELSE current_pc
  /\ do_waitirq' = (irq_pending = {})
  /\ Request(mem_do_prefetch, (~decoder_trigger /\ ~do_waitirq) \/ irq_pending # {}, "none")
  /\ IrqPending(Latched, {})
  /\ UNCHANGED <<irq_state, irq_active, irq_delay, eoi>>
  /\ Goto("fetch")

\* The first instruction after the handler runs before the next interrupt.
NextDelay_Sticky == irq_active \/ irq_delay
NextDelay == irq_active

FetchJal ==
  /\ FetchCommon /\ Launch /\ dec1.op = "jal"
  /\ reg_next_pc' \in Possible(JumpTargets) /\ reg_out' = X
  /\ latched_branch' = TRUE /\ latched_store' = FALSE /\ latched_rd' = Rd(dec1)
  /\ Request(mem_do_prefetch, TRUE, "none")
  /\ irq_delay' = NextDelay /\ do_waitirq' = FALSE
  /\ IrqPending(Latched, {}) /\ UNCHANGED <<irq_state, irq_active, eoi>>
  /\ Goto("fetch")

\* The next instruction is prefetched unless its address is not known yet.
Prefetches == dec1.op \notin {"jalr", "retirq"}

FetchLaunch ==
  /\ FetchCommon /\ Launch /\ dec1.op # "jal"
  /\ reg_next_pc' = Plus4(current_pc) /\ reg_out' = X
  /\ latched_branch' = FALSE /\ latched_store' = FALSE /\ latched_rd' = Rd(dec1)
  /\ Request(Prefetches, FALSE, "none")
  /\ irq_delay' = NextDelay /\ do_waitirq' = FALSE
  /\ IrqPending(Latched, {}) /\ UNCHANGED <<irq_state, irq_active, eoi>>
  /\ Goto("ld_rs1")

FetchWait ==
  /\ FetchCommon /\ ~TakeIrq /\ ~WaitIrq /\ ~Launch
  /\ reg_next_pc' = current_pc /\ reg_out' = X
  /\ latched_branch' = FALSE /\ latched_store' = FALSE /\ latched_rd' = Rd(dec1)
  /\ Request(mem_do_prefetch, ~do_waitirq, "none")
  /\ do_waitirq' = FALSE
  /\ IrqPending(Latched, {}) /\ UNCHANGED <<irq_state, irq_active, irq_delay, eoi>>
  /\ Goto("fetch")

-------------------------------------------------------------------------------
(* cpu_state_ld_rs1 and cpu_state_ld_rs2: operands, dispatch *)

\* A load is refused its arm if it has no legal width.
LoadArm_Unchecked == is_load
LoadArm == is_load /\ ~instr_trap

\* The case arms of cpu_state_ld_rs1 whose condition holds.
LdRs1Arms ==
  (IF instr_trap THEN {"trap"} ELSE {})
  \cup (IF LoadArm THEN {"load"} ELSE {})
  \cup (IF dec1.op \in {"lui", "jal"} THEN {"lui"} ELSE {})
  \cup ({dec1.op} \cap {"retirq"})
  \cup ({dec2.op} \cap {"csr", "getq", "setq", "maskirq", "timer"})
  \cup (IF dec2.op = "slli" /\ ~BARREL_SHIFTER THEN {"shift"} ELSE {})
  \cup (IF dec1.op = "jalr" \/ dec2.op = "addi" \/ (dec2.op = "slli" /\ BARREL_SHIFTER)
        THEN {"imm"} ELSE {})

LdRs2Arms ==
  (IF WITH_PCPI /\ instr_trap THEN {"trap"} ELSE {})
  \cup (IF is_store THEN {"store"} ELSE {})
  \cup (IF dec2.op = "sll" /\ ~BARREL_SHIFTER THEN {"shift"} ELSE {})

\* Registers no arm of a state other than cpu_state_fetch touches.
NotFetch ==
  /\ Every
  /\ trap' = FALSE /\ do_waitirq' = FALSE
  /\ UNCHANGED <<reg_pc, reg_next_pc, irq_state, irq_delay>>

KeepIrq == UNCHANGED <<irq_active, irq_mask, eoi>>
\* The destination register is that of the instruction launched, although the
\* decoder may already hold the next one.
KeepRd_FromDecoder == latched_rd' = Rd(dec1)
KeepRd == UNCHANGED latched_rd
KeepLatches == KeepRd /\ UNCHANGED <<latched_store, latched_stalu, latched_branch>>
NoWait == alu_wait' = FALSE /\ alu_wait_2' = FALSE
Quiet == IrqPending(Latched, {}) /\ Countdown

InLdRs1(arm) ==
  /\ cpu_state = "ld_rs1" /\ NotFetch /\ Trigger
  /\ IF arm = "default" THEN LdRs1Arms = {} ELSE arm \in LdRs1Arms
  /\ alu_out_q' = X

\* EBREAK, ECALL and illegal instructions: interrupt 1 or the end.
Illegal(raised) ==
  IF Raisable(irq_ebreak) THEN raised = {irq_ebreak} /\ Goto("fetch")
  ELSE raised = {} /\ Goto("trap")

\* An instruction handed to the co-processors.
Pcpi(again) ==
  \/ /\ pcpi_valid
     /\ pcpi_valid' = FALSE
     /\ Request(mem_do_prefetch, TRUE, "none")
     /\ latched_store' \in BOOLEAN
     /\ Quiet /\ Goto("fetch")
  \/ /\ CATCH_ILLINSN /\ (pcpi_timeout \/ dec2.op = "ebreak")
     /\ pcpi_valid' = FALSE
     /\ KeepRequest /\ UNCHANGED latched_store
     /\ \E raised \in SUBSET {irq_ebreak} : IrqPending(Latched, raised) /\ Illegal(raised)
     /\ Countdown
  \/ /\ ~(CATCH_ILLINSN /\ (pcpi_timeout \/ dec2.op = "ebreak"))
     /\ pcpi_valid' = TRUE
     /\ KeepRequest /\ UNCHANGED latched_store
     /\ Quiet /\ Goto(again)

LdRs1Pcpi ==
  /\ InLdRs1("trap") /\ WITH_PCPI
  /\ reg_out' = X /\ reg_op1' = X /\ reg_sh' = 0 /\ alu_cmp' = FALSE /\ NoWait /\ KeepIrq
  /\ UNCHANGED <<latched_stalu, latched_branch, latched_rd>>
  /\ IF ENABLE_REGS_DUALPORT THEN Pcpi("ld_rs1")
     ELSE /\ KeepRequest /\ UNCHANGED <<latched_store, pcpi_valid>>
          /\ Quiet /\ Goto("ld_rs2")

LdRs1Illegal ==
  /\ InLdRs1("trap") /\ ~WITH_PCPI
  /\ reg_out' = X /\ reg_op1' = X /\ reg_sh' = 0 /\ alu_cmp' = FALSE /\ NoWait /\ KeepIrq
  /\ KeepLatches /\ KeepRequest /\ UNCHANGED pcpi_valid
  /\ \E raised \in SUBSET {irq_ebreak} : IrqPending(Latched, raised) /\ Illegal(raised)
  /\ Countdown

\* rdcycle, rdinstr, getq and setq: one register or counter is read.
LdRs1Read ==
  /\ InLdRs1("csr") \/ InLdRs1("getq") \/ InLdRs1("setq")
  /\ latched_store' = TRUE
  /\ latched_rd' = IF dec2.op = "setq" THEN [latched_rd EXCEPT !.reg = "q"] ELSE latched_rd
  /\ reg_out' = X /\ reg_op1' = X /\ reg_sh' = 0 /\ alu_cmp' = FALSE /\ NoWait
  /\ KeepRequest /\ KeepIrq /\ Quiet
  /\ UNCHANGED <<latched_stalu, latched_branch, pcpi_valid>>
  /\ Goto("fetch")

LdRs1Retirq ==
  /\ InLdRs1("retirq")
  /\ eoi' = {} /\ irq_active' = FALSE
  /\ latched_branch' = TRUE /\ latched_store' = TRUE
  /\ reg_out' \in Possible(JumpTargets)
  /\ reg_op1' = X /\ reg_sh' = 0 /\ alu_cmp' = FALSE /\ NoWait
  /\ KeepRequest /\ Quiet
  /\ UNCHANGED <<latched_stalu, latched_rd, irq_mask, pcpi_valid>>
  /\ Goto("fetch")

LdRs1Maskirq ==
  /\ InLdRs1("maskirq")
  /\ \E rs1 \in SUBSET Irqs : irq_mask' = rs1 \cup MASKED_IRQ
  /\ latched_store' = TRUE
  /\ reg_out' = X /\ reg_op1' = X /\ reg_sh' = 0 /\ alu_cmp' = FALSE /\ NoWait
  /\ KeepRequest /\ Quiet
  /\ UNCHANGED <<latched_stalu, latched_branch, latched_rd, irq_active, eoi, pcpi_valid>>
  /\ Goto("fetch")

LdRs1Timer ==
  /\ InLdRs1("timer")
  /\ timer' \in 0..MaxTimer
  /\ latched_store' = TRUE
  /\ reg_out' = X /\ reg_op1' = X /\ reg_sh' = 0 /\ alu_cmp' = FALSE /\ NoWait
  /\ KeepRequest /\ KeepIrq /\ IrqPending(Latched, {})
  /\ UNCHANGED <<latched_stalu, latched_branch, latched_rd, pcpi_valid>>
  /\ Goto("fetch")

LdRs1Load ==
  /\ InLdRs1("load")
  /\ reg_op1' = X /\ reg_out' = X /\ reg_sh' = 0 /\ alu_cmp' = FALSE /\ NoWait
  /\ Request(mem_do_prefetch, TRUE, "none")
  /\ KeepLatches /\ KeepIrq /\ Quiet /\ UNCHANGED pcpi_valid
  /\ Goto("ldmem")

LdRs1Shift ==
  /\ InLdRs1("shift")
  /\ reg_sh' \in 0..MaxShift
  /\ reg_op1' = X /\ reg_out' = X /\ alu_cmp' = FALSE /\ NoWait
  /\ KeepRequest /\ KeepLatches /\ KeepIrq /\ Quiet /\ UNCHANGED pcpi_valid
  /\ Goto("shift")

\* lui, auipc, and the immediate operations with jalr.
LdRs1Imm ==
  /\ InLdRs1("lui") \/ InLdRs1("imm")
  /\ alu_wait' = TWO_CYCLE_ALU /\ alu_wait_2' = FALSE
  /\ Request(mem_do_prefetch, IF TWO_CYCLE_ALU THEN mem_do_rinst ELSE mem_do_prefetch, "none")
  /\ reg_op1' = X /\ reg_out' = X /\ reg_sh' = 0 /\ alu_cmp' = FALSE
  /\ KeepLatches /\ KeepIrq /\ Quiet /\ UNCHANGED pcpi_valid
  /\ Goto("exec")

\* A branch waits twice if comparison and ALU are both pipelined.
SecondWait_Dropped == FALSE
SecondWait == TWO_CYCLE_ALU /\ TWO_CYCLE_COMPARE /\ is_branch

\* Both operands are there: on to the store, the shifter or the ALU.
WithRs2(arms) ==
  \/ /\ "store" \in arms
     /\ Request(mem_do_prefetch, TRUE, "none")
     /\ reg_sh' = 0 /\ alu_cmp' = FALSE /\ NoWait /\ Goto("stmem")
  \/ /\ "shift" \in arms
     /\ KeepRequest
     /\ reg_sh' \in 0..MaxShift /\ alu_cmp' = FALSE /\ NoWait /\ Goto("shift")
  \/ /\ arms \cap {"store", "shift"} = {}
     /\ LET slow == TWO_CYCLE_ALU \/ (TWO_CYCLE_COMPARE /\ is_branch)
        IN  /\ alu_wait' = slow
            /\ alu_wait_2' = SecondWait
            /\ Request(mem_do_prefetch, IF slow THEN mem_do_rinst ELSE mem_do_prefetch, "none")
     /\ alu_cmp' \in IF is_branch THEN BOOLEAN ELSE {FALSE}
     /\ reg_sh' = 0 /\ Goto("exec")

LdRs1Default ==
  /\ InLdRs1("default")
  /\ reg_op1' = X /\ reg_out' = X
  /\ KeepLatches /\ KeepIrq /\ Quiet /\ UNCHANGED pcpi_valid
  /\ IF ENABLE_REGS_DUALPORT THEN WithRs2(LdRs2Arms)
     ELSE KeepRequest /\ reg_sh' = 0 /\ alu_cmp' = FALSE /\ NoWait /\ Goto("ld_rs2")

InLdRs2 ==
  /\ cpu_state = "ld_rs2" /\ NotFetch /\ Trigger
  /\ reg_out' = X /\ alu_out_q' = X /\ UNCHANGED reg_op1
  /\ KeepIrq

LdRs2Pcpi ==
  /\ InLdRs2 /\ "trap" \in LdRs2Arms
  /\ reg_sh' = 0 /\ alu_cmp' = FALSE /\ NoWait
  /\ UNCHANGED <<latched_stalu, latched_branch, latched_rd>>
  /\ Pcpi("ld_rs2")

LdRs2Dispatch ==
  /\ InLdRs2 /\ LdRs2Arms # {"trap"}
  /\ KeepLatches /\ Quiet /\ UNCHANGED pcpi_valid
  /\ WithRs2(LdRs2Arms)

-------------------------------------------------------------------------------
(* cpu_state_exec, cpu_state_shift *)

InExec ==
  /\ cpu_state = "exec" /\ NotFetch
  /\ reg_sh' = 0 /\ UNCHANGED <<reg_op1, alu_cmp>>
  /\ KeepIrq /\ Quiet /\ UNCHANGED pcpi_valid

Waiting == (TWO_CYCLE_ALU \/ TWO_CYCLE_COMPARE) /\ (alu_wait \/ alu_wait_2)

ExecWait ==
  /\ InExec /\ Waiting
  /\ Request(mem_do_prefetch, mem_do_prefetch /\ ~alu_wait_2, "none")
  /\ alu_wait' = alu_wait_2 /\ alu_wait_2' = FALSE
  /\ reg_out' = X /\ alu_out_q' = X
  /\ KeepLatches /\ Trigger
  /\ Goto("exec")

BranchTrigger_Kept == mem_do_rinst /\ mem_done
BranchTrigger == mem_do_rinst /\ mem_done /\ ~BranchTaken

\* The branch waits for the instruction behind it; if taken, drops it.
ExecBranch ==
  /\ InExec /\ ~Waiting /\ is_branch
  /\ latched_rd' = [reg |-> "x0", at |-> Word(X)]
  /\ latched_store' = BranchTaken /\ latched_branch' = BranchTaken
  /\ reg_out' \in Possible(JumpTargets)
  /\ Request(mem_do_prefetch, mem_do_rinst, IF BranchTaken THEN "rinst" ELSE "none")
  /\ decoder_trigger' = BranchTrigger
  /\ decoder_pseudo_trigger' = FALSE
  /\ NoWait /\ alu_out_q' = X /\ UNCHANGED latched_stalu
  /\ Goto(IF mem_done THEN "fetch" ELSE "exec")

ExecAlu ==
  /\ InExec /\ ~Waiting /\ ~is_branch
  /\ latched_branch' = (dec1.op = "jalr") /\ latched_store' = TRUE /\ latched_stalu' = TRUE
  /\ alu_out_q' \in IF dec1.op = "jalr" THEN Possible(JumpTargets) ELSE {X}
  /\ reg_out' = X /\ NoWait /\ UNCHANGED latched_rd
  /\ KeepRequest /\ Trigger
  /\ Goto("fetch")

\* TWO_STAGE_SHIFT: four positions at a time, then one.
Shift ==
  /\ cpu_state = "shift" /\ NotFetch /\ Trigger
  /\ latched_store' = TRUE
  /\ IF reg_sh = 0
     THEN Request(mem_do_prefetch, mem_do_prefetch, "none") /\ reg_sh' = 0 /\ Goto("fetch")
     ELSE KeepRequest /\ reg_sh' = reg_sh - (IF reg_sh >= 4 THEN 4 ELSE 1) /\ Goto("shift")
  /\ reg_out' = X /\ alu_out_q' = X /\ NoWait
  /\ KeepIrq /\ Quiet
  /\ UNCHANGED <<reg_op1, alu_cmp, latched_stalu, latched_branch, latched_rd, pcpi_valid>>

-------------------------------------------------------------------------------
(* cpu_state_stmem, cpu_state_ldmem *)

InMem(s) ==
  /\ cpu_state = s /\ NotFetch
  /\ reg_out' = X /\ reg_sh' = 0 /\ alu_out_q' = X /\ NoWait
  /\ KeepIrq /\ Quiet
  /\ latched_store' = (latched_store \/ s = "ldmem")
  /\ KeepRd /\ UNCHANGED <<alu_cmp, latched_stalu, latched_branch, pcpi_valid>>

PrefetchOver == ~mem_do_prefetch \/ mem_done

\* The instruction behind a load or store is fetched first.
MemWaitFetch(s) ==
  /\ InMem(s)
  /\ ~PrefetchOver
  /\ KeepRequest /\ Trigger /\ UNCHANGED reg_op1
  /\ Goto(s)

\* Then the address is computed and the data transfer requested ...
MemRequest(s, requested, set) ==
  /\ InMem(s)
  /\ PrefetchOver /\ ~requested
  /\ ~(~mem_do_prefetch /\ mem_done)
  /\ reg_op1' \in Possible(DataAddrs)
  /\ Request(mem_do_prefetch, mem_do_rinst, set) /\ Trigger
  /\ Goto(s)

\* ... and awaited; its end triggers the instruction decoded meanwhile.
MemWaitData(s, requested) ==
  /\ InMem(s)
  /\ requested /\ mem_do_prefetch = mem_done
  /\ KeepRequest /\ Trigger /\ UNCHANGED reg_op1
  /\ Goto(s)

MemFinish(s, requested, set) ==
  /\ InMem(s)
  /\ ~mem_do_prefetch /\ mem_done
  /\ reg_op1' \in IF requested THEN {reg_op1} ELSE Possible(DataAddrs)
  /\ Request(mem_do_prefetch, mem_do_rinst, IF requested THEN "none" ELSE set)
  /\ decoder_trigger' = TRUE /\ decoder_pseudo_trigger' = TRUE
  /\ Goto("fetch")

StMem ==
  \/ MemWaitFetch("stmem")
  \/ MemRequest("stmem", mem_do_wdata, "wdata")
  \/ MemWaitData("stmem", mem_do_wdata)
  \/ MemFinish("stmem", mem_do_wdata, "wdata")

LdMem ==
  \/ MemWaitFetch("ldmem")
  \/ MemRequest("ldmem", mem_do_rdata, "rdata")
  \/ MemWaitData("ldmem", mem_do_rdata)
  \/ MemFinish("ldmem", mem_do_rdata, "rdata")

Trapped ==
  /\ cpu_state = "trap" /\ Every
  /\ trap' = TRUE
  /\ KeepRequest /\ Trigger /\ NoWait
  /\ reg_out' = X /\ reg_sh' = 0 /\ alu_out_q' = X /\ do_waitirq' = FALSE
  /\ KeepLatches /\ KeepIrq /\ Quiet
  /\ UNCHANGED <<reg_pc, reg_next_pc, reg_op1, alu_cmp, irq_state, irq_delay, pcpi_valid>>
  /\ Goto("trap")

-------------------------------------------------------------------------------
(* Reset, initial state, specification *)

\* The decode flags that reset clears; mem_done is low.
ResetDecode ==
  /\ mem_rdata_q' \in IF mem_xfer THEN Fetched ELSE {mem_rdata_q}
  /\ dec1' = IF is_branch THEN [dec1 EXCEPT !.op = "data"] ELSE dec1
  /\ LET d == IF Stage2Enable THEN Stage2(mem_rdata_q) ELSE dec2
     IN  dec2' = IF d.op \in {"branch", "addi", "add"} THEN [d EXCEPT !.op = "data"] ELSE d
  /\ decoder_trigger_q' = decoder_trigger
  /\ decoder_pseudo_trigger_q' = decoder_pseudo_trigger

\* A clock edge with resetn low.
Reset ==
  /\ mem_state' = 0 /\ mem_valid' = FALSE /\ mem_ready' = FALSE
  /\ mem_do_prefetch' = FALSE /\ mem_do_rinst' = FALSE
  /\ mem_do_rdata' = FALSE /\ mem_do_wdata' = FALSE
  /\ ResetDecode /\ decoder_trigger' = FALSE /\ decoder_pseudo_trigger' = FALSE
  /\ cpu_state' = (IF EbreakDecoded THEN "trap" ELSE "fetch") /\ trap' = FALSE
  /\ reg_pc' = PROGADDR_RESET /\ reg_next_pc' = PROGADDR_RESET
  /\ reg_out' = X /\ reg_sh' = 0 /\ UNCHANGED reg_op1
  /\ latched_store' = HAS_STACKADDR /\ latched_stalu' = FALSE /\ latched_branch' = FALSE
  /\ latched_rd' = IF HAS_STACKADDR THEN [reg |-> "sp", at |-> Word(X)] ELSE latched_rd
  /\ Alu /\ alu_out_q' = X /\ NoWait /\ UNCHANGED alu_cmp
  /\ irq_state' = 0 /\ irq_active' = FALSE /\ irq_delay' = FALSE
  /\ \E lines \in SUBSET ExtIrqs :
       irq_pending' = IF ENABLE_IRQ THEN (lines \cup TimerIrq) \ MASKED_IRQ ELSE {}
  /\ irq_mask' = Irqs /\ eoi' = {} /\ timer' = 0 /\ do_waitirq' = FALSE
  /\ pcpi_valid' = FALSE /\ pcpi_timeout' = FALSE /\ pcpi_timeout_counter' = MaxTimeout
  /\ UNCHANGED <<mem_addr, mem_wstrb, mem_instr, config>>

Init ==
  /\ config \in Configs
  /\ mem_state = 0 /\ mem_valid = FALSE /\ mem_instr = FALSE /\ mem_addr = Word(X)
  /\ mem_wstrb = FALSE /\ mem_rdata_q = Blank /\ mem_ready = FALSE
  /\ mem_do_prefetch = FALSE /\ mem_do_rinst = FALSE
  /\ mem_do_rdata = FALSE /\ mem_do_wdata = FALSE
  /\ dec1 = Blank /\ dec2 = Blank /\ decoder_trigger = FALSE /\ decoder_trigger_q = FALSE
  /\ decoder_pseudo_trigger = FALSE /\ decoder_pseudo_trigger_q = FALSE
  /\ cpu_state = "fetch" /\ trap = FALSE
  /\ reg_pc = PROGADDR_RESET /\ reg_next_pc = PROGADDR_RESET
  /\ reg_out = X /\ reg_op1 = X /\ reg_sh = 0
  /\ latched_store = HAS_STACKADDR /\ latched_stalu = FALSE /\ latched_branch = FALSE
  /\ latched_rd = [reg |-> IF HAS_STACKADDR THEN "sp" ELSE "x0", at |-> Word(X)]
  /\ alu_cmp = FALSE /\ alu_cmp_r = FALSE /\ alu_out_0_q = FALSE /\ alu_out_q = X
  /\ alu_wait = FALSE /\ alu_wait_2 = FALSE
  /\ irq_state = 0 /\ irq_active = FALSE /\ irq_delay = FALSE
  /\ irq_pending = {} /\ irq_mask = Irqs /\ eoi = {} /\ timer = 0 /\ do_waitirq = FALSE
  /\ pcpi_valid = FALSE /\ pcpi_timeout = FALSE /\ pcpi_timeout_counter = MaxTimeout

Step ==
  \/ FetchIrq \/ FetchWaitirq \/ FetchJal \/ FetchLaunch \/ FetchWait
  \/ LdRs1Pcpi \/ LdRs1Illegal \/ LdRs1Read \/ LdRs1Retirq \/ LdRs1Maskirq
  \/ LdRs1Timer \/ LdRs1Load \/ LdRs1Shift \/ LdRs1Imm \/ LdRs1Default
  \/ LdRs2Pcpi \/ LdRs2Dispatch
  \/ ExecWait \/ ExecBranch \/ ExecAlu \/ Shift \/ StMem \/ LdMem \/ Trapped

Next == Reset \/ Step

Spec == Init /\ [][Next]_vars
===============================================================================
