---------------------------- MODULE PicoRV32Props ----------------------------
(***************************************************************************)
(* What the core of PicoRV32 guarantees: properties of the memory          *)
(* interface, of the two decode stages against the instruction they are    *)
(* used for, of interrupts and of the co-processor port, the refinement of *)
(* ISA, and progress.                                                      *)
(***************************************************************************)
EXTENDS PicoRV32

-------------------------------------------------------------------------------
(* Memory interface *)

\* A data transfer is only requested when no fetch is outstanding, and never
\* together with another: the assertions on mem_do_* in the memory interface.
RequestExclusive ==
  ~trap =>
    /\ mem_do_wdata => ~mem_do_prefetch /\ ~mem_do_rinst /\ ~mem_do_rdata
    /\ mem_do_rdata => ~mem_do_prefetch /\ ~mem_do_rinst

\* The request behind each state of the memory interface is still there, and
\* still of the kind the bus was told: its assertions in states 1, 2 and 3.
InterfaceState ==
  ~trap =>
    /\ RequestExclusive
    /\ mem_state = 1 => /\ mem_valid /\ ~mem_wstrb
                        /\ mem_do_prefetch \/ mem_do_rinst \/ mem_do_rdata
                        /\ (mem_instr <=> mem_do_prefetch \/ mem_do_rinst)
    /\ mem_state = 2 => mem_valid /\ mem_wstrb /\ mem_do_wdata
    /\ mem_state = 3 => ~mem_valid /\ ~mem_wstrb /\ mem_do_prefetch

\* A transfer the memory has not answered stays on the bus unchanged, whatever
\* the core does meanwhile, a trap included: only reset takes it back.
Stable ==
  [][mem_valid /\ ~mem_ready /\ Step
       => mem_valid' /\ UNCHANGED <<mem_addr, mem_instr, mem_wstrb>>]_vars

Bus == INSTANCE NativeMaster WITH Addr <- Words

\* The core is the master the bus adapters are composed with: one transfer at a
\* time, unchanged until it is answered, and never two in consecutive cycles.
ImplementsMaster ==
  Bus!MasterInit /\ [][Bus!MasterStep(mem_ready) \/ Bus!MasterReset]_(Bus!masterVars)

\* A look-ahead pulse is always followed by the transfer it announces, and
\* no transfer starts without one (mem_la_read, mem_la_write).
LookAhead ==
  [][Step => /\ mem_la_read \/ mem_la_write => mem_valid' /\ (mem_valid => mem_ready)
             /\ mem_valid' /\ ~mem_valid => mem_la_read \/ mem_la_write]_vars

\* A load or store transfers data exactly once, in its own state, and finishes
\* with that transfer; a trap in between (an address its size forbids) is the
\* only exception.
DataOnce ==
  [][Step => \/ cpu_state = "trap" \/ cpu_state' = "trap"
             \/ (mem_xfer /\ ~mem_instr) <=>
                  (cpu_state \in {"stmem", "ldmem"} /\ cpu_state' = "fetch")]_vars

-------------------------------------------------------------------------------
(* Decoding and execution *)

\* The instruction about to be launched is the one at the program counter, and
\* the word decode stage 2 will use is that of stage 1; it is never launched at
\* an address its size forbids, except right behind the interrupt handler, where
\* the bus error has to wait.
LaunchCoherent ==
  /\ cpu_state = "fetch" /\ decoder_trigger /\ irq_state = 0 =>
       /\ dec1.at = Word(current_pc)
       /\ (IF decoder_pseudo_trigger THEN dec2 ELSE mem_rdata_q) = dec1
  /\ CATCH_MISALIGN /\ cpu_state = "fetch" /\ (Launch \/ WaitIrq) => ~Odd(current_pc) \/ irq_delay

\* While an instruction executes both decode stages describe it, although the
\* next one is being fetched; a load or store that waits for that fetch still
\* has its own width, and a result goes to the destination register of the
\* instruction that made it, not to that of the one decoded meanwhile.
ExecuteCoherent ==
  /\ cpu_state \in {"ld_rs1", "ld_rs2", "exec", "shift"} =>
        dec1 = dec2 /\ dec1.at = Word(reg_pc)
  /\ cpu_state \in {"stmem", "ldmem"} /\ mem_do_prefetch => dec2.at = Word(reg_pc)
  /\ cpu_state = "fetch" /\ latched_store /\ latched_rd.reg = "rd" => latched_rd.at = Word(reg_pc)

\* The attribute parallel_case on the three case statements: at most one arm
\* of each applies.  (A store of illegal width behind a co-processor port would
\* match two; no setting checked has both.)
ParallelCase ==
  /\ cpu_state = "fetch" /\ irq_state # 0 => ~latched_branch /\ ~latched_store
  /\ cpu_state = "ld_rs1" => Cardinality(LdRs1Arms) <= 1
  /\ cpu_state = "ld_rs2" => Cardinality(LdRs2Arms) <= 1

\* A branch acts on the comparison of its own operands, however many cycles
\* TWO_CYCLE_ALU and TWO_CYCLE_COMPARE put between them.
CompareSettled ==
  [][Step /\ cpu_state = "exec" /\ is_branch /\ cpu_state' = "fetch"
       => latched_branch' = alu_cmp]_vars

-------------------------------------------------------------------------------
(* Interrupts *)

\* From the accepted interrupt to its acknowledgement something unmasked stays
\* pending: the handler is never entered with nothing to do (latched lines).
\* The end-of-interrupt lines then name at least one interrupt until the handler
\* returns, and are low outside it (a trap ends both).
HandlerHasWork ==
  /\ irq_state # 0 => Pending # {}
  /\ irq_active /\ irq_state = 0 => eoi # {}
  /\ eoi # {} => irq_active \/ cpu_state = "trap"

\* The return address saved for the handler is that of the next instruction,
\* which has been fetched but not begun, and entries do not nest.
ReturnAddress == irq_state = 1 => dec1.at = Word(reg_next_pc) /\ ~irq_active

-------------------------------------------------------------------------------
(* Co-processors *)

\* Every instruction offered to the co-processors gets the whole time-out: no
\* remainder of an earlier one, no stale verdict.
PcpiBudget ==
  instr_trap /\ ~pcpi_valid /\ cpu_state \in {"ld_rs1", "ld_rs2"}
    => ~pcpi_timeout /\ pcpi_timeout_counter = MaxTimeout

-------------------------------------------------------------------------------
(* The instruction set: PicoRV32 implements ISA *)

\* The address of the instruction that is executing, or is next.
absPc ==
  IF cpu_state # "fetch" THEN reg_pc
  ELSE IF latched_branch /\ latched_store THEN (IF latched_stalu THEN alu_out_q ELSE reg_out)
  ELSE reg_next_pc

\* The instruction that is executing.  A load or store of illegal width that
\* nothing catches runs as one of some width.
runsAs ==
  IF ~instr_trap /\ is_load THEN "load"
  ELSE IF ~instr_trap /\ is_store THEN "store" ELSE dec1.op
absIr ==
  CASE cpu_state \in {"fetch", "trap"} -> "none"
    [] cpu_state = "ldmem" -> "load"
    [] cpu_state = "stmem" -> "store"
    [] OTHER -> runsAs

Abs == INSTANCE ISA WITH pc <- absPc, ir <- absIr, handler <- irq_active,
                         halted <- (cpu_state = "trap"), on <- config.on,
                         Ops <- AllOps

\* Pipelined fetch, prefetching, two decode stages, variable memory latency
\* and the interrupt sequence are invisible: instructions run one at a time.
ImplementsISA == Abs!Spec

-------------------------------------------------------------------------------
(* Progress *)

Answered == Step /\ mem_ready'
PcpiDone == Step /\ pcpi_valid /\ ~pcpi_valid'

\* The clock ticks, reset stays high, the memory answers every transfer, and a
\* co-processor does not hold pcpi_wait for ever.
FairSpec ==
  /\ Init /\ [][Step]_vars
  /\ WF_vars(Step) /\ WF_vars(Answered) /\ WF_vars(PcpiDone)

\* An instruction that began ends, or stops the core; and between instructions
\* the next one arrives, unless the core waits for an interrupt: a prefetch
\* that completed early is not forgotten.
InstructionFinishes ==
  /\ (absIr # "none") ~> (absIr = "none")
  /\ (cpu_state = "fetch") ~> (decoder_trigger \/ do_waitirq \/ cpu_state # "fetch")

\* An unmasked interrupt that is pending outside the handler is served, unless
\* it is masked or withdrawn or the core stops first.  Only a program that is
\* one endless run of waitirq is excepted: waitirq does not end irq_delay.
InterruptServed ==
  []<>(dec1.op # "waitirq") =>
    (Pending # {} /\ ~irq_active) ~> (irq_active \/ Pending = {} \/ cpu_state = "trap")
===============================================================================
