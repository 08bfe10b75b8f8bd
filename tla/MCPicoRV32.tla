------------------------------ MODULE MCPicoRV32 ------------------------------
(***************************************************************************)
(* Settings of the core for model checking: each adds a pipeline stage, a  *)
(* kind of instruction or a way to leave the straight path.                *)
(***************************************************************************)
EXTENDS PicoRV32Props

Config(on, ops) == [on |-> on, Ops |-> ops]

\* No interrupts, serial shifter, illegal instructions trap.
Plain == Config(
  {"CATCH_ILLINSN", "ENABLE_REGS_DUALPORT", "HAS_STACKADDR"},
  {"lui", "jal", "jalr", "branch", "load", "badload", "store", "badstore", "addi", "slli",
   "add", "sll", "csr", "illegal"})

\* One register port, pipelined ALU and comparison, misaligned addresses trap.
Slow == Config(
  {"CATCH_ILLINSN", "CATCH_MISALIGN", "BARREL_SHIFTER", "TWO_CYCLE_ALU", "TWO_CYCLE_COMPARE"},
  {"lui", "jal", "jalr", "branch", "load", "store", "addi", "slli", "add", "sll"})

\* A co-processor port with its time-out, one register port.
Pcpis == Config(
  {"WITH_PCPI", "CATCH_ILLINSN"},
  {"jal", "branch", "load", "sll", "addi", "illegal", "ebreak"})

\* Interrupts from a line, EBREAK and bus errors.
Interrupts == Config(
  {"ENABLE_IRQ", "CATCH_ILLINSN", "CATCH_MISALIGN", "ENABLE_REGS_DUALPORT"},
  {"jal", "jalr", "branch", "load", "retirq", "maskirq", "waitirq", "ebreak"})

\* The timer.
Timer == Config(
  {"ENABLE_IRQ", "ENABLE_IRQ_TIMER", "CATCH_ILLINSN", "ENABLE_REGS_DUALPORT"},
  {"addi", "getq", "setq", "timer", "retirq", "maskirq", "waitirq"})

\* EBREAK stops the core as soon as it is decoded.
Stops == Config(
  {"ENABLE_REGS_DUALPORT"},
  {"jal", "jalr", "branch", "load", "store", "add", "sll", "illegal", "ebreak"})

\* Interrupts, but nothing catches an instruction that is not defined.
Uncaught == Config(
  {"ENABLE_IRQ", "ENABLE_REGS_DUALPORT"},
  {"badload", "badstore", "addi", "retirq", "maskirq", "ebreak"})

\* For progress: interrupts without the timer, and the slow co-processor port.
Served == Config(
  {"ENABLE_IRQ", "CATCH_ILLINSN", "ENABLE_REGS_DUALPORT"},
  {"jal", "branch", "load", "store", "retirq", "maskirq", "waitirq"})
SlowPcpi == Config(
  {"WITH_PCPI", "CATCH_ILLINSN", "ENABLE_REGS_DUALPORT", "TWO_CYCLE_ALU", "TWO_CYCLE_COMPARE"},
  {"jal", "jalr", "branch", "load", "store", "addi", "sll", "illegal"})

SafetyConfigs == {Plain, Slow, Pcpis, Interrupts, Timer, Stops, Uncaught}
ProgressConfigs == {Served, SlowPcpi}
===============================================================================
