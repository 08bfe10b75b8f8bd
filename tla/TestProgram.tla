------------------------------ MODULE TestProgram ------------------------------
(***************************************************************************)
(* The test program of the core (firmware/start.S, irq.c, sieve.c,         *)
(* multest.c, tests/*.S) as the test bench runs it: instruction tests, a   *)
(* prime sieve, and products and quotients of the units in MulDiv against  *)
(* those of the compiler, with interrupts between any two instructions.    *)
(*                                                                         *)
(* A step is some instructions between which nothing depends on an         *)
(* interrupt, or one clock of an instruction that MulDiv executes.  A line *)
(* raised within an instruction is seen at its end.  Output is left out.   *)
(***************************************************************************)
EXTENDS MulDiv, Sequences, SequencesExt, FiniteSets

CONSTANTS
  TESTS,          \* instruction tests: 44 in start.S
  BITMAP_SIZE,    \* 64
  ROUNDS          \* of multest: 15, the first four with fixed operands

ASSUME ProgramAssumption == {TESTS, BITMAP_SIZE} \subseteq Nat \ {0} /\ ROUNDS \in Nat

VARIABLES
  at,             \* where the program is
  k,              \* test, bit of the bitmap, or round
  operands, hard, \* of multest: a and b, and the results of the units so far
  bitmap, primes, \* of sieve.c: the bits that are set, and what was printed
  irq_pending, irq_mask, irq_active, irq_delay, timer,
  handler,        \* where the interrupt handler is
  machine,        \* registers x and q, and the memory at irq_regs
  tests_passed,   \* of the test bench
  defect          \* what is broken in this core, if anything is

mulVars == <<operands, hard>>
sieveVars == <<bitmap, primes>>
irqVars == <<irq_pending, irq_mask, irq_active, irq_delay, timer>>
vars == <<unitVars, at, k, mulVars, sieveVars, irqVars, handler, machine, tests_passed, defect>>

-------------------------------------------------------------------------------
(* The interrupt handler: what it saves and restores, instruction by
   instruction.  Whatever the program has in register i is named i. *)

Regs == 1 .. 31
Own == [i \in Regs |-> i]
Base == 0            \* the address of irq_regs
Junk == -1           \* what is nobody's
Machine == [x |-> Own, q |-> [i \in 0 .. 3 |-> 0], mem |-> [i \in 0 .. 31 |-> 0]]

setq(q, x) == [op |-> "setq", to |-> q, from |-> x]
getq(x, q) == [op |-> "getq", to |-> x, from |-> q]
sw(x) == [op |-> "sw", to |-> x, from |-> x]
lw(x, slot) == [op |-> "lw", to |-> x, from |-> slot]
sw2(slot) == [op |-> "sw", to |-> slot, from |-> 2]
la(x, value) == [op |-> "la", to |-> x, from |-> value]
mv(to, from) == [op |-> "mv", to |-> to, from |-> from]
From3To31(code) == [i \in 1 .. 29 |-> code[i + 2]]

save_registers ==
  <<setq(2, 1), setq(3, 2), la(1, Base),
    getq(2, 0), sw2(0), getq(2, 2), sw2(1), getq(2, 3), sw2(2)>>
  \o From3To31([i \in Regs |-> sw(i)])
call_handler == <<la(2, Junk), la(10, Base), getq(11, 1)>>
restore_registers_BaseFirst ==
  <<mv(1, 10), lw(2, 0), setq(0, 2), lw(2, 1), setq(1, 2), getq(1, 1), lw(2, 2), setq(2, 2)>>
  \o From3To31([i \in Regs |-> lw(i, i)]) \o <<getq(2, 2)>>
restore_registers ==
  <<mv(1, 10), lw(2, 0), setq(0, 2), lw(2, 1), setq(1, 2), lw(2, 2), setq(2, 2)>>
  \o From3To31([i \in Regs |-> lw(i, i)]) \o <<getq(1, 1), getq(2, 2)>>

\* A store or a load through x1 that is not the base goes astray.
Execute(m, i) ==
  CASE i.op = "setq" -> [m EXCEPT !.q[i.to] = m.x[i.from]]
    [] i.op = "getq" -> [m EXCEPT !.x[i.to] = m.q[i.from]]
    [] i.op = "sw"   -> IF m.x[1] = Base THEN [m EXCEPT !.mem[i.to] = m.x[i.from]] ELSE m
    [] i.op = "lw"   -> [m EXCEPT !.x[i.to] = IF m.x[1] = Base THEN m.mem[i.from] ELSE Junk]
    [] i.op = "la"   -> [m EXCEPT !.x[i.to] = i.from]
    [] i.op = "mv"   -> [m EXCEPT !.x[i.to] = m.x[i.from]]
Run(instructions) ==
  LET after[n \in Nat] ==
        IF n = 0 THEN {machine} ELSE {Execute(m, instructions[n]) : m \in after[n-1]}
  IN  CHOOSE m \in after[Len(instructions)] : TRUE

\* What a C function may leave behind: ra, t0-t6 and a1-a7 are not preserved.
CallerSaved == {1, 5, 6, 7} \cup 11 .. 17 \cup 28 .. 31

-------------------------------------------------------------------------------
(* Interrupts *)

Timer == 0
Ebreak == 1
Buserror == 2
External == 4       \* lines 4 and 5 of the test bench, which irq() treats alike

Interrupted == ~irq_mask /\ ~irq_active /\ ~irq_delay /\ irq_pending # {}
Raise(i) == irq_pending' = irq_pending \cup {i}

\* The program has to run for this step: it is not in the handler, no interrupt
\* comes first, and no instruction is in MulDiv.
Program == ~irq_active /\ ~Interrupted /\ ~pcpi.valid
Running == UnitsClock(TRUE) /\ TimeoutClock

\* The instruction behind retirq is executed before the next interrupt.
NextInstruction == irq_delay' = FALSE

\* Lines are raised at any time; the timer once for each time it is armed.
RaiseLine ==
  /\ at # "trap" /\ ~pcpi.valid
  /\ \/ Raise(External) /\ UNCHANGED timer
     \/ timer /\ timer' = FALSE /\ Raise(Timer)
  /\ irq_pending' # irq_pending \/ timer' # timer
  /\ UNCHANGED <<unitVars, at, k, mulVars, sieveVars, irq_mask, irq_active, irq_delay, handler,
                 machine, tests_passed, defect>>

Handler == irq_active /\ at # "trap"
KeepProgram == UNCHANGED <<k, mulVars, sieveVars, tests_passed, defect, pcpi, timer>>

\* What is pending and not masked goes into q1, and the return address into q0.
Enter ==
  /\ Interrupted /\ ~pcpi.valid /\ at \notin {"trap", "reset"}
  /\ irq_active' = TRUE /\ handler' = "entered"
  /\ machine' = [machine EXCEPT !.q[0] = at, !.q[1] = irq_pending]
  /\ irq_pending' = {}
  /\ Running /\ KeepProgram /\ UNCHANGED <<at, irq_mask, irq_delay>>

\* irq() counts what it is called for.  An EBREAK, an illegal instruction and a bus
\* error it reports, and then stops the core by an EBREAK of its own.
irq(m, regs, irqs) ==
  IF irqs \cap {Ebreak, Buserror} # {} THEN at' = "trap" /\ UNCHANGED <<handler, machine>>
  ELSE /\ handler' = "restore" /\ UNCHANGED at
       /\ machine' = [m EXCEPT !.x = [i \in Regs |->
                        CASE i = 10 -> regs
                          [] i \in CallerSaved \ {10} -> Junk
                          [] OTHER -> @[i]]]
Call ==
  /\ Handler /\ handler = "entered"
  /\ \E m \in {Run(save_registers \o call_handler)} : irq(m, m.x[10], m.x[11])
  /\ Running /\ KeepProgram /\ UNCHANGED <<irq_pending, irq_mask, irq_active, irq_delay>>

retirq_NoDelay == irq_active' = FALSE /\ irq_delay' = FALSE
retirq == irq_active' = FALSE /\ irq_delay' = TRUE
Restore ==
  /\ Handler /\ handler = "restore" /\ handler' = "none"
  /\ \E m \in {Run(restore_registers)} :
        /\ at' = m.q[0]
        \* q and irq_regs are not read before the next entry writes them.
        /\ machine' = [Machine EXCEPT !.x = m.x]
  /\ retirq
  /\ Running /\ KeepProgram /\ UNCHANGED <<irq_pending, irq_mask>>

-------------------------------------------------------------------------------
(* The program: start.S *)

KeepMul == UNCHANGED <<mulVars, pcpi>>
KeepSieve == UNCHANGED sieveVars
Goto(place) == at' = place
Stop == Goto("ebreak") /\ UNCHANGED k
Begin(place, n) == at' = place /\ k' = n

\* The vector: wait for a first interrupt, masked or not, and unmask all.
Wait ==
  /\ Program /\ at = "waitirq" /\ irq_pending # {}
  /\ Goto("maskirq") /\ UNCHANGED <<k, irq_pending, irq_mask, timer>>
Unmask ==
  /\ Program /\ at = "maskirq" /\ irq_mask' = FALSE
  /\ Begin("arm", 1) /\ UNCHANGED <<irq_pending, timer>>

\* TEST(n): arm the timer, and run the test.  A test that fails stops there.
Arm ==
  /\ Program /\ at = "arm" /\ timer' = TRUE
  /\ Goto("test") /\ UNCHANGED <<k, irq_pending, irq_mask>>
Test ==
  /\ Program /\ at = "test"
  /\ CASE defect = <<"test", k>> -> Stop
       [] defect # <<"test", k>> /\ k < TESTS -> Begin("arm", k + 1)
       [] OTHER -> Begin("sieve", 0)
  /\ UNCHANGED <<irq_pending, irq_mask, timer>>

\* The success code for the test bench, and the EBREAK that ends every run.
Pass ==
  /\ Program /\ at = "pass" /\ tests_passed' = TRUE
  /\ Stop /\ UNCHANGED <<irq_pending, irq_mask, timer>>
EbreakStep ==
  /\ Program /\ at = "ebreak"
  /\ Raise(Ebreak) /\ Goto("stopped") /\ UNCHANGED <<k, irq_mask, timer>>

Start ==
  /\ Wait \/ Unmask \/ Arm \/ Test \/ EbreakStep
  /\ KeepSieve /\ KeepMul /\ UNCHANGED tests_passed
Finish == Pass /\ KeepSieve /\ KeepMul

-------------------------------------------------------------------------------
(* sieve.c: bit i stands for 3 + 2i *)

Marks_NextMultiple(i) ==
  {j \in 0 .. BITMAP_SIZE - 1 : (3 + 2 * j) % (3 + 2 * i) = 0 /\ 3 + 2 * j >= 4 * (3 + 2 * i)}
\* The odd multiples of 3 + 2i from the double of it on.
Marks(i) ==
  {j \in 0 .. BITMAP_SIZE - 1 : (3 + 2 * j) % (3 + 2 * i) = 0 /\ 3 + 2 * j >= 2 * (3 + 2 * i)}

IsPrime(n) == n > 1 /\ \A d \in 2 .. n - 1 : n % d # 0
\* The checksum stands for the list of all primes, numbered from 1.
Checksum ==
  SetToSortSeq({n \in 2 .. 2 * BITMAP_SIZE + 1 : IsPrime(n)}, <)

Sieve ==
  /\ Program /\ at = "sieve"
  /\ IF k = BITMAP_SIZE
     THEN /\ IF primes = Checksum THEN Begin("multest", 0) ELSE Stop
          /\ primes' = <<>> /\ UNCHANGED bitmap
     ELSE /\ Begin("sieve", k + 1)
          /\ LET printed == IF k = 0 THEN <<2>> ELSE primes
             IN IF k \in bitmap THEN primes' = printed /\ UNCHANGED bitmap
                ELSE /\ primes' = Append(printed, 3 + 2 * k)
                     /\ bitmap' = IF defect = <<"memory", 0>> THEN bitmap ELSE bitmap \cup Marks(k)
  /\ KeepMul /\ UNCHANGED <<irq_pending, irq_mask, timer, tests_passed>>

-------------------------------------------------------------------------------
(* multest.c *)

Lowest == Top
\* The operands of a round: four fixed kinds, and then any from xorshift32.
Operands(i) ==
  CASE i = 0 -> {<<Lowest, Values - 1>>}
    [] i = 1 -> {<<0, 0>>}
    [] i = 2 -> {<<a, 0>> : a \in Lowest .. Values - 1}
    [] i = 3 -> {<<a, 0>> : a \in 0 .. Lowest - 1}
    [] OTHER -> Word \X Word

\* C: a 64-bit product, and division that truncates.
Magn(n) == IF n < 0 THEN -n ELSE n
Quotient(n, d) == LET q == Magn(n) \div Magn(d) IN IF (n < 0) # (d < 0) THEN -q ELSE q
Soft(op, a, b) ==
  CASE op = "mul"    -> (a * b) % Values
    [] op = "mulh"   -> Upper(Signed(a) * Signed(b))
    [] op = "mulhsu" -> Upper(Signed(a) * b)
    [] op = "mulhu"  -> Upper(a * b)
    [] op = "div"    -> IF b = 0 THEN Values - 1 ELSE Quotient(Signed(a), Signed(b)) % Values
    [] op = "divu"   -> IF b = 0 THEN Values - 1 ELSE a \div b
    [] op = "rem"    ->
         IF b = 0 THEN a ELSE (Signed(a) - Signed(b) * Quotient(Signed(a), Signed(b))) % Values
    [] op = "remu"   -> IF b = 0 THEN a ELSE a % b

Calls == <<"mul", "mulh", "mulhsu", "mulhu", "div", "divu", "rem", "remu">>
Op == Calls[Len(hard) + 1]
Compared(list) == \A i \in DOMAIN list : list[i] = Soft(Calls[i], operands[1], operands[2])

NextRound ==
  /\ Program /\ at = "multest" /\ operands = <<>>
  /\ IF k = ROUNDS THEN Begin("pass", 0) /\ UNCHANGED operands
     ELSE operands' \in Operands(k) /\ UNCHANGED <<at, k>>
  /\ UNCHANGED <<hard, pcpi>>

\* hard_mul and its likes.
Offer ==
  /\ Program /\ at = "multest" /\ operands # <<>>
  /\ Len(hard) < 8 /\ (Len(hard) = 4 => Compared(hard))
  /\ pcpi' = [valid |-> TRUE, insn |-> Op, rs1 |-> operands[1], rs2 |-> operands[2]]
  /\ UNCHANGED <<at, k, mulVars>>

\* The products are compared before the quotients are computed.
Compare ==
  /\ Program /\ at = "multest" /\ Len(hard) \in {4, 8}
  /\ \/ ~Compared(hard) /\ Stop
     \/ Len(hard) = 8 /\ Compared(hard) /\ k' = k + 1 /\ UNCHANGED at
  /\ operands' = <<>> /\ hard' = <<>> /\ UNCHANGED pcpi

Multest ==
  /\ NextRound \/ Offer \/ Compare
  /\ KeepSieve /\ UNCHANGED <<irq_pending, irq_mask, timer, tests_passed>>

\* One clock of an instruction that is offered: the answer, a time-out, or neither.
\* A broken unit gets the lowest bit wrong.
Broken(op) == defect = <<"unit", IF op \in MulOps THEN 1 ELSE 2>>
Got == IF Broken(pcpi.insn) THEN (pcpi_int_rd + 1) % Values ELSE pcpi_int_rd
Clock ==
  /\ pcpi.valid
  /\ \/ /\ pcpi_int_ready /\ pcpi' = Quiet /\ hard' = Append(hard, Got)
        /\ UNCHANGED <<at, k, irq_pending>>
     \/ /\ ~pcpi_int_ready /\ timeout /\ pcpi' = Quiet
        /\ Raise(Ebreak) /\ Goto("stopped") /\ UNCHANGED <<k, hard>>
     \/ ~pcpi_int_ready /\ ~timeout /\ UNCHANGED <<pcpi, hard, at, k, irq_pending>>
  /\ KeepSieve /\ UNCHANGED <<operands, irq_mask, timer, tests_passed>>

-------------------------------------------------------------------------------
(* The whole *)

Main == Start \/ Finish \/ Sieve \/ Multest \/ Clock
Instruction ==
  \/ /\ Main /\ Running /\ NextInstruction
     /\ UNCHANGED <<irq_active, handler, machine, defect>>
  \/ Enter \/ Call \/ Restore

\* Between two instructions of the units any time may pass.
Elapse ==
  /\ ~pcpi.valid /\ at # "reset" /\ Running
  /\ UNCHANGED <<pcpi, at, k, mulVars, sieveVars, irqVars, handler, machine, tests_passed, defect>>

\* Reset, for two clocks at least.  Memory keeps what it holds, and so does the test
\* bench.
ResetClock(next) ==
  /\ at' = next
  /\ UnitsClock(FALSE) /\ pcpi' = Quiet /\ countdown' = MaxTimeout /\ timeout' = FALSE
  /\ irq_pending' = {} /\ irq_mask' = TRUE /\ irq_active' = FALSE /\ irq_delay' = FALSE
  /\ timer' = FALSE /\ handler' = "none"
  /\ machine' = Machine
  /\ k' = 0 /\ operands' = <<>> /\ hard' = <<>> /\ primes' = <<>>
  /\ UNCHANGED <<bitmap, tests_passed, defect>>
Reset == ResetClock("reset")
Release == at = "reset" /\ ResetClock("waitirq")

Init ==
  /\ UnitsInit
  /\ at = "waitirq" /\ k = 0 /\ operands = <<>> /\ hard = <<>> /\ bitmap = {} /\ primes = <<>>
  /\ irq_pending = {} /\ irq_mask = TRUE /\ irq_active = FALSE /\ irq_delay = FALSE /\ timer = FALSE
  /\ handler = "none"
  /\ machine = Machine
  /\ tests_passed = FALSE
  /\ defect \in {<<"none", 0>>, <<"memory", 0>>, <<"unit", 1>>, <<"unit", 2>>}
                \cup ({"test"} \X (1 .. TESTS))

Next == Instruction \/ RaiseLine \/ Elapse \/ Reset \/ Release

\* The core runs, and the test bench raises line 4 again and again.
Spec ==
  /\ Init /\ [][Next]_vars
  /\ WF_vars(Instruction) /\ WF_vars(Release) /\ WF_vars(RaiseLine /\ Raise(External))

-------------------------------------------------------------------------------
(* Properties *)

\* The handler is invisible: wherever it was entered, the program goes on at that
\* place with all of its registers.
Transparent ==
  [][Restore => at' = at /\ machine'.x = Own]_vars

\* Every instruction the units are offered gets one answer, its own: nothing left
\* over from an instruction that a reset cut off, no answer without a question, no
\* time-out.
OwnAnswers ==
  /\ pcpi_int_ready => pcpi.valid /\ pcpi_int_rd = Soft(pcpi.insn, pcpi.rs1, pcpi.rs2)
  /\ ~(MulReady /\ div.ready)
  /\ pcpi.valid => ~timeout

\* Once nobody resets the core any more it stops in the end, whatever interrupts
\* come, and the test bench has been told of success if and only if nothing is
\* broken.
EndsWithVerdict ==
  <>[][~Reset]_vars => <>(at = "trap" /\ tests_passed = (defect = <<"none", 0>>))
================================================================================
