--------------------------------- MODULE MulDiv ---------------------------------
(***************************************************************************)
(* The multipliers and the divider of the core behind its co-processor     *)
(* port: picorv32_pcpi_mul or picorv32_pcpi_fast_mul, and                  *)
(* picorv32_pcpi_div, with the side of the core that offers an             *)
(* instruction, waits and takes the answer.  One step is one clock.        *)
(*                                                                         *)
(* A register has W bits, 32 in the source.  The serial multiplier adds in *)
(* carry-save form; here rd and rdx are one number, their sum.  Data       *)
(* registers that a unit at rest reloads before it uses them are 0 then.   *)
(***************************************************************************)
EXTENDS Integers

CONSTANTS
  W,          \* bits of a register
  MaxTimeout  \* 15, clocks until an instruction nobody waits for is illegal

ASSUME WidthAssumption == W \in Nat /\ W >= 2 /\ MaxTimeout \in Nat /\ MaxTimeout >= 4

VARIABLES
  fast_mul,   \* ENABLE_FAST_MUL; otherwise ENABLE_MUL
  pcpi,       \* what the core offers: valid, insn, rs1, rs2
  countdown, timeout,
  mul, div    \* the registers of the units

unitVars == <<fast_mul, pcpi, countdown, timeout, mul, div>>

\* Two to the power of n; how many values a register has, and the weight of its top bit.
Pow2[n \in Nat] == IF n = 0 THEN 1 ELSE 2 * Pow2[n-1]
Values == Pow2[W]
Top == Pow2[W-1]
Wide == Values * Values
Word == 0 .. Values - 1
MulOps == {"mul", "mulh", "mulhsu", "mulhu"}
DivOps == {"div", "divu", "rem", "remu"}
High(op) == op \in MulOps \ {"mul"}

Signed(x) == IF x >= Top THEN x - Values ELSE x
Negated(x) == (-x) % Values
Upper(x) == (x \div Values) % Values
Lower(x) == x % Values

\* Operands of a multiplication: those the instruction takes for signed are extended.
Left(op) == IF op \in {"mulh", "mulhsu"} THEN Signed(pcpi.rs1) ELSE pcpi.rs1
Right(op) == IF op = "mulh" THEN Signed(pcpi.rs2) ELSE pcpi.rs2

Quiet == [pcpi EXCEPT !.valid = FALSE]
Offered(ops) == IF pcpi.valid /\ pcpi.insn \in ops THEN pcpi.insn ELSE "none"

-------------------------------------------------------------------------------
(* picorv32_pcpi_mul: the instruction is decoded in one clock and pcpi_wait
   rises in the next; the operands are loaded in every clock it rests. *)

MulRest ==
  [instr |-> "none", wait |-> FALSE, wait_q |-> FALSE, waiting |-> TRUE, finish |-> FALSE,
   rs1 |-> 0, rs2 |-> 0, sum |-> 0, counter |-> 0, ready |-> FALSE, rd |-> 0]

MulDecode(resetn) ==
  [instr |-> IF resetn THEN Offered(MulOps) ELSE "none",
   wait |-> mul.instr # "none", wait_q |-> mul.wait]

\* W or 2W steps, the last one with the counter below 0.
MulSteps == IF High(mul.instr) THEN 2 * W - 2 ELSE W - 2
MulStart_Level == mul.wait
MulStart == mul.wait /\ ~mul.wait_q
MulIterate(resetn) ==
  LET at_rest ==
        [waiting |-> TRUE, finish |-> FALSE, rs1 |-> 0, rs2 |-> 0, sum |-> 0, counter |-> 0]
  IN
  CASE ~resetn \/ (mul.waiting /\ ~MulStart) -> at_rest
    [] resetn /\ mul.waiting /\ MulStart ->
         [at_rest EXCEPT !.waiting = FALSE, !.counter = MulSteps,
                         !.rs1 = Left(mul.instr) % Wide, !.rs2 = Right(mul.instr) % Wide]
    [] resetn /\ ~mul.waiting ->
         [waiting |-> mul.counter < 0, finish |-> mul.counter < 0,
          rs1 |-> mul.rs1 \div 2, rs2 |-> (mul.rs2 * 2) % Wide,
          sum |-> (mul.sum + (mul.rs1 % 2) * mul.rs2) % Wide,
          counter |-> mul.counter - 1]

MulAnswer(resetn) ==
  [ready |-> mul.finish /\ resetn,
   rd |-> CASE ~(mul.finish /\ resetn) -> 0
            [] mul.finish /\ resetn /\ High(mul.instr) -> Upper(mul.sum)
            [] OTHER -> Lower(mul.sum)]

-------------------------------------------------------------------------------
(* picorv32_pcpi_fast_mul, without its extra registers: the operands in one
   clock, their product in the next, which is when the answer is ready. *)

FastRest ==
  [active |-> <<FALSE, FALSE>>, rs1 |-> 0, rs2 |-> 0, product |-> 0, shift_out |-> FALSE]

FastLoads(op) == op # "none" /\ mul.active = <<FALSE, FALSE>>
FastStep(resetn) ==
  LET op == IF resetn THEN Offered(MulOps) ELSE "none"
  IN  [active |-> IF resetn THEN <<FastLoads(op), mul.active[1]>> ELSE <<FALSE, FALSE>>,
       rs1 |-> IF FastLoads(op) THEN Left(op) ELSE 0,
       rs2 |-> IF FastLoads(op) THEN Right(op) ELSE 0,
       product |-> mul.rs1 * mul.rs2, shift_out |-> High(op)]

-------------------------------------------------------------------------------
(* picorv32_pcpi_div: the signs are set aside, and the divisor is compared from
   the top bit down. *)

DivRest ==
  [instr |-> "none", wait |-> FALSE, wait_q |-> FALSE, running |-> FALSE, dividend |-> 0,
   divisor |-> 0, quotient |-> 0, mask |-> 0, outsign |-> FALSE, ready |-> FALSE, rd |-> 0]

DivDecode(resetn) ==
  [instr |-> IF resetn /\ ~div.ready THEN Offered(DivOps) ELSE "none",
   wait |-> resetn /\ div.instr # "none", wait_q |-> resetn /\ div.wait]

Negative(x) == div.instr \in {"div", "rem"} /\ Signed(x) < 0
Magnitude(x) == IF Negative(x) THEN Negated(x) ELSE x
OutSign_ByZero ==
  \/ div.instr = "div" /\ Negative(pcpi.rs1) # Negative(pcpi.rs2)
  \/ div.instr = "rem" /\ Negative(pcpi.rs1)
OutSign ==
  \/ div.instr = "div" /\ Negative(pcpi.rs1) # Negative(pcpi.rs2) /\ pcpi.rs2 # 0
  \/ div.instr = "rem" /\ Negative(pcpi.rs1)

DivStart == div.wait /\ ~div.wait_q
DivLoad ==
  [running |-> TRUE, dividend |-> Magnitude(pcpi.rs1),
   divisor |-> Magnitude(pcpi.rs2) * Top, quotient |-> 0, mask |-> Top,
   outsign |-> OutSign, ready |-> FALSE, rd |-> 0]
DivStop ==
  LET result == IF div.instr \in {"div", "divu"} THEN div.quotient ELSE div.dividend
  IN  [running |-> FALSE, dividend |-> 0, divisor |-> 0, quotient |-> 0, mask |-> 0,
       outsign |-> FALSE, ready |-> TRUE, rd |-> IF div.outsign THEN Negated(result) ELSE result]
DivShift ==
  LET fits == div.divisor <= div.dividend
  IN  [running |-> TRUE,
       dividend |-> IF fits THEN div.dividend - div.divisor ELSE div.dividend,
       quotient |-> IF fits THEN div.quotient + div.mask ELSE div.quotient,
       divisor |-> div.divisor \div 2, mask |-> div.mask \div 2,
       outsign |-> div.outsign, ready |-> FALSE, rd |-> 0]

Fields(f, rest) == [x \in DOMAIN rest |-> IF x \in DOMAIN f THEN f[x] ELSE rest[x]]
DivIterate(resetn) ==
  CASE ~resetn -> [running |-> FALSE, ready |-> FALSE, rd |-> 0]
    [] resetn /\ DivStart -> DivLoad
    [] resetn /\ ~DivStart /\ div.running /\ div.mask = 0 -> DivStop
    [] resetn /\ ~DivStart /\ div.running /\ div.mask # 0 -> DivShift
    [] OTHER -> [running |-> FALSE, ready |-> FALSE, rd |-> 0]

-------------------------------------------------------------------------------
(* One clock of the units, and the port *)

UnitsClock(resetn) ==
  /\ mul' = IF fast_mul THEN FastStep(resetn)
            ELSE Fields(MulDecode(resetn),
                        Fields(MulIterate(resetn), Fields(MulAnswer(resetn), MulRest)))
  /\ div' = Fields(DivDecode(resetn), Fields(DivIterate(resetn), DivRest))
  /\ UNCHANGED fast_mul

MulReady == IF fast_mul THEN mul.active[2] ELSE mul.ready
MulResult ==
  CASE ~fast_mul -> mul.rd
    [] fast_mul /\ mul.shift_out -> Upper(mul.product)
    [] OTHER -> Lower(mul.product)
pcpi_int_wait == (~fast_mul /\ mul.wait) \/ div.wait
pcpi_int_ready == MulReady \/ div.ready
pcpi_int_rd == IF MulReady THEN MulResult ELSE div.rd

\* The time-out of the core, counted while an instruction is offered and nobody waits.
TimeoutClock ==
  /\ countdown' = CASE ~(pcpi.valid /\ ~pcpi_int_wait) -> MaxTimeout
                    [] pcpi.valid /\ ~pcpi_int_wait /\ countdown > 0 -> countdown - 1
                    [] OTHER -> 0
  /\ timeout' = (countdown = 0)

UnitsInit ==
  /\ fast_mul \in BOOLEAN
  /\ pcpi = [valid |-> FALSE, insn |-> "mul", rs1 |-> 0, rs2 |-> 0]
  /\ countdown = MaxTimeout /\ timeout = FALSE
  /\ mul = (IF fast_mul THEN FastRest ELSE MulRest) /\ div = DivRest
===============================================================================
