---------------------------------- MODULE ISA ----------------------------------
(***************************************************************************)
(* What the core promises a programmer: instructions run one at a time,    *)
(* each goes to the address its class says, an interrupt is taken only     *)
(* between two instructions and only outside the handler, and the core     *)
(* stops for ever once it meets something it cannot execute.               *)
(***************************************************************************)
EXTENDS Integers

CONSTANTS Ops, Switches, Addr, Plus4(_), JumpTargets, PROGADDR_RESET, PROGADDR_IRQ

VARIABLES
  pc, ir, handler, halted,
  on          \* the switches that are on; never changes
isaVars == <<pc, ir, handler, halted, on>>

Idle == "none"
Undefined == {"illegal", "badload", "badstore", "ebreak"}
strict == "CATCH_MISALIGN" \in on
Targets == {a \in JumpTargets : strict \/ a % 2 = 0}
Transfers == {"branch", "jalr", "retirq"}

Init ==
  /\ pc = PROGADDR_RESET /\ ir = Idle /\ handler = FALSE /\ halted = FALSE
  /\ on \subseteq Switches

Begin ==
  /\ ~halted /\ ir = Idle
  /\ ir' \in Ops \ {"jal", "waitirq"}
  /\ UNCHANGED <<pc, handler, halted, on>>

Finish ==
  /\ ~halted /\ ir \notin {Idle} \cup Transfers
  \* Something has to take an undefined instruction, if it is caught.
  /\ ir \in Undefined /\ "CATCH_ILLINSN" \in on => on \cap {"WITH_PCPI", "ENABLE_IRQ"} # {}
  /\ pc' = Plus4(pc) /\ ir' = Idle
  /\ UNCHANGED <<handler, halted, on>>

Transfer ==
  /\ ~halted /\ ir \in Transfers
  /\ pc' \in Targets \cup (IF ir = "branch" THEN {Plus4(pc)} ELSE {})
  /\ ir' = Idle
  /\ handler' = (handler /\ ir # "retirq")
  /\ UNCHANGED <<halted, on>>

\* jal and waitirq begin and end in one cycle.
Jump == ~halted /\ ir = Idle /\ "jal" \in Ops /\ pc' \in Targets /\ UNCHANGED <<ir, handler, halted, on>>
Wait == ~halted /\ ir = Idle /\ "waitirq" \in Ops /\ pc' = Plus4(pc) /\ UNCHANGED <<ir, handler, halted, on>>

\* Without CATCH_ILLINSN the instruction it pushes back may be an EBREAK that is
\* already decoded, which stops the core at the door of the handler.
MayStop == {FALSE} \cup {c \in {TRUE} : "CATCH_ILLINSN" \notin on}
Interrupt ==
  /\ ~halted /\ ir = Idle /\ ~handler
  /\ pc' = PROGADDR_IRQ /\ handler' = TRUE
  /\ halted' \in MayStop
  /\ UNCHANGED <<ir, on>>

\* Without CATCH_ILLINSN an EBREAK stops the core as soon as it is decoded, even
\* while the load or store before it waits for the memory.
Faulty ==
  \/ ir \in Undefined
  \/ "CATCH_ILLINSN" \notin on /\ ir \in {"load", "store"}
  \/ strict /\ (pc % 2 = 1 \/ ir \in {"load", "store"})

Halt ==
  /\ ~halted /\ Faulty
  /\ halted' = TRUE /\ ir' = Idle
  /\ UNCHANGED <<pc, handler, on>>

\* Without CATCH_ILLINSN a reset of one or two cycles may meet an EBREAK that is
\* already decoded, which stops the core again.
Restart ==
  /\ pc' = PROGADDR_RESET /\ ir' = Idle /\ handler' = FALSE
  /\ halted' \in MayStop
  /\ UNCHANGED on

Next == Begin \/ Finish \/ Transfer \/ Jump \/ Wait \/ Interrupt \/ Halt \/ Restart
Spec == Init /\ [][Next]_isaVars
===============================================================================
