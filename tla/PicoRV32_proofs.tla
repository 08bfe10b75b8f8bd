--------------------------- MODULE PicoRV32_proofs ---------------------------
(***************************************************************************)
(* Proofs about PicoRV32.  First its registers and its memory interface:   *)
(* every register keeps its type, of which the program counter is the hard *)
(* part, as it may come from the ALU or from reg_out, which hold no        *)
(* address most of the time; the core's requests are exclusive, outlive    *)
(* the transfer they started, and keep it stable; the core is the master   *)
(* the bus adapters are written for, and its look-ahead port announces     *)
(* exactly the transfers it starts.                                        *)
(*                                                                         *)
(* Then its pipeline: the instruction in the decode stages is the one at   *)
(* the program counter, an interrupt returns to the instruction it pushed  *)
(* back, an instruction is not begun at an address its size forbids, one   *)
(* arm of each case statement applies, and the core implements ISA.        *)
(***************************************************************************)
EXTENDS PicoRV32Props, TLAPS, FiniteSetTheorems


-------------------------------------------------------------------------------
(* Types *)

\* A branch target waiting in cpu_state_fetch is an address, because the latches
\* that announce it are clear while an instruction reads its operands.
PcInv ==
  /\ cpu_state \in {"ld_rs1", "ld_rs2", "shift", "stmem", "ldmem"} => ~latched_branch
  /\ cpu_state \in {"ld_rs1", "ld_rs2", "shift", "stmem", "ldmem", "exec"} => ~latched_stalu
  /\ cpu_state = "fetch" /\ latched_branch /\ latched_store
       => (IF latched_stalu THEN alu_out_q ELSE reg_out) \in Addr

TInv == TypeOK /\ PcInv

\* The registers that every clock edge updates in the same way.
EveryTypeOK ==
  /\ config \in Configs /\ MemTypeOK
  /\ dec1 \in Insn /\ dec2 \in Insn
  /\ decoder_trigger_q \in BOOLEAN /\ decoder_pseudo_trigger_q \in BOOLEAN
  /\ alu_cmp_r \in BOOLEAN /\ alu_out_0_q \in BOOLEAN
  /\ pcpi_timeout \in BOOLEAN /\ pcpi_timeout_counter \in 0..MaxTimeout

\* Those that only some steps write.
OwnTypeOK ==
  /\ alu_cmp \in BOOLEAN /\ alu_out_q \in Addr \cup {X}
  /\ alu_wait \in BOOLEAN /\ alu_wait_2 \in BOOLEAN
  /\ pcpi_valid \in BOOLEAN

-------------------------------------------------------------------------------
(* Addresses *)

LEMMA WordType ==
  ASSUME NEW a \in Addr \cup {X}
  PROVE  Word(a) \in Words
BY DEF Words

LEMMA Plus4Type ==
  ASSUME NEW a \in Addr
  PROVE  Plus4(a) \in Addr
BY AddrAssumption, SMT DEF Addr, Plus4

LEMMA PossibleType ==
  /\ Possible(JumpTargets) \subseteq Addr
  /\ Possible(DataAddrs) \subseteq Addr
BY AddrAssumption DEF Possible

LEMMA CurrentPcType ==
  ASSUME TInv, cpu_state = "fetch"
  PROVE  current_pc \in Addr
BY AddrAssumption, SMT DEF TInv, PcInv, TypeOK, CpuTypeOK, current_pc

-------------------------------------------------------------------------------
(* What every step does *)

LEMMA MemoryType ==
  ASSUME TInv, Memory, mem_rdata_q' \in Insn
  PROVE  MemTypeOK'
<1>1. mem_valid' \in BOOLEAN /\ mem_instr' \in BOOLEAN /\ mem_wstrb' \in BOOLEAN
  BY Zenon DEF TInv, TypeOK, MemTypeOK, Memory, MemIdle, MemRead, MemWrite, MemHold, MemTrapped, AddressPhase
<1>2. mem_ready' \in BOOLEAN
  BY <1>1, Zenon DEF Memory
<1>3. mem_state' \in 0..3
  <2>1. mem_state' \in {0, 1, 2, 3} \/ mem_state' = mem_state
    BY Zenon DEF Memory, MemIdle, MemRead, AfterRead, MemWrite, MemHold, MemTrapped
  <2>2. mem_state \in 0..3  BY DEF TInv, TypeOK, MemTypeOK
  <2>3. QED  BY <2>1, <2>2, SMT
<1>4. mem_la_addr \in Words
  BY WordType, SMT DEF TInv, TypeOK, CpuTypeOK, mem_la_addr, next_pc
<1>5. mem_addr' \in Words
  BY <1>4, Zenon DEF TInv, TypeOK, MemTypeOK, Memory, MemIdle, MemRead, MemWrite, MemHold, MemTrapped, AddressPhase
<1>6. QED  BY <1>1, <1>2, <1>3, <1>5 DEF MemTypeOK

LEMMA FetchedType ==
  ASSUME TInv, NEW w \in Fetched
  PROVE  w \in Insn
<1>1. config.Ops \subseteq AllOps
  BY ConfigsAssumption DEF TInv, TypeOK
<1>2. mem_addr \in Words
  BY DEF TInv, TypeOK, MemTypeOK
<1>3. CASE mem_instr
  BY <1>1, <1>2, <1>3, SMT DEF Fetched, Insn
<1>4. CASE ~mem_instr
  BY <1>2, <1>4, SMT DEF Fetched, Insn
<1>5. QED  BY <1>3, <1>4

LEMMA Stage2Type ==
  ASSUME NEW w \in Insn
  PROVE  Stage2(w) \in Insn
BY SMT DEF Stage2, Insn

LEMMA DecodeType ==
  ASSUME TInv, Decode
  PROVE  /\ mem_rdata_q' \in Insn /\ dec1' \in Insn /\ dec2' \in Insn
         /\ decoder_trigger_q' \in BOOLEAN /\ decoder_pseudo_trigger_q' \in BOOLEAN
<1> USE DEF TInv, TypeOK, DecTypeOK
<1>1. PICK w \in IF mem_xfer THEN Fetched ELSE {mem_rdata_q} :
        mem_rdata_q' = w /\ dec1' = IF mem_do_rinst /\ mem_done THEN w ELSE dec1
  BY Zenon DEF Decode
<1>2. mem_rdata_q \in Insn  BY DEF MemTypeOK
<1>3. w \in Insn  BY <1>2, FetchedType, Zenon
<1>4. dec1' \in Insn
  BY <1>1, <1>3, Zenon
<1>5. dec2' \in Insn
  BY <1>2, Stage2Type, Zenon DEF Decode
<1>6. QED  BY <1>1, <1>3, <1>4, <1>5, Zenon DEF Decode

LEMMA PcpiTimeoutType ==
  ASSUME TInv, PcpiTimeout
  PROVE  pcpi_timeout' \in BOOLEAN /\ pcpi_timeout_counter' \in 0..MaxTimeout
<1> USE DEF TInv, TypeOK, PcpiTypeOK
<1>1. CASE WITH_PCPI /\ CATCH_ILLINSN
  <2>1. PICK wait \in BOOLEAN : pcpi_timeout_counter' = PcpiCount(wait)
    BY <1>1, Zenon DEF PcpiTimeout
  <2>2. pcpi_timeout_counter' \in 0..MaxTimeout
    BY <2>1, BoundsAssumption, SMT DEF PcpiCount
  <2>3. pcpi_timeout' \in BOOLEAN
    BY <1>1, Zenon DEF PcpiTimeout
  <2>4. QED  BY <2>2, <2>3
<1>2. CASE ~(WITH_PCPI /\ CATCH_ILLINSN)
  BY <1>2, Zenon DEF PcpiTimeout
<1>3. QED  BY <1>1, <1>2

LEMMA AluType ==
  ASSUME Alu
  PROVE  alu_cmp_r' \in BOOLEAN /\ alu_out_0_q' \in BOOLEAN
BY Zenon DEF Alu

LEMMA EveryType ==
  ASSUME TInv, Every
  PROVE  EveryTypeOK'
<1>1. config' \in Configs  BY DEF Every, TInv, TypeOK
<1>2. QED
  BY <1>1, DecodeType, MemoryType, PcpiTimeoutType, AluType, Zenon DEF Every, EveryTypeOK

-------------------------------------------------------------------------------
(* The assignments the steps are built from *)

LEMMA RequestType ==
  ASSUME NEW prefetch, NEW rinst, NEW set, Request(prefetch, rinst, set)
  PROVE  ReqTypeOK'
BY Zenon DEF Request, ReqTypeOK

LEMMA TriggerType ==
  ASSUME Trigger
  PROVE  decoder_trigger' \in BOOLEAN /\ decoder_pseudo_trigger' \in BOOLEAN
BY Zenon DEF Trigger

LEMMA GotoType ==
  ASSUME NEW s, Goto(s)
  PROVE  cpu_state' \in {s, "trap"}
BY Zenon DEF Goto

LEMMA IrqPendingType ==
  ASSUME NEW kept \in SUBSET Irqs, NEW raised \in SUBSET Irqs, IrqPending(kept, raised)
  PROVE  irq_pending' \subseteq Irqs
<1>1. PICK lines \in SUBSET ExtIrqs :
        irq_pending' =
          IF ~ENABLE_IRQ THEN {}
          ELSE (kept \cup raised \cup lines
                \cup (IF Misaligned /\ Raisable(irq_buserror) THEN {irq_buserror} ELSE {})
                \cup TimerIrq) \ MASKED_IRQ
  BY Zenon DEF IrqPending
<1>2. TimerIrq \subseteq Irqs
  BY BoundsAssumption, SMT DEF TimerIrq
<1>3. (IF Misaligned /\ Raisable(irq_buserror) THEN {irq_buserror} ELSE {}) \subseteq Irqs
  BY BoundsAssumption, SMT
<1>4. QED  BY <1>1, <1>2, <1>3, BoundsAssumption, SMT

LEMMA LatchedType ==
  ASSUME TInv
  PROVE  Latched \subseteq Irqs
BY DEF Latched, TInv, TypeOK, IrqTypeOK

LEMMA CountdownType ==
  ASSUME TInv, Countdown
  PROVE  timer' \in 0..MaxTimer
BY BoundsAssumption, SMT DEF Countdown, TInv, TypeOK, IrqTypeOK

LEMMA QuietType ==
  ASSUME TInv, Quiet
  PROVE  irq_pending' \subseteq Irqs /\ timer' \in 0..MaxTimer
BY LatchedType, IrqPendingType, CountdownType, Zenon DEF Quiet

RdType == [reg : RdKinds, at : Words]

LEMMA RdHasType ==
  ASSUME NEW insn \in Insn
  PROVE  Rd(insn) \in RdType
BY SMT DEF Rd, RdType, RdKinds, Insn

LEMMA RdConstants ==
  ASSUME NEW r \in RdKinds
  PROVE  [reg |-> r, at |-> Word(X)] \in RdType
BY WordType, SMT DEF RdType

-------------------------------------------------------------------------------
(* Steps outside cpu_state_fetch *)

Early == {"ld_rs1", "ld_rs2", "shift", "stmem", "ldmem"}

LEMMA Assemble ==
  ASSUME EveryTypeOK', ReqTypeOK', CpuTypeOK', LatTypeOK', OwnTypeOK', IrqTypeOK',
         decoder_trigger' \in BOOLEAN, decoder_pseudo_trigger' \in BOOLEAN
  PROVE  TypeOK'
BY Zenon DEF EveryTypeOK, OwnTypeOK, TypeOK, DecTypeOK, AluTypeOK, PcpiTypeOK

\* The interrupt controller, if the step only counts time and collects requests.
LEMMA IrqKept ==
  ASSUME TInv, NotFetch, irq_active' \in BOOLEAN, irq_mask' \subseteq Irqs, eoi' \subseteq Irqs,
         irq_pending' \subseteq Irqs, timer' \in 0..MaxTimer
  PROVE  IrqTypeOK'
BY Zenon DEF NotFetch, TInv, TypeOK, IrqTypeOK

LEMMA KeepIrqType ==
  ASSUME TInv, KeepIrq
  PROVE  irq_active' \in BOOLEAN /\ irq_mask' \subseteq Irqs /\ eoi' \subseteq Irqs
BY Zenon DEF KeepIrq, TInv, TypeOK, IrqTypeOK

LEMMA CpuKept ==
  ASSUME TInv, NotFetch, cpu_state' \in CpuStates, reg_out' \in Addr \cup {X},
         reg_op1' \in Addr \cup {X}, reg_sh' \in 0..MaxShift
  PROVE  CpuTypeOK'
BY Zenon DEF NotFetch, TInv, TypeOK, CpuTypeOK

LEMMA ShZero == 0 \in 0..MaxShift
BY BoundsAssumption, SMT

LEMMA Zeros ==
  /\ 0 \in 0..3 /\ 0 \in 0..2 /\ 0 \in 0..MaxTimer
  /\ MaxTimeout \in 0..MaxTimeout
BY BoundsAssumption, SMT

LEMMA LatKept ==
  ASSUME TInv, UNCHANGED <<latched_stalu, latched_branch>>,
         latched_store' \in BOOLEAN, latched_rd' \in RdType
  PROVE  LatTypeOK'
BY Zenon DEF TInv, TypeOK, LatTypeOK, RdType

LEMMA PcKept ==
  ASSUME TInv, cpu_state \in Early, UNCHANGED <<latched_stalu, latched_branch>>
  PROVE  PcInv'
BY SMT DEF TInv, PcInv, Early

\* A step from one of these states that computes no branch target.
LEMMA EarlyType ==
  ASSUME TInv, cpu_state \in Early, NotFetch,
         ReqTypeOK', decoder_trigger' \in BOOLEAN, decoder_pseudo_trigger' \in BOOLEAN,
         cpu_state' \in CpuStates, reg_out' = X, reg_op1' \in Addr \cup {X}, reg_sh' \in 0..MaxShift,
         UNCHANGED <<latched_stalu, latched_branch>>, latched_store' \in BOOLEAN, latched_rd' \in RdType,
         OwnTypeOK',
         irq_active' \in BOOLEAN, irq_mask' \subseteq Irqs, eoi' \subseteq Irqs,
         irq_pending' \subseteq Irqs, timer' \in 0..MaxTimer
  PROVE  TInv'
<1>1. EveryTypeOK'  BY EveryType DEF NotFetch
<1>2. CpuTypeOK'  BY CpuKept, Zenon
<1>3. QED  BY <1>1, <1>2, LatKept, IrqKept, PcKept, Assemble DEF TInv

\* The values most of these steps assign.
LEMMA OldValues ==
  ASSUME TInv
  PROVE  /\ latched_store \in BOOLEAN /\ latched_stalu \in BOOLEAN /\ latched_rd \in RdType /\ pcpi_valid \in BOOLEAN
         /\ alu_cmp \in BOOLEAN /\ reg_op1 \in Addr \cup {X} /\ reg_sh \in 0..MaxShift
         /\ X \in Addr \cup {X} /\ dec1 \in Insn
BY DEF TInv, TypeOK, LatTypeOK, PcpiTypeOK, AluTypeOK, CpuTypeOK, DecTypeOK, RdType

\* What the steps of cpu_state_ld_rs1 and cpu_state_ld_rs2 share.
InOperand ==
  /\ cpu_state \in Early /\ NotFetch
  /\ decoder_trigger' \in BOOLEAN /\ decoder_pseudo_trigger' \in BOOLEAN
  /\ alu_out_q' \in Addr \cup {X} /\ reg_out' = X

LEMMA InLdRs1Type ==
  ASSUME NEW arm, InLdRs1(arm), reg_out' = X
  PROVE  InOperand
<1>1. cpu_state = "ld_rs1" /\ NotFetch /\ Trigger /\ alu_out_q' = X
  BY Zenon DEF InLdRs1
<1>2. QED  BY <1>1, TriggerType DEF InOperand, Early

LEMMA InLdRs2Type ==
  ASSUME InLdRs2
  PROVE  InOperand
<1>1. cpu_state = "ld_rs2" /\ NotFetch /\ Trigger /\ alu_out_q' = X /\ reg_out' = X
  BY Zenon DEF InLdRs2
<1>2. QED  BY <1>1, TriggerType DEF InOperand, Early

LEMMA NoWaitType ==
  ASSUME NoWait
  PROVE  alu_wait' \in BOOLEAN /\ alu_wait_2' \in BOOLEAN
BY Zenon DEF NoWait

LEMMA KeepLatchesType ==
  ASSUME TInv, KeepLatches
  PROVE  /\ UNCHANGED <<latched_stalu, latched_branch>>
         /\ latched_store' \in BOOLEAN /\ latched_rd' \in RdType
BY OldValues, Zenon DEF KeepLatches, KeepRd

\* An illegal instruction raises irq_ebreak or stops the core.
LEMMA IllegalType ==
  ASSUME TInv, NEW raised \in SUBSET {irq_ebreak}, IrqPending(Latched, raised), Illegal(raised)
  PROVE  irq_pending' \subseteq Irqs /\ cpu_state' \in CpuStates
<1>1. raised \subseteq Irqs  BY BoundsAssumption
<1>2. Goto("fetch") \/ Goto("trap")  BY Zenon DEF Illegal
<1>3. QED  BY <1>1, <1>2, LatchedType, IrqPendingType, GotoType DEF CpuStates

LEMMA PcpiType ==
  ASSUME TInv, NEW again \in CpuStates, Pcpi(again)
  PROVE  /\ ReqTypeOK' /\ pcpi_valid' \in BOOLEAN /\ latched_store' \in BOOLEAN
         /\ irq_pending' \subseteq Irqs /\ timer' \in 0..MaxTimer /\ cpu_state' \in CpuStates
<1>1. CASE pcpi_valid' = FALSE /\ Request(mem_do_prefetch, TRUE, "none") /\ latched_store' \in BOOLEAN
             /\ Quiet /\ Goto("fetch")
  BY <1>1, RequestType, QuietType, GotoType DEF CpuStates
<1>2. CASE /\ pcpi_valid' = FALSE /\ KeepRequest /\ UNCHANGED latched_store /\ Countdown
           /\ \E raised \in SUBSET {irq_ebreak} : IrqPending(Latched, raised) /\ Illegal(raised)
  <2>1. irq_pending' \subseteq Irqs /\ cpu_state' \in CpuStates
    BY <1>2, IllegalType
  <2>2. QED  BY <1>2, <2>1, RequestType, CountdownType, OldValues DEF KeepRequest
<1>3. CASE pcpi_valid' = TRUE /\ KeepRequest /\ UNCHANGED latched_store /\ Quiet /\ Goto(again)
  BY <1>3, RequestType, QuietType, GotoType, OldValues DEF KeepRequest, CpuStates
<1>4. QED  BY <1>1, <1>2, <1>3, Zenon DEF Pcpi

LEMMA LdRs1PcpiType ==
  ASSUME TInv, LdRs1Pcpi
  PROVE  TInv'
<1>1. /\ InLdRs1("trap") /\ reg_out' = X /\ reg_op1' = X /\ reg_sh' = 0 /\ alu_cmp' = FALSE
      /\ NoWait /\ KeepIrq /\ UNCHANGED <<latched_stalu, latched_branch, latched_rd>>
  BY Zenon DEF LdRs1Pcpi
<1>2. /\ ReqTypeOK' /\ pcpi_valid' \in BOOLEAN /\ latched_store' \in BOOLEAN
      /\ irq_pending' \subseteq Irqs /\ timer' \in 0..MaxTimer /\ cpu_state' \in CpuStates
  <2>1. CASE ENABLE_REGS_DUALPORT
    <3>1. Pcpi("ld_rs1")  BY <2>1, Zenon DEF LdRs1Pcpi
    <3>2. QED  BY <3>1, PcpiType DEF CpuStates
  <2>2. CASE ~ENABLE_REGS_DUALPORT
    <3>1. KeepRequest /\ UNCHANGED <<latched_store, pcpi_valid>> /\ Quiet /\ Goto("ld_rs2")
      BY <2>2, Zenon DEF LdRs1Pcpi
    <3>2. QED  BY <3>1, RequestType, QuietType, GotoType, OldValues DEF KeepRequest, CpuStates
  <2>3. QED  BY <2>1, <2>2
<1>3. OwnTypeOK'
  BY <1>1, <1>2, InLdRs1Type, NoWaitType, Zenon DEF InOperand, OwnTypeOK
<1>4. QED
  BY <1>1, <1>2, <1>3, InLdRs1Type, KeepIrqType, OldValues, ShZero, EarlyType DEF InOperand

LEMMA LdRs1IllegalType ==
  ASSUME TInv, LdRs1Illegal
  PROVE  TInv'
<1>1. /\ InLdRs1("trap") /\ reg_out' = X /\ reg_op1' = X /\ reg_sh' = 0 /\ alu_cmp' = FALSE
      /\ NoWait /\ KeepIrq /\ KeepLatches /\ KeepRequest /\ UNCHANGED pcpi_valid /\ Countdown
  BY Zenon DEF LdRs1Illegal
<1>2. irq_pending' \subseteq Irqs /\ cpu_state' \in CpuStates
  BY IllegalType, Zenon DEF LdRs1Illegal
<1>3. OwnTypeOK'
  BY <1>1, InLdRs1Type, NoWaitType, OldValues, Zenon DEF InOperand, OwnTypeOK
<1>4. ReqTypeOK' /\ timer' \in 0..MaxTimer
  BY <1>1, RequestType, CountdownType DEF KeepRequest
<1>5. QED
  BY <1>1, <1>2, <1>3, <1>4, InLdRs1Type, KeepIrqType, KeepLatchesType, OldValues, ShZero, EarlyType
  DEF InOperand

LEMMA LdRs1ReadType ==
  ASSUME TInv, LdRs1Read
  PROVE  TInv'
<1>1. /\ \E arm : InLdRs1(arm)
      /\ reg_out' = X /\ reg_op1' = X /\ reg_sh' = 0 /\ alu_cmp' = FALSE
      /\ NoWait /\ KeepIrq /\ KeepRequest /\ Quiet /\ Goto("fetch")
      /\ UNCHANGED <<latched_stalu, latched_branch, pcpi_valid>> /\ latched_store' = TRUE
  BY Zenon DEF LdRs1Read
<1>2. latched_rd' \in RdType
  <2>1. [latched_rd EXCEPT !.reg = "q"] \in RdType
    BY OldValues DEF RdType, RdKinds
  <2>2. QED  BY <2>1, OldValues, Zenon DEF LdRs1Read
<1>3. InOperand  BY <1>1, InLdRs1Type
<1>4. OwnTypeOK'
  BY <1>1, <1>3, NoWaitType, OldValues, Zenon DEF InOperand, OwnTypeOK
<1>5. ReqTypeOK' /\ cpu_state' \in CpuStates
  BY <1>1, RequestType, GotoType DEF KeepRequest, CpuStates
<1>6. QED
  BY <1>1, <1>2, <1>3, <1>4, <1>5, QuietType, KeepIrqType, OldValues, ShZero, EarlyType DEF InOperand

LEMMA LdRs1MaskirqType ==
  ASSUME TInv, LdRs1Maskirq
  PROVE  TInv'
<1>1. /\ InLdRs1("maskirq")
      /\ reg_out' = X /\ reg_op1' = X /\ reg_sh' = 0 /\ alu_cmp' = FALSE
      /\ NoWait /\ KeepRequest /\ Quiet /\ Goto("fetch") /\ latched_store' = TRUE
      /\ UNCHANGED <<latched_stalu, latched_branch, latched_rd, irq_active, eoi, pcpi_valid>>
  BY Zenon DEF LdRs1Maskirq
<1>2. irq_mask' \subseteq Irqs
  BY BoundsAssumption DEF LdRs1Maskirq
<1>3. irq_active' \in BOOLEAN /\ eoi' \subseteq Irqs
  BY <1>1, Zenon DEF TInv, TypeOK, IrqTypeOK
<1>4. OwnTypeOK'
  BY <1>1, InLdRs1Type, NoWaitType, OldValues, Zenon DEF InOperand, OwnTypeOK
<1>5. ReqTypeOK' /\ cpu_state' \in CpuStates
  BY <1>1, RequestType, GotoType DEF KeepRequest, CpuStates
<1>6. QED
  BY <1>1, <1>2, <1>3, <1>4, <1>5, InLdRs1Type, QuietType, OldValues, ShZero, EarlyType DEF InOperand

LEMMA LdRs1TimerType ==
  ASSUME TInv, LdRs1Timer
  PROVE  TInv'
<1>1. /\ InLdRs1("timer") /\ timer' \in 0..MaxTimer
      /\ reg_out' = X /\ reg_op1' = X /\ reg_sh' = 0 /\ alu_cmp' = FALSE
      /\ NoWait /\ KeepRequest /\ KeepIrq /\ IrqPending(Latched, {}) /\ Goto("fetch")
      /\ latched_store' = TRUE
      /\ UNCHANGED <<latched_stalu, latched_branch, latched_rd, pcpi_valid>>
  BY Zenon DEF LdRs1Timer
<1>2. irq_pending' \subseteq Irqs
  BY <1>1, LatchedType, IrqPendingType
<1>3. OwnTypeOK'
  BY <1>1, InLdRs1Type, NoWaitType, OldValues, Zenon DEF InOperand, OwnTypeOK
<1>4. ReqTypeOK' /\ cpu_state' \in CpuStates
  BY <1>1, RequestType, GotoType DEF KeepRequest, CpuStates
<1>5. QED
  BY <1>1, <1>2, <1>3, <1>4, InLdRs1Type, KeepIrqType, OldValues, ShZero, EarlyType DEF InOperand

LEMMA LdRs1LoadType ==
  ASSUME TInv, LdRs1Load
  PROVE  TInv'
<1>1. /\ InLdRs1("load")
      /\ reg_out' = X /\ reg_op1' = X /\ reg_sh' = 0 /\ alu_cmp' = FALSE /\ NoWait
      /\ Request(mem_do_prefetch, TRUE, "none") /\ KeepLatches /\ KeepIrq /\ Quiet
      /\ UNCHANGED pcpi_valid /\ Goto("ldmem")
  BY Zenon DEF LdRs1Load
<1>2. OwnTypeOK'
  BY <1>1, InLdRs1Type, NoWaitType, OldValues, Zenon DEF InOperand, OwnTypeOK
<1>3. ReqTypeOK' /\ cpu_state' \in CpuStates
  BY <1>1, RequestType, GotoType DEF CpuStates
<1>4. QED
  BY <1>1, <1>2, <1>3, InLdRs1Type, QuietType, KeepIrqType, KeepLatchesType, OldValues, ShZero, EarlyType
  DEF InOperand

LEMMA LdRs1ShiftType ==
  ASSUME TInv, LdRs1Shift
  PROVE  TInv'
<1>1. /\ InLdRs1("shift") /\ reg_sh' \in 0..MaxShift
      /\ reg_out' = X /\ reg_op1' = X /\ alu_cmp' = FALSE /\ NoWait
      /\ KeepRequest /\ KeepLatches /\ KeepIrq /\ Quiet /\ UNCHANGED pcpi_valid /\ Goto("shift")
  BY Zenon DEF LdRs1Shift
<1>2. OwnTypeOK'
  BY <1>1, InLdRs1Type, NoWaitType, OldValues, Zenon DEF InOperand, OwnTypeOK
<1>3. ReqTypeOK' /\ cpu_state' \in CpuStates
  BY <1>1, RequestType, GotoType DEF KeepRequest, CpuStates
<1>4. QED
  BY <1>1, <1>2, <1>3, InLdRs1Type, QuietType, KeepIrqType, KeepLatchesType, OldValues, EarlyType
  DEF InOperand

LEMMA LdRs1ImmType ==
  ASSUME TInv, LdRs1Imm
  PROVE  TInv'
<1>1. /\ InLdRs1("lui") \/ InLdRs1("imm")
      /\ Request(mem_do_prefetch, IF TWO_CYCLE_ALU THEN mem_do_rinst ELSE mem_do_prefetch, "none")
      /\ reg_out' = X /\ reg_op1' = X /\ reg_sh' = 0 /\ alu_cmp' = FALSE
      /\ alu_wait' = TWO_CYCLE_ALU /\ alu_wait_2' = FALSE
      /\ KeepLatches /\ KeepIrq /\ Quiet /\ UNCHANGED pcpi_valid /\ Goto("exec")
  BY Zenon DEF LdRs1Imm
<1>2. InOperand  BY <1>1, InLdRs1Type
<1>3. OwnTypeOK'
  <2>1. alu_wait' = TWO_CYCLE_ALU /\ alu_wait_2' = FALSE
    BY <1>1
  <2>2. ("TWO_CYCLE_ALU" \in config.on) \in BOOLEAN
    BY SMT
  <2>3. alu_wait' \in BOOLEAN /\ alu_wait_2' \in BOOLEAN
    BY <2>1, <2>2 DEF TWO_CYCLE_ALU
  <2>4. QED  BY <2>3, <1>1, <1>2, OldValues, Zenon DEF InOperand, OwnTypeOK
<1>4. ReqTypeOK' /\ cpu_state' \in CpuStates
  BY <1>1, RequestType, GotoType DEF CpuStates
<1>5. QED
  BY <1>1, <1>2, <1>3, <1>4, QuietType, KeepIrqType, KeepLatchesType, OldValues, ShZero, EarlyType
  DEF InOperand

LEMMA WithRs2Type ==
  ASSUME TInv, NEW arms, WithRs2(arms)
  PROVE  /\ ReqTypeOK' /\ reg_sh' \in 0..MaxShift /\ alu_cmp' \in BOOLEAN
         /\ alu_wait' \in BOOLEAN /\ alu_wait_2' \in BOOLEAN /\ cpu_state' \in CpuStates
<1>1. ReqTypeOK'
  <2>1. \E rinst : Request(mem_do_prefetch, rinst, "none")
    BY Zenon DEF WithRs2, KeepRequest
  <2>2. QED  BY <2>1, RequestType
<1>2. cpu_state' \in CpuStates
  <2>1. Goto("stmem") \/ Goto("shift") \/ Goto("exec")  BY Zenon DEF WithRs2
  <2>2. QED  BY <2>1, GotoType DEF CpuStates
<1>3. reg_sh' \in 0..MaxShift  BY ShZero, Zenon DEF WithRs2
<1>4. alu_cmp' \in BOOLEAN  BY Zenon DEF WithRs2
<1>5. alu_wait' \in BOOLEAN /\ alu_wait_2' \in BOOLEAN
  BY NoWaitType, Zenon DEF WithRs2, SecondWait
<1>6. QED  BY <1>1, <1>2, <1>3, <1>4, <1>5

LEMMA LdRs1DefaultType ==
  ASSUME TInv, LdRs1Default
  PROVE  TInv'
<1>1. /\ InLdRs1("default") /\ reg_out' = X /\ reg_op1' = X
      /\ KeepLatches /\ KeepIrq /\ Quiet /\ UNCHANGED pcpi_valid
  BY Zenon DEF LdRs1Default
<1>2. /\ ReqTypeOK' /\ reg_sh' \in 0..MaxShift /\ alu_cmp' \in BOOLEAN
      /\ alu_wait' \in BOOLEAN /\ alu_wait_2' \in BOOLEAN /\ cpu_state' \in CpuStates
  <2>1. CASE ENABLE_REGS_DUALPORT
    <3>1. WithRs2(LdRs2Arms)  BY <2>1, Zenon DEF LdRs1Default
    <3>2. QED  BY <3>1, WithRs2Type
  <2>2. CASE ~ENABLE_REGS_DUALPORT
    <3>1. KeepRequest /\ reg_sh' = 0 /\ alu_cmp' = FALSE /\ NoWait /\ Goto("ld_rs2")
      BY <2>2, Zenon DEF LdRs1Default
    <3>2. QED  BY <3>1, RequestType, NoWaitType, GotoType, ShZero DEF KeepRequest, CpuStates
  <2>3. QED  BY <2>1, <2>2
<1>3. OwnTypeOK'
  BY <1>1, <1>2, InLdRs1Type, OldValues, Zenon DEF InOperand, OwnTypeOK
<1>4. QED
  BY <1>1, <1>2, <1>3, InLdRs1Type, QuietType, KeepIrqType, KeepLatchesType, OldValues, EarlyType
  DEF InOperand

LEMMA LdRs2PcpiType ==
  ASSUME TInv, LdRs2Pcpi
  PROVE  TInv'
<1>1. /\ InLdRs2 /\ UNCHANGED reg_op1 /\ KeepIrq
      /\ reg_sh' = 0 /\ alu_cmp' = FALSE /\ NoWait
      /\ UNCHANGED <<latched_stalu, latched_branch, latched_rd>> /\ Pcpi("ld_rs2")
  BY Zenon DEF LdRs2Pcpi, InLdRs2
<1>2. /\ ReqTypeOK' /\ pcpi_valid' \in BOOLEAN /\ latched_store' \in BOOLEAN
      /\ irq_pending' \subseteq Irqs /\ timer' \in 0..MaxTimer /\ cpu_state' \in CpuStates
  BY <1>1, PcpiType DEF CpuStates
<1>3. OwnTypeOK'
  BY <1>1, <1>2, InLdRs2Type, NoWaitType, Zenon DEF InOperand, OwnTypeOK
<1>4. QED
  BY <1>1, <1>2, <1>3, InLdRs2Type, KeepIrqType, OldValues, ShZero, EarlyType DEF InOperand

LEMMA LdRs2DispatchType ==
  ASSUME TInv, LdRs2Dispatch
  PROVE  TInv'
<1>1. /\ InLdRs2 /\ UNCHANGED reg_op1 /\ KeepIrq
      /\ KeepLatches /\ Quiet /\ UNCHANGED pcpi_valid /\ WithRs2(LdRs2Arms)
  BY Zenon DEF LdRs2Dispatch, InLdRs2
<1>2. OwnTypeOK'
  BY <1>1, WithRs2Type, InLdRs2Type, OldValues, Zenon DEF InOperand, OwnTypeOK
<1>3. QED
  BY <1>1, <1>2, WithRs2Type, InLdRs2Type, QuietType, KeepIrqType, KeepLatchesType, OldValues, EarlyType
  DEF InOperand

LEMMA ShiftType ==
  ASSUME TInv, Shift
  PROVE  TInv'
<1>1. /\ cpu_state = "shift" /\ NotFetch /\ Trigger
      /\ latched_store' = TRUE /\ reg_out' = X /\ alu_out_q' = X /\ NoWait /\ KeepIrq /\ Quiet
      /\ UNCHANGED <<reg_op1, alu_cmp, latched_stalu, latched_branch, latched_rd, pcpi_valid>>
  BY Zenon DEF Shift
<1>2. ReqTypeOK' /\ cpu_state' \in CpuStates /\ reg_sh' \in 0..MaxShift
  <2>1. CASE reg_sh = 0
    <3>1. Request(mem_do_prefetch, mem_do_prefetch, "none") /\ reg_sh' = 0 /\ Goto("fetch")
      BY <2>1, Zenon DEF Shift
    <3>2. QED  BY <3>1, RequestType, GotoType, ShZero DEF CpuStates
  <2>2. CASE reg_sh # 0
    <3>1. KeepRequest /\ reg_sh' = reg_sh - (IF reg_sh >= 4 THEN 4 ELSE 1) /\ Goto("shift")
      BY <2>2, Zenon DEF Shift
    <3>2. reg_sh' \in 0..MaxShift
      BY <2>2, <3>1, OldValues, BoundsAssumption, SMT
    <3>3. QED  BY <3>1, <3>2, RequestType, GotoType DEF KeepRequest, CpuStates
  <2>3. QED  BY <2>1, <2>2
<1>3. OwnTypeOK'
  BY <1>1, NoWaitType, OldValues, Zenon DEF OwnTypeOK
<1>4. QED
  BY <1>1, <1>2, <1>3, TriggerType, QuietType, KeepIrqType, OldValues, EarlyType DEF Early

\* What the steps of a load or a store share.
LEMMA InMemType ==
  ASSUME TInv, NEW s \in {"stmem", "ldmem"}, InMem(s),
         ReqTypeOK', decoder_trigger' \in BOOLEAN, decoder_pseudo_trigger' \in BOOLEAN,
         reg_op1' \in Addr \cup {X}, cpu_state' \in CpuStates
  PROVE  TInv'
<1>1. /\ cpu_state = s /\ NotFetch /\ reg_out' = X /\ reg_sh' = 0 /\ alu_out_q' = X /\ NoWait
      /\ KeepIrq /\ Quiet /\ latched_store' = (latched_store \/ s = "ldmem")
      /\ UNCHANGED <<alu_cmp, latched_stalu, latched_branch, latched_rd, pcpi_valid>>
  BY Zenon DEF InMem, KeepRd
<1>2. latched_store' \in BOOLEAN  BY <1>1, Zenon
<1>3. OwnTypeOK'
  BY <1>1, NoWaitType, OldValues, Zenon DEF OwnTypeOK
<1>4. QED
  BY <1>1, <1>2, <1>3, QuietType, KeepIrqType, OldValues, ShZero, EarlyType DEF Early

LEMMA DataType ==
  ASSUME TInv, StMem \/ LdMem
  PROVE  TInv'
<1>0. PICK s \in {"stmem", "ldmem"} :
        \E requested, set :
          \/ MemWaitFetch(s) \/ MemRequest(s, requested, set)
          \/ MemWaitData(s, requested) \/ MemFinish(s, requested, set)
  BY Zenon DEF StMem, LdMem
<1>1. PICK requested, set :
        \/ MemWaitFetch(s) \/ MemRequest(s, requested, set)
        \/ MemWaitData(s, requested) \/ MemFinish(s, requested, set)
  BY <1>0
<1>2. CASE MemWaitFetch(s) \/ MemWaitData(s, requested)
  <2>1. InMem(s) /\ KeepRequest /\ Trigger /\ UNCHANGED reg_op1 /\ Goto(s)
    BY <1>2, Zenon DEF MemWaitFetch, MemWaitData
  <2>2. QED
    BY <2>1, InMemType, RequestType, TriggerType, GotoType, OldValues DEF KeepRequest, CpuStates
<1>3. CASE MemRequest(s, requested, set)
  <2>1. /\ InMem(s) /\ reg_op1' \in Possible(DataAddrs)
        /\ Request(mem_do_prefetch, mem_do_rinst, set) /\ Trigger /\ Goto(s)
    BY <1>3, Zenon DEF MemRequest
  <2>2. QED
    BY <2>1, InMemType, RequestType, TriggerType, GotoType, PossibleType DEF CpuStates
<1>4. CASE MemFinish(s, requested, set)
  <2>1. /\ InMem(s)
        /\ reg_op1' \in Possible(DataAddrs) \/ reg_op1' = reg_op1
        /\ \E set2 : Request(mem_do_prefetch, mem_do_rinst, set2)
        /\ decoder_trigger' = TRUE /\ decoder_pseudo_trigger' = TRUE /\ Goto("fetch")
    BY <1>4, Zenon DEF MemFinish
  <2>2. QED
    BY <2>1, InMemType, RequestType, GotoType, PossibleType, OldValues DEF CpuStates
<1>5. QED  BY <1>1, <1>2, <1>3, <1>4

LEMMA TrappedType ==
  ASSUME TInv, Trapped
  PROVE  TInv'
<1>1. /\ Every /\ trap' = TRUE /\ KeepRequest /\ Trigger /\ NoWait
      /\ reg_out' = X /\ reg_sh' = 0 /\ alu_out_q' = X /\ do_waitirq' = FALSE
      /\ KeepLatches /\ KeepIrq /\ Quiet /\ Goto("trap")
      /\ UNCHANGED <<reg_pc, reg_next_pc, reg_op1, alu_cmp, irq_state, irq_delay, pcpi_valid>>
  BY Zenon DEF Trapped
<1>2. cpu_state' = "trap"  BY <1>1, GotoType
<1>3. CpuTypeOK'
  BY <1>1, <1>2, ShZero, Zenon DEF CpuTypeOK, CpuStates, TInv, TypeOK
<1>4. LatTypeOK'
  BY <1>1, KeepLatchesType, Zenon DEF LatTypeOK, TInv, TypeOK, RdType
<1>5. IrqTypeOK'
  BY <1>1, QuietType, KeepIrqType, Zenon DEF IrqTypeOK, TInv, TypeOK
<1>6. OwnTypeOK'
  BY <1>1, NoWaitType, OldValues, Zenon DEF OwnTypeOK
<1>7. PcInv'
  BY <1>2 DEF PcInv
<1>8. QED
  BY <1>1, <1>3, <1>4, <1>5, <1>6, <1>7, EveryType, RequestType, TriggerType, Assemble
  DEF KeepRequest, TInv

-------------------------------------------------------------------------------
(* Branch targets *)

\* rets jumps to the address in q0.
LEMMA LdRs1RetirqType ==
  ASSUME TInv, LdRs1Retirq
  PROVE  TInv'
<1>1. /\ cpu_state = "ld_rs1" /\ NotFetch /\ Trigger /\ alu_out_q' = X
      /\ eoi' = {} /\ irq_active' = FALSE /\ UNCHANGED irq_mask
      /\ latched_branch' = TRUE /\ latched_store' = TRUE
      /\ reg_out' \in Possible(JumpTargets)
      /\ reg_op1' = X /\ reg_sh' = 0 /\ alu_cmp' = FALSE /\ NoWait /\ KeepRequest /\ Quiet
      /\ UNCHANGED <<latched_stalu, latched_rd, pcpi_valid>> /\ Goto("fetch")
  BY Zenon DEF LdRs1Retirq, InLdRs1
<1>2. reg_out' \in Addr  BY <1>1, PossibleType
<1>3. ~latched_stalu  BY <1>1 DEF TInv, PcInv
<1>4. PcInv'
  BY <1>1, <1>2, <1>3, GotoType DEF PcInv
<1>5. LatTypeOK'
  BY <1>1, <1>3, OldValues, Zenon DEF LatTypeOK, RdType
<1>6. IrqTypeOK'
  <2>1. irq_mask' \subseteq Irqs  BY <1>1, Zenon DEF TInv, TypeOK, IrqTypeOK
  <2>2. QED  BY <1>1, <2>1, QuietType, IrqKept
<1>7. OwnTypeOK'
  BY <1>1, NoWaitType, OldValues, Zenon DEF OwnTypeOK
<1>8. CpuTypeOK'
  BY <1>1, <1>2, GotoType, ShZero, CpuKept DEF CpuStates
<1>9. EveryTypeOK'  BY <1>1, EveryType DEF NotFetch
<1>10. QED
  BY <1>1, <1>4, <1>5, <1>6, <1>7, <1>8, <1>9, RequestType, TriggerType, Assemble
  DEF KeepRequest, TInv

\* What the steps of cpu_state_exec share.
LEMMA InExecType ==
  ASSUME TInv, InExec, ReqTypeOK', LatTypeOK',
         decoder_trigger' \in BOOLEAN, decoder_pseudo_trigger' \in BOOLEAN,
         cpu_state' \in CpuStates, reg_out' \in Addr \cup {X}, alu_out_q' \in Addr \cup {X},
         alu_wait' \in BOOLEAN, alu_wait_2' \in BOOLEAN
  PROVE  TypeOK'
<1>1. /\ NotFetch /\ reg_sh' = 0 /\ UNCHANGED <<reg_op1, alu_cmp, pcpi_valid>>
      /\ KeepIrq /\ Quiet
  BY Zenon DEF InExec
<1>2. OwnTypeOK'  BY <1>1, OldValues, Zenon DEF OwnTypeOK
<1>3. CpuTypeOK'  BY <1>1, OldValues, ShZero, CpuKept
<1>4. IrqTypeOK'  BY <1>1, QuietType, KeepIrqType, IrqKept
<1>5. EveryTypeOK'  BY <1>1, EveryType DEF NotFetch
<1>6. QED  BY <1>2, <1>3, <1>4, <1>5, Assemble

LEMMA ExecWaitType ==
  ASSUME TInv, ExecWait
  PROVE  TInv'
<1>1. /\ InExec /\ cpu_state = "exec"
      /\ Request(mem_do_prefetch, mem_do_prefetch /\ ~alu_wait_2, "none")
      /\ alu_wait' = alu_wait_2 /\ alu_wait_2' = FALSE
      /\ reg_out' = X /\ alu_out_q' = X /\ KeepLatches /\ Trigger /\ Goto("exec")
  BY Zenon DEF ExecWait, InExec
<1>2. LatTypeOK'
  BY <1>1, KeepLatchesType, Zenon DEF LatTypeOK, TInv, TypeOK, RdType
<1>3. alu_wait' \in BOOLEAN  BY <1>1 DEF TInv, TypeOK, AluTypeOK
<1>4. ReqTypeOK' /\ cpu_state' \in CpuStates
  BY <1>1, RequestType, GotoType DEF CpuStates
<1>5. TypeOK'
  BY <1>1, <1>2, <1>3, <1>4, TriggerType, OldValues, InExecType
<1>6. PcInv'
  <2>1. cpu_state' \in {"exec", "trap"}  BY <1>1, GotoType
  <2>2. latched_stalu' = FALSE
    BY <1>1, KeepLatchesType, SMT DEF TInv, TypeOK, LatTypeOK, PcInv
  <2>3. QED  BY <2>1, <2>2 DEF PcInv
<1>7. QED  BY <1>5, <1>6 DEF TInv

LEMMA ExecBranchType ==
  ASSUME TInv, ExecBranch
  PROVE  TInv'
<1>1. /\ InExec /\ cpu_state = "exec"
      /\ latched_rd' = [reg |-> "x0", at |-> Word(X)]
      /\ latched_store' = BranchTaken /\ latched_branch' = BranchTaken
      /\ reg_out' \in Possible(JumpTargets)
      /\ Request(mem_do_prefetch, mem_do_rinst, IF BranchTaken THEN "rinst" ELSE "none")
      /\ decoder_trigger' = BranchTrigger /\ decoder_pseudo_trigger' = FALSE
      /\ NoWait /\ alu_out_q' = X /\ UNCHANGED latched_stalu
      /\ Goto(IF mem_done THEN "fetch" ELSE "exec")
  BY Zenon DEF ExecBranch, InExec
<1>2. reg_out' \in Addr  BY <1>1, PossibleType
<1>3. latched_stalu' = FALSE
  BY <1>1, SMT DEF TInv, TypeOK, LatTypeOK, PcInv
<1>4. BranchTaken \in BOOLEAN
  BY Zenon DEF BranchTaken, TInv, TypeOK, AluTypeOK
<1>5. LatTypeOK'
  <2>1. latched_rd' \in RdType  BY <1>1, RdConstants DEF RdKinds
  <2>2. QED  BY <1>1, <1>3, <1>4, <2>1, Zenon DEF LatTypeOK, RdType
<1>6. cpu_state' \in {"fetch", "exec", "trap"}
  <2>1. Goto("fetch") \/ Goto("exec")  BY <1>1, Zenon
  <2>2. QED  BY <2>1, GotoType
<1>7. decoder_trigger' \in BOOLEAN /\ decoder_pseudo_trigger' \in BOOLEAN
  BY <1>1, Zenon DEF BranchTrigger
<1>8. TypeOK'
  BY <1>1, <1>2, <1>5, <1>6, <1>7, NoWaitType, RequestType, OldValues, InExecType DEF CpuStates
<1>9. PcInv'
  BY <1>2, <1>3, <1>6 DEF PcInv
<1>10. QED  BY <1>8, <1>9 DEF TInv

LEMMA ExecAluType ==
  ASSUME TInv, ExecAlu
  PROVE  TInv'
<1>1. /\ InExec
      /\ latched_branch' = (dec1.op = "jalr") /\ latched_store' = TRUE /\ latched_stalu' = TRUE
      /\ alu_out_q' \in IF dec1.op = "jalr" THEN Possible(JumpTargets) ELSE {X}
      /\ reg_out' = X /\ NoWait /\ UNCHANGED latched_rd /\ KeepRequest /\ Trigger /\ Goto("fetch")
  BY Zenon DEF ExecAlu
<1>2. /\ latched_branch' => alu_out_q' \in Addr
      /\ alu_out_q' \in Addr \cup {X}
  BY <1>1, PossibleType, Zenon
<1>3. LatTypeOK'
  BY <1>1, OldValues, Zenon DEF LatTypeOK, RdType
<1>4. cpu_state' \in {"fetch", "trap"}  BY <1>1, GotoType
<1>5. TypeOK'
  BY <1>1, <1>2, <1>3, <1>4, TriggerType, NoWaitType, RequestType, OldValues, InExecType
  DEF CpuStates, KeepRequest
<1>6. PcInv'
  BY <1>1, <1>2, <1>4, Zenon DEF PcInv
<1>7. QED  BY <1>5, <1>6 DEF TInv

-------------------------------------------------------------------------------
(* Steps of cpu_state_fetch *)

\* What they share: the program counter is an address, the branch is taken.
LEMMA InFetchType ==
  ASSUME TInv, FetchCommon, ReqTypeOK', reg_next_pc' \in Addr, reg_out' = X,
         latched_store' \in BOOLEAN, latched_branch' \in BOOLEAN, latched_rd' \in RdType,
         ~(latched_store' /\ latched_branch'), cpu_state' \in {"fetch", "ld_rs1", "trap"},
         cpu_state' = "ld_rs1" => ~latched_branch',
         irq_state' \in 0..2, irq_active' \in BOOLEAN, irq_delay' \in BOOLEAN,
         irq_pending' \subseteq Irqs, eoi' \subseteq Irqs, do_waitirq' \in BOOLEAN
  PROVE  TInv'
<1>1. /\ cpu_state = "fetch" /\ Every /\ reg_pc' = current_pc /\ latched_stalu' = FALSE /\ Countdown
      /\ UNCHANGED <<reg_op1, reg_sh, alu_cmp, irq_mask, pcpi_valid>>
      /\ trap' = FALSE /\ Trigger /\ alu_wait' = FALSE /\ alu_wait_2' = FALSE /\ alu_out_q' = X
  BY Zenon DEF FetchCommon, InFetch
<1>2. OwnTypeOK'  BY <1>1, OldValues, Zenon DEF OwnTypeOK
<1>3. CpuTypeOK'
  <2>1. reg_pc' \in Addr  BY <1>1, CurrentPcType
  <2>2. cpu_state' \in CpuStates  BY DEF CpuStates
  <2>3. QED  BY <1>1, <2>1, <2>2, OldValues, Zenon DEF CpuTypeOK
<1>4. IrqTypeOK'
  <2>1. irq_mask' \subseteq Irqs  BY <1>1, Zenon DEF TInv, TypeOK, IrqTypeOK
  <2>2. timer' \in 0..MaxTimer  BY <1>1, CountdownType
  <2>3. QED  BY <2>1, <2>2, Zenon DEF IrqTypeOK
<1>5. LatTypeOK'  BY <1>1, Zenon DEF LatTypeOK, RdType
<1>6. PcInv'  BY <1>1 DEF PcInv
<1>7. QED
  BY <1>1, <1>2, <1>3, <1>4, <1>5, <1>6, EveryType, TriggerType, Assemble DEF TInv

\* The values a step of cpu_state_fetch may keep or assign.
LEMMA FetchValues ==
  ASSUME TInv, FetchCommon
  PROVE  /\ current_pc \in Addr /\ Plus4(current_pc) \in Addr
         /\ irq_state \in 0..2 /\ irq_active \in BOOLEAN /\ irq_delay \in BOOLEAN
         /\ eoi \subseteq Irqs /\ Rd(dec1) \in RdType
<1>1. cpu_state = "fetch"  BY Zenon DEF FetchCommon, InFetch
<1>2. current_pc \in Addr  BY <1>1, CurrentPcType
<1>3. QED
  BY <1>2, Plus4Type, OldValues, RdHasType DEF TInv, TypeOK, IrqTypeOK

LEMMA FetchIrqType ==
  ASSUME TInv, FetchIrq
  PROVE  TInv'
<1>1. /\ FetchCommon /\ reg_next_pc' = current_pc /\ reg_out' = X
      /\ latched_store' = FALSE /\ latched_branch' = FALSE
      /\ latched_rd' = [reg |-> IF irq_state = 1 THEN "q1" ELSE "q0", at |-> Word(X)]
      /\ irq_state' = (irq_state + 1) % 3
      /\ do_waitirq' = FALSE /\ UNCHANGED irq_delay /\ Goto("fetch")
  BY Zenon DEF FetchIrq
<1>2. ReqTypeOK'
  <2>1. \E rinst : Request(mem_do_prefetch, rinst, "none")  BY Zenon DEF FetchIrq
  <2>2. QED  BY <2>1, RequestType
<1>3. irq_active' \in BOOLEAN
  BY <1>1, Zenon DEF FetchIrq
<1>4. irq_pending' \subseteq Irqs /\ eoi' \subseteq Irqs
  <2>1. CASE IrqArm /\ irq_state = 2
    <3>1. eoi' = Pending /\ IrqPending(Latched \cap irq_mask, {})
      BY <2>1, Zenon DEF FetchIrq
    <3>2. Pending \subseteq Irqs  BY DEF Pending, TInv, TypeOK, IrqTypeOK
    <3>3. Latched \cap irq_mask \subseteq Irqs  BY LatchedType
    <3>4. QED  BY <3>1, <3>2, <3>3, IrqPendingType
  <2>2. CASE ~(IrqArm /\ irq_state = 2)
    <3>1. eoi' = eoi /\ IrqPending(Latched, {})
      BY <2>2, Zenon DEF FetchIrq
    <3>2. QED  BY <1>1, <3>1, FetchValues, LatchedType, IrqPendingType
  <2>3. QED  BY <2>1, <2>2
<1>5. irq_state' \in 0..2
  <2>1. irq_state \in 0..2  BY <1>1, FetchValues
  <2>2. QED  BY <1>1, <2>1, SMT
<1>6. latched_rd' \in RdType
  <2>1. (IF irq_state = 1 THEN "q1" ELSE "q0") \in RdKinds  BY SMT DEF RdKinds
  <2>2. QED  BY <1>1, <2>1, RdConstants
<1>7. cpu_state' \in {"fetch", "trap"}  BY <1>1, GotoType
<1>8. irq_delay' \in BOOLEAN /\ reg_next_pc' \in Addr  BY <1>1, FetchValues, Zenon
<1>9. QED
  BY <1>1, <1>2, <1>3, <1>4, <1>5, <1>6, <1>7, <1>8, InFetchType

LEMMA FetchWaitirqType ==
  ASSUME TInv, FetchWaitirq
  PROVE  TInv'
<1>1. /\ FetchCommon /\ latched_rd' = Rd(dec1) /\ latched_branch' = FALSE /\ reg_out' = X
      /\ reg_next_pc' = IF irq_pending # {} THEN Plus4(current_pc) ELSE current_pc
      /\ IrqPending(Latched, {}) /\ UNCHANGED <<irq_state, irq_active, irq_delay, eoi>>
      /\ Goto("fetch")
  BY Zenon DEF FetchWaitirq
<1>2. ReqTypeOK'
  <2>1. \E rinst : Request(mem_do_prefetch, rinst, "none")  BY Zenon DEF FetchWaitirq
  <2>2. QED  BY <2>1, RequestType
<1>3. latched_store' \in BOOLEAN /\ do_waitirq' \in BOOLEAN
  BY Zenon DEF FetchWaitirq
<1>4. reg_next_pc' \in Addr  BY <1>1, FetchValues, Zenon
<1>5. irq_pending' \subseteq Irqs  BY <1>1, LatchedType, IrqPendingType
<1>6. cpu_state' \in {"fetch", "trap"}  BY <1>1, GotoType
<1>7. QED
  BY <1>1, <1>2, <1>3, <1>4, <1>5, <1>6, FetchValues, InFetchType

LEMMA NextDelayType ==
  ASSUME TInv
  PROVE  NextDelay \in BOOLEAN
BY DEF NextDelay, TInv, TypeOK, IrqTypeOK

LEMMA FetchJalType ==
  ASSUME TInv, FetchJal
  PROVE  TInv'
<1>1. /\ FetchCommon /\ reg_next_pc' \in Possible(JumpTargets) /\ reg_out' = X
      /\ latched_branch' = TRUE /\ latched_store' = FALSE /\ latched_rd' = Rd(dec1)
      /\ Request(mem_do_prefetch, TRUE, "none")
      /\ irq_delay' = NextDelay /\ do_waitirq' = FALSE
      /\ IrqPending(Latched, {}) /\ UNCHANGED <<irq_state, irq_active, eoi>> /\ Goto("fetch")
  BY Zenon DEF FetchJal
<1>2. reg_next_pc' \in Addr  BY <1>1, PossibleType
<1>3. irq_pending' \subseteq Irqs  BY <1>1, LatchedType, IrqPendingType
<1>4. cpu_state' \in {"fetch", "trap"}  BY <1>1, GotoType
<1>5. QED
  BY <1>1, <1>2, <1>3, <1>4, RequestType, NextDelayType, FetchValues, InFetchType

LEMMA FetchLaunchType ==
  ASSUME TInv, FetchLaunch
  PROVE  TInv'
<1>1. /\ FetchCommon /\ reg_next_pc' = Plus4(current_pc) /\ reg_out' = X
      /\ latched_branch' = FALSE /\ latched_store' = FALSE /\ latched_rd' = Rd(dec1)
      /\ Request(Prefetches, FALSE, "none")
      /\ irq_delay' = NextDelay /\ do_waitirq' = FALSE
      /\ IrqPending(Latched, {}) /\ UNCHANGED <<irq_state, irq_active, eoi>> /\ Goto("ld_rs1")
  BY Zenon DEF FetchLaunch
<1>2. irq_pending' \subseteq Irqs  BY <1>1, LatchedType, IrqPendingType
<1>3. cpu_state' \in {"ld_rs1", "trap"}  BY <1>1, GotoType
<1>4. QED
  BY <1>1, <1>2, <1>3, RequestType, NextDelayType, FetchValues, InFetchType

LEMMA FetchWaitType ==
  ASSUME TInv, FetchWait
  PROVE  TInv'
<1>1. /\ FetchCommon /\ reg_next_pc' = current_pc /\ reg_out' = X
      /\ latched_branch' = FALSE /\ latched_store' = FALSE /\ latched_rd' = Rd(dec1)
      /\ Request(mem_do_prefetch, ~do_waitirq, "none") /\ do_waitirq' = FALSE
      /\ IrqPending(Latched, {}) /\ UNCHANGED <<irq_state, irq_active, irq_delay, eoi>>
      /\ Goto("fetch")
  BY Zenon DEF FetchWait
<1>2. irq_pending' \subseteq Irqs  BY <1>1, LatchedType, IrqPendingType
<1>3. cpu_state' \in {"fetch", "trap"}  BY <1>1, GotoType
<1>4. QED
  BY <1>1, <1>2, <1>3, RequestType, FetchValues, InFetchType

-------------------------------------------------------------------------------
(* The theorem *)

LEMMA ResetType ==
  ASSUME TInv, Reset
  PROVE  TInv'
<1>1. /\ mem_state' = 0 /\ mem_valid' = FALSE /\ mem_ready' = FALSE
      /\ UNCHANGED <<mem_addr, mem_wstrb, mem_instr, config>>
      /\ mem_do_prefetch' = FALSE /\ mem_do_rinst' = FALSE
      /\ mem_do_rdata' = FALSE /\ mem_do_wdata' = FALSE
      /\ decoder_trigger' = FALSE /\ decoder_pseudo_trigger' = FALSE
      /\ trap' = FALSE /\ reg_pc' = PROGADDR_RESET /\ reg_next_pc' = PROGADDR_RESET
      /\ reg_out' = X /\ reg_sh' = 0 /\ UNCHANGED reg_op1
      /\ latched_store' = HAS_STACKADDR /\ latched_stalu' = FALSE /\ latched_branch' = FALSE
      /\ latched_rd' = IF HAS_STACKADDR THEN [reg |-> "sp", at |-> Word(X)] ELSE latched_rd
      /\ Alu /\ alu_out_q' = X /\ NoWait /\ UNCHANGED alu_cmp
      /\ irq_state' = 0 /\ irq_active' = FALSE /\ irq_delay' = FALSE
      /\ irq_mask' = Irqs /\ eoi' = {} /\ timer' = 0 /\ do_waitirq' = FALSE
      /\ pcpi_valid' = FALSE /\ pcpi_timeout' = FALSE /\ pcpi_timeout_counter' = MaxTimeout
  BY Zenon DEF Reset
<1>2. cpu_state' \in {"fetch", "trap"}  BY Zenon DEF Reset
<1>3. /\ mem_rdata_q' \in Insn /\ dec1' \in Insn /\ dec2' \in Insn
      /\ decoder_trigger_q' \in BOOLEAN /\ decoder_pseudo_trigger_q' \in BOOLEAN
  <2> USE DEF TInv, TypeOK, DecTypeOK
  <2>1. ResetDecode  BY Zenon DEF Reset
  <2>2. mem_rdata_q \in Insn  BY DEF MemTypeOK
  <2>3. mem_rdata_q' \in Insn  BY <2>1, <2>2, FetchedType, Zenon DEF ResetDecode
  <2>4. ASSUME NEW d \in Insn PROVE [d EXCEPT !.op = "data"] \in Insn
    BY DEF Insn
  <2>5. dec1' \in Insn  BY <2>1, <2>4, Zenon DEF ResetDecode
  <2>6. dec2' \in Insn
    <3> DEFINE d == IF Stage2Enable THEN Stage2(mem_rdata_q) ELSE dec2
    <3>1. d \in Insn  BY <2>2, Stage2Type, Zenon
    <3>2. dec2' = IF d.op \in {"branch", "addi", "add"} THEN [d EXCEPT !.op = "data"] ELSE d
      BY <2>1, Zenon DEF ResetDecode
    <3> HIDE DEF d
    <3>3. QED  BY <3>1, <3>2, <2>4, Zenon
  <2>7. QED  BY <2>1, <2>3, <2>5, <2>6, Zenon DEF ResetDecode
<1>4. EveryTypeOK'
  <2>1. MemTypeOK'
    BY <1>1, <1>3, Zeros, Zenon DEF MemTypeOK, TInv, TypeOK
  <2>2. pcpi_timeout_counter' \in 0..MaxTimeout  BY <1>1, Zeros
  <2>3. QED  BY <1>1, <1>3, <2>1, <2>2, AluType, Zenon DEF EveryTypeOK, TInv, TypeOK
<1>5. ReqTypeOK'  BY <1>1, Zenon DEF ReqTypeOK
<1>6. CpuTypeOK'
  BY <1>1, <1>2, ShZero, OldValues, AddrAssumption DEF CpuTypeOK, CpuStates
<1>7. LatTypeOK'
  <2>1. latched_rd' \in RdType
    BY <1>1, OldValues, RdConstants DEF RdKinds
  <2>2. ("HAS_STACKADDR" \in config.on) \in BOOLEAN  BY SMT
  <2>3. latched_store' \in BOOLEAN
    <3>1. latched_store' = HAS_STACKADDR  BY <1>1
    <3>2. QED  BY <2>2, <3>1 DEF HAS_STACKADDR
  <2>4. QED  BY <1>1, <2>1, <2>3, Zenon DEF LatTypeOK, RdType
<1>8. OwnTypeOK'  BY <1>1, NoWaitType, OldValues, Zenon DEF OwnTypeOK
<1>9. IrqTypeOK'
  <2>1. irq_pending' \subseteq Irqs
    <3>1. TimerIrq \subseteq Irqs  BY BoundsAssumption, SMT DEF TimerIrq
    <3>2. PICK lines \in SUBSET ExtIrqs :
            irq_pending' = IF ENABLE_IRQ THEN (lines \cup TimerIrq) \ MASKED_IRQ ELSE {}
      BY Zenon DEF Reset
    <3>3. QED  BY <3>1, <3>2, BoundsAssumption, SMT
  <2>2. QED  BY <1>1, <2>1, Zeros, Zenon DEF IrqTypeOK
<1>10. PcInv'  BY <1>1, <1>2 DEF PcInv
<1>11. QED
  BY <1>1, <1>4, <1>5, <1>6, <1>7, <1>8, <1>9, <1>10, Assemble DEF TInv

LEMMA InitType ==
  ASSUME Init
  PROVE  TInv
<1>1. Word(X) \in Words  BY WordType
<1>2. Blank \in Insn  BY <1>1, SMT DEF Blank, Insn
<1>3. latched_store \in BOOLEAN
  <2>1. ("HAS_STACKADDR" \in config.on) \in BOOLEAN  BY SMT
  <2>2. latched_store = HAS_STACKADDR  BY Zenon DEF Init
  <2>3. QED  BY <2>1, <2>2 DEF HAS_STACKADDR
<1>4. latched_rd \in RdType
  <2>1. (IF HAS_STACKADDR THEN "sp" ELSE "x0") \in RdKinds  BY SMT DEF RdKinds
  <2>2. QED  BY <2>1, RdConstants, Zenon DEF Init
<1>5. MemTypeOK  BY <1>1, <1>2, Zeros, Zenon DEF Init, MemTypeOK
<1>6. ReqTypeOK /\ DecTypeOK  BY <1>2, Zenon DEF Init, ReqTypeOK, DecTypeOK
<1>7. CpuTypeOK  BY AddrAssumption, ShZero DEF Init, CpuTypeOK, CpuStates
<1>8. LatTypeOK  BY <1>3, <1>4, Zenon DEF Init, LatTypeOK, RdType
<1>9. AluTypeOK  BY Zenon DEF Init, AluTypeOK
<1>10. IrqTypeOK /\ PcpiTypeOK  BY Zeros, Zenon DEF Init, IrqTypeOK, PcpiTypeOK
<1>11. PcInv  BY DEF Init, PcInv
<1>12. config \in Configs  BY Zenon DEF Init
<1>13. QED
  BY <1>5, <1>6, <1>7, <1>8, <1>9, <1>10, <1>11, <1>12 DEF TInv, TypeOK

LEMMA StutterType ==
  ASSUME TInv, UNCHANGED vars
  PROVE  TInv'
<1>1. /\ UNCHANGED memVars /\ UNCHANGED reqVars /\ UNCHANGED decVars /\ UNCHANGED cpuVars
      /\ UNCHANGED latVars /\ UNCHANGED aluVars /\ UNCHANGED irqVars /\ UNCHANGED pcpiVars
      /\ config' = config
  BY Zenon DEF vars
<1>2. MemTypeOK'
  <2>1. UNCHANGED <<mem_state, mem_valid, mem_instr, mem_addr, mem_wstrb, mem_rdata_q, mem_ready>>
    BY <1>1, Zenon DEF memVars
  <2>2. MemTypeOK  BY Zenon DEF TInv, TypeOK
  <2>3. QED  BY <2>1, <2>2, Zenon DEF MemTypeOK
<1>3. ReqTypeOK'
  <2>1. UNCHANGED <<mem_do_prefetch, mem_do_rinst, mem_do_rdata, mem_do_wdata>>
    BY <1>1, Zenon DEF reqVars
  <2>2. ReqTypeOK  BY Zenon DEF TInv, TypeOK
  <2>3. QED  BY <2>1, <2>2, Zenon DEF ReqTypeOK
<1>4. LatTypeOK'
  <2>1. UNCHANGED <<latched_store, latched_stalu, latched_branch, latched_rd>>
    BY <1>1, Zenon DEF latVars
  <2>2. LatTypeOK  BY Zenon DEF TInv, TypeOK
  <2>3. QED  BY <2>1, <2>2, Zenon DEF LatTypeOK
<1>5. PcpiTypeOK'
  <2>1. UNCHANGED <<pcpi_valid, pcpi_timeout, pcpi_timeout_counter>>
    BY <1>1, Zenon DEF pcpiVars
  <2>2. PcpiTypeOK  BY Zenon DEF TInv, TypeOK
  <2>3. QED  BY <2>1, <2>2, Zenon DEF PcpiTypeOK
<1>6. DecTypeOK'
  <2>1. DecTypeOK  BY Zenon DEF TInv, TypeOK
  <2>2. QED  BY <1>1, <2>1, Zenon DEF DecTypeOK, decVars
<1>7. CpuTypeOK'
  <2>1. CpuTypeOK  BY Zenon DEF TInv, TypeOK
  <2>2. QED  BY <1>1, <2>1, Zenon DEF CpuTypeOK, cpuVars
<1>8. AluTypeOK'
  <2>1. AluTypeOK  BY Zenon DEF TInv, TypeOK
  <2>2. QED  BY <1>1, <2>1, Zenon DEF AluTypeOK, aluVars
<1>9. IrqTypeOK'
  <2>1. IrqTypeOK  BY Zenon DEF TInv, TypeOK
  <2>2. QED  BY <1>1, <2>1, Zenon DEF IrqTypeOK, irqVars
<1>10. PcInv'
  <2>1. UNCHANGED <<cpu_state, reg_out, alu_out_q>>  BY <1>1, Zenon DEF cpuVars, aluVars
  <2>2. UNCHANGED <<latched_store, latched_stalu, latched_branch, latched_rd>>
    BY <1>1, Zenon DEF latVars
  <2>3. PcInv  BY Zenon DEF TInv
  <2>4. QED  BY <2>1, <2>2, <2>3, Zenon DEF PcInv
<1>11. config \in Configs  BY Zenon DEF TInv, TypeOK
<1>12. QED
  BY <1>1, <1>2, <1>3, <1>4, <1>5, <1>6, <1>7, <1>8, <1>9, <1>10, <1>11 DEF TInv, TypeOK

LEMMA StepType ==
  ASSUME TInv, Step
  PROVE  TInv'
BY FetchIrqType, FetchWaitirqType, FetchJalType, FetchLaunchType, FetchWaitType,
   LdRs1PcpiType, LdRs1IllegalType, LdRs1ReadType, LdRs1RetirqType, LdRs1MaskirqType,
   LdRs1TimerType, LdRs1LoadType, LdRs1ShiftType, LdRs1ImmType, LdRs1DefaultType,
   LdRs2PcpiType, LdRs2DispatchType, ExecWaitType, ExecBranchType, ExecAluType,
   ShiftType, DataType, TrappedType DEF Step

\* Every register keeps its type for every configuration and program; the
\* program counter never takes a value that is no address.
THEOREM TypeCorrect == Spec => []TypeOK
<1>1. Init => TInv  BY InitType
<1>2. TInv /\ [Next]_vars => TInv'
  BY StepType, ResetType, StutterType DEF Next
<1>3. TInv => TypeOK  BY DEF TInv
<1>4. QED  BY <1>1, <1>2, <1>3, PTL DEF Spec

-------------------------------------------------------------------------------
(* The inductive invariant of the memory interface *)

\* Nothing is requested and the interface is idle.
Silent ==
  ~mem_do_prefetch /\ ~mem_do_rinst /\ ~mem_do_rdata /\ ~mem_do_wdata /\ mem_state = 0

\* The trap output follows the trap state.
TrapInv == trap => cpu_state = "trap"

\* Which requests can be up in which state of the main state machine.
DataInv == /\ mem_do_rdata => cpu_state \in {"ldmem", "trap"}
           /\ mem_do_wdata => cpu_state \in {"stmem", "trap"}
FetchInv == cpu_state = "fetch" /\ (decoder_trigger \/ do_waitirq) => Silent
OperandInv ==
  /\ cpu_state \in {"ld_rs1", "ld_rs2", "shift"} => ~mem_do_rinst
  /\ cpu_state \in {"ld_rs1", "ld_rs2"} => (mem_do_prefetch <=> Prefetches)
  /\ cpu_state = "exec" /\ (alu_wait \/ alu_wait_2) => ~mem_do_rinst
  /\ cpu_state \in {"stmem", "ldmem"} => (mem_do_rinst <=> mem_do_prefetch)
CpuInv == TrapInv /\ DataInv /\ FetchInv /\ OperandInv

\* The interface and the requests agree.
ValidInv == ~trap /\ mem_state \in {0, 3} => ~mem_valid
BusInv == ValidInv /\ RequestExclusive /\ InterfaceState

IInv == CpuInv /\ BusInv

\* What the main state machine may do to its requests: only a finished
\* transfer withdraws them, and they stay exclusive.
Kept ==
  /\ mem_do_prefetch' => ~mem_done
  /\ ~mem_done => /\ mem_do_prefetch => mem_do_prefetch'
                  /\ mem_do_rinst => mem_do_rinst'
                  /\ mem_do_rdata => mem_do_rdata'
                  /\ mem_do_wdata => mem_do_wdata'
Exclusive == /\ mem_do_wdata => ~mem_do_prefetch /\ ~mem_do_rinst /\ ~mem_do_rdata
             /\ mem_do_rdata => ~mem_do_prefetch /\ ~mem_do_rinst

-------------------------------------------------------------------------------
(* The memory interface *)

LEMMA MemDone ==
  ASSUME BusInv, ~trap, Memory
  PROVE  /\ mem_done => mem_state' = 0
         /\ Silent => ~mem_done /\ mem_state' = 0
<1> USE DEF BusInv, ValidInv, RequestExclusive, InterfaceState, Silent
<1>1. CASE MemIdle
  BY <1>1, SMT DEF MemIdle, mem_done
<1>2. CASE MemRead
  BY <1>2, SMT DEF MemRead, AfterRead, mem_done
<1>3. CASE MemWrite
  BY <1>3, SMT DEF MemWrite, mem_done
<1>4. CASE MemHold
  BY <1>4, SMT DEF MemHold, mem_done, mem_xfer
<1>5. QED  BY <1>1, <1>2, <1>3, <1>4 DEF Memory, MemTrapped

LEMMA BusStep ==
  ASSUME BusInv, ~trap, Memory, Kept, Exclusive'
  PROVE  BusInv'
<1> USE DEF BusInv, ValidInv, RequestExclusive, InterfaceState, Kept, Exclusive
<1>1. CASE MemIdle
  <2>1. /\ mem_valid' <=> \/ mem_valid \/ mem_do_prefetch \/ mem_do_rinst \/ mem_do_rdata
                          \/ mem_do_wdata
        /\ mem_instr' <=> /\ ~mem_do_wdata
                          /\ mem_do_prefetch \/ mem_do_rinst \/ (mem_instr /\ ~mem_do_rdata)
        /\ mem_wstrb' <=> mem_la_write \/ (mem_wstrb /\ ~mem_la_read)
    BY <1>1, Zenon DEF MemIdle, AddressPhase
  <2>2. /\ mem_state = 0
        /\ mem_state' = IF mem_do_wdata THEN 2
                        ELSE IF mem_do_prefetch \/ mem_do_rinst \/ mem_do_rdata THEN 1 ELSE 0
    BY <1>1, Zenon DEF MemIdle
  <2>3. ~mem_done  BY <2>2, SMT DEF mem_done
  <2>4. QED  BY <2>1, <2>2, <2>3, SMT DEF mem_la_read, mem_la_write
<1>2. CASE MemRead
  <2>1. mem_valid' <=> mem_valid /\ ~mem_xfer  BY <1>2, Zenon DEF MemRead
  <2>2. QED  BY <1>2, <2>1, SMT DEF MemRead, AfterRead, mem_done
<1>3. CASE MemWrite
  <2>1. mem_valid' <=> mem_valid /\ ~mem_xfer  BY <1>3, Zenon DEF MemWrite
  <2>2. QED  BY <1>3, <2>1, SMT DEF MemWrite, mem_done
<1>4. CASE MemHold
  BY <1>4, SMT DEF MemHold, mem_done, mem_xfer
<1>5. QED  BY <1>1, <1>2, <1>3, <1>4 DEF Memory, MemTrapped

-------------------------------------------------------------------------------
(* The main state machine: what each state does to the requests *)

\* Every clock edge moves the memory interface, and keeps the instruction
\* unless a new one arrives.
LEMMA EveryStep ==
  ASSUME Every
  PROVE  Memory /\ (~(mem_do_rinst /\ mem_done) => dec1' = dec1)
BY Zenon DEF Every, Decode

\* A step from an operand state leads to one of these.
Operand ==
  \/ cpu_state' \in {"trap", "fetch"}
  \/ cpu_state' \in {"ld_rs1", "ld_rs2"} /\ cpu_state # "shift" /\ ~mem_do_rinst'
  \/ cpu_state' = "shift" /\ ~mem_do_rinst'
  \/ cpu_state' = "exec" /\ (alu_wait' \/ alu_wait_2' => ~mem_do_rinst')
  \/ cpu_state' \in {"ldmem", "stmem"} /\ mem_do_rinst' /\ mem_do_prefetch'

Operands == {"ld_rs1", "ld_rs2", "shift"}

\* In an operand state no transfer can finish.
LEMMA OperandQuiet ==
  ASSUME IInv, cpu_state \in Operands
  PROVE  ~mem_done /\ ~mem_do_rinst /\ ~mem_do_rdata /\ ~mem_do_wdata /\ ~trap
BY SMT DEF IInv, CpuInv, TrapInv, DataInv, OperandInv, Operands, mem_done

LEMMA OperandStep ==
  ASSUME IInv, cpu_state \in Operands, NotFetch, Trigger, Operand,
         mem_do_prefetch' <=> mem_do_prefetch, ~mem_do_rdata', ~mem_do_wdata'
  PROVE  CpuInv' /\ Kept /\ Exclusive'
<1>1. ~mem_done /\ ~mem_do_rinst /\ ~mem_do_rdata /\ ~mem_do_wdata
  BY OperandQuiet
<1>2. trap' = FALSE /\ do_waitirq' = FALSE /\ Every
  BY DEF NotFetch
<1>3. dec1' = dec1
  BY <1>1, <1>2, EveryStep
<1>4. decoder_trigger' = FALSE
  BY <1>1, Zenon DEF Trigger
<1>5. Kept /\ Exclusive'
  BY <1>1, Zenon DEF Kept, Exclusive
<1>6. TrapInv' /\ DataInv' /\ FetchInv'
  BY <1>2, <1>4, Zenon DEF TrapInv, DataInv, FetchInv
<1>7. OperandInv'
  BY <1>3, SMT DEF Operand, Operands, OperandInv, Prefetches, IInv, CpuInv
<1>8. QED  BY <1>5, <1>6, <1>7 DEF CpuInv

\* The requests of a step in an operand state.
LEMMA OperandRequest ==
  ASSUME IInv, cpu_state \in Operands, NEW r, Request(mem_do_prefetch, r, "none")
  PROVE  /\ mem_do_prefetch' <=> mem_do_prefetch
         /\ mem_do_rinst' <=> r
         /\ ~mem_do_rdata' /\ ~mem_do_wdata'
<1>1. ~mem_done /\ ~mem_do_rinst /\ ~mem_do_rdata /\ ~mem_do_wdata
  BY OperandQuiet
<1>2. QED  BY <1>1, Zenon DEF Request

LEMMA OperandKeep ==
  ASSUME IInv, cpu_state \in Operands, KeepRequest
  PROVE  /\ mem_do_prefetch' <=> mem_do_prefetch
         /\ ~mem_do_rinst' /\ ~mem_do_rdata' /\ ~mem_do_wdata'
<1>1. ~mem_done /\ ~mem_do_rinst /\ ~mem_do_rdata /\ ~mem_do_wdata
  BY OperandQuiet
<1>2. QED  BY <1>1, Zenon DEF KeepRequest, Request

LEMMA GotoStep ==
  ASSUME NEW s, Goto(s)
  PROVE  cpu_state' \in {s, "trap"}
BY Zenon DEF Goto

LEMMA LdRs1ReadStep ==
  ASSUME IInv, LdRs1Read \/ LdRs1Retirq \/ LdRs1Maskirq \/ LdRs1Timer
  PROVE  CpuInv' /\ Kept /\ Exclusive'
<1>1. cpu_state = "ld_rs1" /\ NotFetch /\ Trigger /\ KeepRequest /\ Goto("fetch")
  BY Zenon DEF LdRs1Read, LdRs1Retirq, LdRs1Maskirq, LdRs1Timer, InLdRs1
<1>2. Operand  BY <1>1, GotoStep DEF Operand
<1>3. QED  BY <1>1, <1>2, OperandKeep, OperandStep DEF Operands

LEMMA LdRs1IllegalStep ==
  ASSUME IInv, LdRs1Illegal
  PROVE  CpuInv' /\ Kept /\ Exclusive'
<1>1. cpu_state = "ld_rs1" /\ NotFetch /\ Trigger /\ KeepRequest
  BY Zenon DEF LdRs1Illegal, InLdRs1
<1>2. Goto("fetch") \/ Goto("trap")
  BY Zenon DEF LdRs1Illegal, Illegal
<1>3. Operand  BY <1>2, GotoStep DEF Operand
<1>4. QED  BY <1>1, <1>3, OperandKeep, OperandStep DEF Operands

LEMMA LdRs1ShiftStep ==
  ASSUME IInv, LdRs1Shift
  PROVE  CpuInv' /\ Kept /\ Exclusive'
<1>1. cpu_state = "ld_rs1" /\ NotFetch /\ Trigger /\ KeepRequest /\ Goto("shift")
  BY Zenon DEF LdRs1Shift, InLdRs1
<1>2. ~mem_do_rinst'  BY <1>1, OperandKeep DEF Operands
<1>3. Operand  BY <1>1, <1>2, GotoStep DEF Operand
<1>4. QED  BY <1>1, <1>3, OperandKeep, OperandStep DEF Operands

LEMMA LdRs1LoadStep ==
  ASSUME IInv, LdRs1Load
  PROVE  CpuInv' /\ Kept /\ Exclusive'
<1>1. cpu_state = "ld_rs1" /\ NotFetch /\ Trigger /\ Goto("ldmem")
        /\ Request(mem_do_prefetch, TRUE, "none")
  BY Zenon DEF LdRs1Load, InLdRs1
<1>2. is_load
  <2>1. "load" \in LdRs1Arms  BY SMT DEF LdRs1Load, InLdRs1
  <2>2. QED  BY <2>1, SMT DEF LdRs1Arms, LoadArm
<1>3. mem_do_prefetch  BY <1>1, <1>2, SMT DEF IInv, CpuInv, OperandInv, Prefetches, is_load
<1>4. /\ mem_do_prefetch' <=> mem_do_prefetch
      /\ mem_do_rinst' /\ ~mem_do_rdata' /\ ~mem_do_wdata'
  BY <1>1, OperandRequest DEF Operands
<1>5. Operand  BY <1>1, <1>3, <1>4, GotoStep DEF Operand
<1>6. QED  BY <1>1, <1>4, <1>5, OperandStep DEF Operands

LEMMA LdRs1ImmStep ==
  ASSUME IInv, LdRs1Imm
  PROVE  CpuInv' /\ Kept /\ Exclusive'
<1> DEFINE r == IF TWO_CYCLE_ALU THEN mem_do_rinst ELSE mem_do_prefetch
<1>1. /\ cpu_state = "ld_rs1" /\ NotFetch /\ Trigger /\ Goto("exec")
      /\ Request(mem_do_prefetch, r, "none")
      /\ alu_wait' = TWO_CYCLE_ALU /\ alu_wait_2' = FALSE
  BY Zenon DEF LdRs1Imm, InLdRs1
<1>2. /\ mem_do_prefetch' <=> mem_do_prefetch
      /\ ~mem_do_rdata' /\ ~mem_do_wdata'
      /\ TWO_CYCLE_ALU => ~mem_do_rinst'
  BY <1>1, OperandRequest, OperandQuiet DEF Operands
<1>3. Operand  BY <1>1, <1>2, GotoStep DEF Operand
<1>4. QED  BY <1>1, <1>2, <1>3, OperandStep DEF Operands

\* With both operands an instruction goes on to a store, the shifter or the ALU.
LEMMA WithRs2Step ==
  ASSUME IInv, cpu_state \in {"ld_rs1", "ld_rs2"}, WithRs2(LdRs2Arms)
  PROVE  /\ Operand
         /\ mem_do_prefetch' <=> mem_do_prefetch
         /\ ~mem_do_rdata' /\ ~mem_do_wdata'
<1> DEFINE slow == TWO_CYCLE_ALU \/ (TWO_CYCLE_COMPARE /\ is_branch)
<1>1. CASE "store" \in LdRs2Arms /\ Request(mem_do_prefetch, TRUE, "none") /\ Goto("stmem")
  <2>1. is_store  BY <1>1, SMT DEF LdRs2Arms
  <2>2. mem_do_prefetch  BY <2>1, SMT DEF IInv, CpuInv, OperandInv, Prefetches, is_store
  <2>3. QED  BY <1>1, <2>2, OperandRequest, GotoStep DEF Operand, Operands
<1>2. CASE KeepRequest /\ Goto("shift")
  BY <1>2, OperandKeep, GotoStep DEF Operand, Operands
<1>3. CASE /\ alu_wait' = slow /\ alu_wait_2' = SecondWait
           /\ Request(mem_do_prefetch, IF slow THEN mem_do_rinst ELSE mem_do_prefetch, "none")
           /\ Goto("exec")
  <2>1. /\ mem_do_prefetch' <=> mem_do_prefetch
        /\ ~mem_do_rdata' /\ ~mem_do_wdata'
        /\ slow => ~mem_do_rinst'
    BY <1>3, OperandRequest, OperandQuiet DEF Operands
  <2>2. alu_wait' \/ alu_wait_2' => slow
    BY <1>3, Zenon DEF SecondWait
  <2>3. QED  BY <1>3, <2>1, <2>2, GotoStep DEF Operand
<1>4. QED  BY <1>1, <1>2, <1>3, Zenon DEF WithRs2

LEMMA LdRs1DefaultStep ==
  ASSUME IInv, LdRs1Default
  PROVE  CpuInv' /\ Kept /\ Exclusive'
<1>1. cpu_state = "ld_rs1" /\ NotFetch /\ Trigger
  BY Zenon DEF LdRs1Default, InLdRs1
<1>2. CASE WithRs2(LdRs2Arms)
  BY <1>1, <1>2, WithRs2Step, OperandStep DEF Operands
<1>3. CASE KeepRequest /\ Goto("ld_rs2")
  <2>1. Operand  BY <1>1, <1>3, OperandKeep, GotoStep DEF Operand, Operands
  <2>2. QED  BY <1>1, <1>3, <2>1, OperandKeep, OperandStep DEF Operands
<1>4. QED  BY <1>2, <1>3, Zenon DEF LdRs1Default

LEMMA LdRs2DispatchStep ==
  ASSUME IInv, LdRs2Dispatch
  PROVE  CpuInv' /\ Kept /\ Exclusive'
<1>1. cpu_state = "ld_rs2" /\ NotFetch /\ Trigger /\ WithRs2(LdRs2Arms)
  BY Zenon DEF LdRs2Dispatch, InLdRs2
<1>2. QED  BY <1>1, WithRs2Step, OperandStep DEF Operands

\* A co-processor instruction is answered, given up, or waits where it is.
LEMMA PcpiStep ==
  ASSUME IInv, NEW again \in {"ld_rs1", "ld_rs2"}, cpu_state = again, Pcpi(again)
  PROVE  /\ Operand
         /\ mem_do_prefetch' <=> mem_do_prefetch
         /\ ~mem_do_rdata' /\ ~mem_do_wdata'
<1>1. CASE Request(mem_do_prefetch, TRUE, "none") /\ Goto("fetch")
  BY <1>1, OperandRequest, GotoStep DEF Operand, Operands
<1>2. CASE KeepRequest /\ (Goto("fetch") \/ Goto("trap"))
  BY <1>2, OperandKeep, GotoStep DEF Operand, Operands
<1>3. CASE KeepRequest /\ Goto(again)
  BY <1>3, OperandKeep, GotoStep DEF Operand, Operands
<1>4. QED  BY <1>1, <1>2, <1>3, Zenon DEF Pcpi, Illegal

LEMMA LdRs1PcpiStep ==
  ASSUME IInv, LdRs1Pcpi
  PROVE  CpuInv' /\ Kept /\ Exclusive'
<1>1. cpu_state = "ld_rs1" /\ NotFetch /\ Trigger
  BY Zenon DEF LdRs1Pcpi, InLdRs1
<1>2. CASE Pcpi("ld_rs1")
  BY <1>1, <1>2, PcpiStep, OperandStep DEF Operands
<1>3. CASE KeepRequest /\ Goto("ld_rs2")
  <2>1. Operand  BY <1>1, <1>3, OperandKeep, GotoStep DEF Operand, Operands
  <2>2. QED  BY <1>1, <1>3, <2>1, OperandKeep, OperandStep DEF Operands
<1>4. QED  BY <1>2, <1>3, Zenon DEF LdRs1Pcpi

LEMMA LdRs2PcpiStep ==
  ASSUME IInv, LdRs2Pcpi
  PROVE  CpuInv' /\ Kept /\ Exclusive'
<1>1. cpu_state = "ld_rs2" /\ NotFetch /\ Trigger /\ Pcpi("ld_rs2")
  BY Zenon DEF LdRs2Pcpi, InLdRs2
<1>2. QED  BY <1>1, PcpiStep, OperandStep DEF Operands

LEMMA ShiftStep ==
  ASSUME IInv, Shift
  PROVE  CpuInv' /\ Kept /\ Exclusive'
<1>1. cpu_state = "shift" /\ NotFetch /\ Trigger
  BY Zenon DEF Shift
<1>2. CASE Request(mem_do_prefetch, mem_do_prefetch, "none") /\ Goto("fetch")
  <2>1. Operand  BY <1>2, GotoStep DEF Operand
  <2>2. QED  BY <1>1, <1>2, <2>1, OperandRequest, OperandStep DEF Operands
<1>3. CASE KeepRequest /\ Goto("shift")
  <2>1. Operand  BY <1>1, <1>3, OperandKeep, GotoStep DEF Operand, Operands
  <2>2. QED  BY <1>1, <1>3, <2>1, OperandKeep, OperandStep DEF Operands
<1>4. QED  BY <1>2, <1>3, Zenon DEF Shift

\* In cpu_state_exec only instructions are requested, and a finished transfer
\* leaves the interface idle.
LEMMA ExecStep ==
  ASSUME IInv, cpu_state = "exec", ExecWait \/ ExecBranch \/ ExecAlu
  PROVE  CpuInv' /\ Kept /\ Exclusive'
<1>1. ~trap /\ ~mem_do_rdata /\ ~mem_do_wdata
  BY SMT DEF IInv, CpuInv, TrapInv, DataInv
<1>2. NotFetch /\ Memory /\ trap' = FALSE /\ do_waitirq' = FALSE
  BY EveryStep, Zenon DEF ExecWait, ExecBranch, ExecAlu, InExec, NotFetch
<1>3. mem_done => mem_state' = 0
  BY <1>1, <1>2, MemDone DEF IInv
<1>4. CASE ExecWait
  <2>1. /\ mem_do_prefetch' <=> mem_do_prefetch /\ ~mem_done
        /\ mem_do_rinst' <=> mem_do_prefetch /\ ~alu_wait_2 /\ ~mem_done
        /\ ~mem_do_rdata' /\ ~mem_do_wdata'
        /\ alu_wait' = alu_wait_2 /\ alu_wait_2' = FALSE /\ Goto("exec")
    BY <1>1, <1>4, Zenon DEF ExecWait, Request
  <2>2. ~mem_do_rinst
    BY <1>4, SMT DEF ExecWait, Waiting, IInv, CpuInv, OperandInv
  <2>3. Kept /\ Exclusive'
    BY <1>1, <2>1, <2>2, Zenon DEF Kept, Exclusive
  <2>4. CpuInv'
    BY <1>2, <2>1, GotoStep, SMT DEF CpuInv, TrapInv, DataInv, FetchInv, OperandInv
  <2>5. QED  BY <2>3, <2>4
<1>5. CASE ExecBranch
  <2>1. /\ mem_do_prefetch' <=> mem_do_prefetch /\ ~mem_done
        /\ mem_do_rinst' <=> (mem_do_rinst /\ ~mem_done) \/ BranchTaken
        /\ ~mem_do_rdata' /\ ~mem_do_wdata'
    BY <1>1, <1>5, Zenon DEF ExecBranch, Request
  <2>2. /\ decoder_trigger' <=> mem_do_rinst /\ mem_done /\ ~BranchTaken
        /\ alu_wait' = FALSE /\ alu_wait_2' = FALSE
        /\ cpu_state' \in {"exec", "fetch", "trap"}
    BY <1>5, GotoStep, Zenon DEF ExecBranch, BranchTrigger, NoWait
  <2>3. Kept /\ Exclusive'
    BY <1>1, <2>1, Zenon DEF Kept, Exclusive
  <2>4. CpuInv'
    BY <1>2, <1>3, <2>1, <2>2, SMT DEF CpuInv, TrapInv, DataInv, FetchInv, OperandInv, Silent
  <2>5. QED  BY <2>3, <2>4
<1>6. CASE ExecAlu
  <2>1. /\ mem_do_prefetch' <=> mem_do_prefetch /\ ~mem_done
        /\ mem_do_rinst' <=> mem_do_rinst /\ ~mem_done
        /\ ~mem_do_rdata' /\ ~mem_do_wdata'
        /\ decoder_trigger' <=> mem_do_rinst /\ mem_done
        /\ cpu_state' \in {"fetch", "trap"}
    BY <1>1, <1>6, GotoStep, Zenon DEF ExecAlu, KeepRequest, Request, Trigger
  <2>2. Kept /\ Exclusive'
    BY <1>1, <2>1, Zenon DEF Kept, Exclusive
  <2>3. CpuInv'
    BY <1>2, <1>3, <2>1, SMT DEF CpuInv, TrapInv, DataInv, FetchInv, OperandInv, Silent
  <2>4. QED  BY <2>2, <2>3
<1>7. QED  BY <1>4, <1>5, <1>6

\* A load or a store: s is its state, kind the name of its request.
LEMMA DataStep ==
  ASSUME IInv, StMem \/ LdMem
  PROVE  CpuInv' /\ Kept /\ Exclusive'
<1> DEFINE both == mem_do_prefetch /\ ~mem_done
<1>1. PICK s \in {"stmem", "ldmem"} :
        LET requested == IF s = "stmem" THEN mem_do_wdata ELSE mem_do_rdata
            set == IF s = "stmem" THEN "wdata" ELSE "rdata"
        IN  \/ MemWaitFetch(s) \/ MemRequest(s, requested, set)
            \/ MemWaitData(s, requested) \/ MemFinish(s, requested, set)
  BY Zenon DEF StMem, LdMem
<1> DEFINE requested == IF s = "stmem" THEN mem_do_wdata ELSE mem_do_rdata
           set == IF s = "stmem" THEN "wdata" ELSE "rdata"
<1>2. cpu_state = s /\ NotFetch
  BY <1>1, Zenon DEF MemWaitFetch, MemRequest, MemWaitData, MemFinish, InMem
<1>3. Memory /\ trap' = FALSE /\ do_waitirq' = FALSE /\ ~trap
  BY <1>2, EveryStep, SMT DEF NotFetch, IInv, CpuInv, TrapInv
<1>4. mem_done => mem_state' = 0
  BY <1>3, MemDone DEF IInv
<1>5. /\ mem_do_rinst <=> mem_do_prefetch
      /\ s = "stmem" => ~mem_do_rdata
      /\ s = "ldmem" => ~mem_do_wdata
  BY <1>2, SMT DEF IInv, CpuInv, DataInv, OperandInv
<1>6. CASE MemWaitFetch(s) \/ MemWaitData(s, requested)
  <2>1. /\ mem_do_prefetch' <=> mem_do_prefetch /\ ~mem_done
        /\ mem_do_rinst' <=> mem_do_rinst /\ ~mem_done
        /\ mem_do_rdata' <=> mem_do_rdata /\ ~mem_done
        /\ mem_do_wdata' <=> mem_do_wdata /\ ~mem_done
        /\ cpu_state' \in {s, "trap"}
    BY <1>6, GotoStep, Zenon DEF MemWaitFetch, MemWaitData, KeepRequest, Request
  <2>2. Kept /\ Exclusive'
    BY <1>3, <2>1, Zenon DEF Kept, Exclusive, IInv, BusInv, RequestExclusive
  <2>3. CpuInv'
    BY <1>3, <1>5, <2>1, SMT DEF CpuInv, TrapInv, DataInv, FetchInv, OperandInv
  <2>4. QED  BY <2>2, <2>3
<1>7. CASE MemRequest(s, requested, set)
  <2>1. /\ mem_do_prefetch' <=> mem_do_prefetch /\ ~mem_done
        /\ mem_do_rinst' <=> mem_do_rinst /\ ~mem_done
        /\ mem_do_rdata' <=> (mem_do_rdata /\ ~mem_done) \/ set = "rdata"
        /\ mem_do_wdata' <=> (mem_do_wdata /\ ~mem_done) \/ set = "wdata"
        /\ cpu_state' \in {s, "trap"}
        /\ ~mem_do_prefetch \/ mem_done
        /\ ~requested
    BY <1>7, GotoStep, Zenon DEF MemRequest, Request, PrefetchOver
  <2>2. Kept /\ Exclusive'
    BY <1>5, <2>1, SMT DEF Kept, Exclusive
  <2>3. CpuInv'
    BY <1>3, <1>5, <2>1, SMT DEF CpuInv, TrapInv, DataInv, FetchInv, OperandInv
  <2>4. QED  BY <2>2, <2>3
<1>8. CASE MemFinish(s, requested, set)
  <2>1. ~mem_do_prefetch /\ mem_done /\ cpu_state' \in {"fetch", "trap"}
    BY <1>8, GotoStep, Zenon DEF MemFinish
  <2>2. requested
    BY <1>5, <2>1, <1>3, SMT DEF mem_done
  <2>3. ~mem_do_prefetch' /\ ~mem_do_rinst' /\ ~mem_do_rdata' /\ ~mem_do_wdata'
    BY <1>8, <1>5, <2>1, <2>2, Zenon DEF MemFinish, Request
  <2>4. Kept /\ Exclusive'
    BY <2>1, <2>3, Zenon DEF Kept, Exclusive
  <2>5. CpuInv'
    BY <1>3, <1>4, <2>1, <2>3, SMT DEF CpuInv, TrapInv, DataInv, FetchInv, OperandInv, Silent
  <2>6. QED  BY <2>4, <2>5
<1>9. QED  BY <1>1, <1>6, <1>7, <1>8

\* What every step of cpu_state_fetch has in common.
LEMMA FetchFacts ==
  ASSUME IInv, FetchCommon
  PROVE  /\ cpu_state = "fetch" /\ ~trap /\ ~mem_do_rdata /\ ~mem_do_wdata
         /\ trap' = FALSE /\ Memory
         /\ decoder_trigger' <=> mem_do_rinst /\ mem_done
         /\ ~(mem_do_rinst /\ mem_done) => dec1' = dec1
         /\ mem_done => mem_state' = 0
         /\ decoder_trigger \/ do_waitirq => Silent /\ ~mem_done /\ mem_state' = 0
<1>1. cpu_state = "fetch" /\ trap' = FALSE /\ Every
  BY Zenon DEF FetchCommon, InFetch
<1>2. ~trap /\ ~mem_do_rdata /\ ~mem_do_wdata
  BY <1>1, SMT DEF IInv, CpuInv, TrapInv, DataInv
<1>3. decoder_trigger' <=> mem_do_rinst /\ mem_done
  BY Zenon DEF FetchCommon, Trigger
<1>4. decoder_trigger \/ do_waitirq => Silent
  BY <1>1, SMT DEF IInv, CpuInv, FetchInv
<1>5. QED  BY <1>1, <1>2, <1>3, <1>4, EveryStep, MemDone DEF IInv

\* A step that stays in cpu_state_fetch.
LEMMA FetchStay ==
  ASSUME IInv, FetchCommon, NEW r \in BOOLEAN, Request(mem_do_prefetch, r, "none"),
         mem_do_rinst => r, Goto("fetch"),
         do_waitirq' => (decoder_trigger \/ do_waitirq) /\ ~r
  PROVE  CpuInv' /\ Kept /\ Exclusive'
<1>1. /\ mem_do_prefetch' <=> mem_do_prefetch /\ ~mem_done
      /\ mem_do_rinst' <=> r /\ ~mem_done
      /\ ~mem_do_rdata' /\ ~mem_do_wdata'
      /\ cpu_state' \in {"fetch", "trap"}
  BY FetchFacts, GotoStep, Zenon DEF Request
<1>2. Kept /\ Exclusive'
  BY <1>1, FetchFacts, Zenon DEF Kept, Exclusive
<1>3. CpuInv'
  BY <1>1, FetchFacts, SMT DEF CpuInv, TrapInv, DataInv, FetchInv, OperandInv, Silent
<1>4. QED  BY <1>2, <1>3

LEMMA FetchIrqStep ==
  ASSUME IInv, FetchIrq
  PROVE  CpuInv' /\ Kept /\ Exclusive'
<1> DEFINE r == (~decoder_trigger /\ ~do_waitirq) \/ (IrqArm /\ irq_state = 1)
<1>1. FetchCommon /\ Request(mem_do_prefetch, r, "none") /\ Goto("fetch") /\ do_waitirq' = FALSE
  BY Zenon DEF FetchIrq
<1>2. mem_do_rinst => r  BY <1>1, FetchFacts, Zenon DEF Silent
<1>3. QED  BY <1>1, <1>2, FetchStay

LEMMA FetchWaitirqStep ==
  ASSUME IInv, FetchWaitirq
  PROVE  CpuInv' /\ Kept /\ Exclusive'
<1> DEFINE r == (~decoder_trigger /\ ~do_waitirq) \/ irq_pending # {}
<1>1. /\ FetchCommon /\ Request(mem_do_prefetch, r, "none") /\ Goto("fetch")
      /\ decoder_trigger \/ do_waitirq
      /\ do_waitirq' = (irq_pending = {})
  BY Zenon DEF FetchWaitirq, WaitIrq
<1>2. mem_do_rinst => r  BY <1>1, FetchFacts, Zenon DEF Silent
<1>3. do_waitirq' => ~r  BY <1>1, Zenon
<1>4. QED  BY <1>1, <1>2, <1>3, FetchStay

LEMMA FetchJalStep ==
  ASSUME IInv, FetchJal
  PROVE  CpuInv' /\ Kept /\ Exclusive'
<1>1. FetchCommon /\ Request(mem_do_prefetch, TRUE, "none") /\ Goto("fetch") /\ do_waitirq' = FALSE
  BY Zenon DEF FetchJal
<1>2. QED  BY <1>1, FetchStay

LEMMA FetchWaitStep ==
  ASSUME IInv, FetchWait
  PROVE  CpuInv' /\ Kept /\ Exclusive'
<1>1. FetchCommon /\ Request(mem_do_prefetch, ~do_waitirq, "none") /\ Goto("fetch")
        /\ do_waitirq' = FALSE
  BY Zenon DEF FetchWait
<1>2. mem_do_rinst => ~do_waitirq  BY <1>1, FetchFacts, Zenon DEF Silent
<1>3. QED  BY <1>1, <1>2, FetchStay

\* An instruction is launched with the interface idle.
LEMMA FetchLaunchStep ==
  ASSUME IInv, FetchLaunch
  PROVE  CpuInv' /\ Kept /\ Exclusive'
<1>1. /\ FetchCommon /\ Request(Prefetches, FALSE, "none") /\ Goto("ld_rs1")
      /\ do_waitirq' = FALSE /\ decoder_trigger
  BY Zenon DEF FetchLaunch, Launch
<1>2. Silent /\ ~mem_done /\ dec1' = dec1
  BY <1>1, FetchFacts, Zenon DEF Silent
<1>3. /\ mem_do_prefetch' <=> Prefetches
      /\ ~mem_do_rinst' /\ ~mem_do_rdata' /\ ~mem_do_wdata'
      /\ cpu_state' \in {"ld_rs1", "trap"}
  BY <1>1, <1>2, FetchFacts, GotoStep, Zenon DEF Request
<1>4. Kept /\ Exclusive'
  BY <1>2, <1>3, Zenon DEF Kept, Exclusive, Silent
<1>5. CpuInv'
  BY <1>1, <1>2, <1>3, FetchFacts, SMT DEF CpuInv, TrapInv, DataInv, FetchInv, OperandInv, Prefetches
<1>6. QED  BY <1>4, <1>5

\* In cpu_state_trap the requests stay; once trap is up nothing is claimed.
LEMMA TrappedStep ==
  ASSUME IInv, Trapped
  PROVE  CpuInv' /\ BusInv'
<1>1. trap' = TRUE /\ cpu_state' = "trap"
  BY GotoStep, Zenon DEF Trapped
<1>2. QED
  BY <1>1, SMT DEF CpuInv, TrapInv, DataInv, FetchInv, OperandInv, BusInv, ValidInv, RequestExclusive, InterfaceState

-------------------------------------------------------------------------------
(* The theorems *)

LEMMA StepInv ==
  ASSUME IInv, Step
  PROVE  IInv'
<1>1. CASE Trapped  BY <1>1, TrappedStep DEF IInv
<1>2. CASE ~Trapped
  <2>1. CpuInv' /\ Kept /\ Exclusive'
    <3>1. CASE FetchIrq \/ FetchWaitirq \/ FetchJal \/ FetchLaunch \/ FetchWait
      BY <3>1, FetchIrqStep, FetchWaitirqStep, FetchJalStep, FetchLaunchStep, FetchWaitStep
    <3>2. CASE LdRs1Read \/ LdRs1Retirq \/ LdRs1Maskirq \/ LdRs1Timer
      BY <3>2, LdRs1ReadStep
    <3>3. CASE LdRs1Pcpi \/ LdRs1Illegal \/ LdRs1Load \/ LdRs1Shift \/ LdRs1Imm \/ LdRs1Default
      BY <3>3, LdRs1PcpiStep, LdRs1IllegalStep, LdRs1LoadStep, LdRs1ShiftStep, LdRs1ImmStep, LdRs1DefaultStep
    <3>4. CASE LdRs2Pcpi \/ LdRs2Dispatch \/ Shift
      BY <3>4, LdRs2PcpiStep, LdRs2DispatchStep, ShiftStep
    <3>5. CASE ExecWait \/ ExecBranch \/ ExecAlu
      <4>1. cpu_state = "exec"  BY <3>5, Zenon DEF ExecWait, ExecBranch, ExecAlu, InExec
      <4>2. QED  BY <3>5, <4>1, ExecStep
    <3>6. CASE StMem \/ LdMem  BY <3>6, DataStep
    <3>7. QED  BY <1>2, <3>1, <3>2, <3>3, <3>4, <3>5, <3>6 DEF Step
  <2>2. cpu_state # "trap" /\ Memory
    BY <1>2, EveryStep, Zenon DEF Step, FetchIrq, FetchWaitirq, FetchJal, FetchLaunch, FetchWait, FetchCommon, InFetch, LdRs1Read, LdRs1Retirq, LdRs1Maskirq, LdRs1Timer, LdRs1Pcpi, LdRs1Illegal, LdRs1Load, LdRs1Shift, LdRs1Imm, LdRs1Default, InLdRs1, LdRs2Pcpi, LdRs2Dispatch, InLdRs2, Shift, ExecWait, ExecBranch, ExecAlu, InExec, StMem, LdMem, MemWaitFetch, MemRequest, MemWaitData, MemFinish, InMem, NotFetch
  <2>3. ~trap  BY <2>2 DEF IInv, CpuInv, TrapInv
  <2>4. QED  BY <2>1, <2>2, <2>3, BusStep DEF IInv
<1>3. QED  BY <1>1, <1>2

LEMMA ResetInv ==
  ASSUME Reset
  PROVE  IInv'
<1>1. /\ mem_state' = 0 /\ mem_valid' = FALSE /\ trap' = FALSE
      /\ mem_do_prefetch' = FALSE /\ mem_do_rinst' = FALSE
      /\ mem_do_rdata' = FALSE /\ mem_do_wdata' = FALSE
      /\ cpu_state' \in {"fetch", "trap"}
  BY Zenon DEF Reset
<1>2. QED
  BY <1>1, SMT DEF IInv, CpuInv, TrapInv, DataInv, FetchInv, OperandInv, Silent, BusInv, ValidInv, RequestExclusive, InterfaceState

LEMMA InitInv ==
  ASSUME Init
  PROVE  IInv
BY SMT DEF Init, IInv, CpuInv, TrapInv, DataInv, FetchInv, OperandInv, Silent, BusInv, ValidInv, RequestExclusive, InterfaceState

LEMMA StutterInv ==
  ASSUME IInv, UNCHANGED vars
  PROVE  IInv'
<1>1. /\ UNCHANGED memVars /\ UNCHANGED reqVars /\ UNCHANGED decVars /\ UNCHANGED cpuVars
      /\ UNCHANGED aluVars /\ UNCHANGED irqVars
  BY Zenon DEF vars
<1>2. QED
  BY <1>1, SMT DEF memVars, reqVars, decVars, cpuVars, aluVars, irqVars, IInv, CpuInv, TrapInv, DataInv, FetchInv, OperandInv, Prefetches, Silent, BusInv, ValidInv, RequestExclusive, InterfaceState

\* The invariant the theorems below rest on holds in every reachable state,
\* for every configuration of the core and every program.
THEOREM Invariant == Spec => []IInv
<1>1. Init => IInv  BY InitInv
<1>2. IInv /\ [Next]_vars => IInv'
  BY StepInv, ResetInv, StutterInv DEF Next
<1>3. QED  BY <1>1, <1>2, PTL DEF Spec

\* The core never requests two kinds of transfer at once, and a data transfer
\* only when no fetch is outstanding (the assertions on mem_do_*).
THEOREM RequestsAreExclusive == Spec => []RequestExclusive
<1>1. IInv => RequestExclusive  BY DEF IInv, BusInv
<1>2. QED  BY <1>1, Invariant, PTL

\* The request behind every state of the memory interface outlives it (the
\* assertions in the states of the interface).
THEOREM InterfaceMatchesRequests == Spec => []InterfaceState
<1>1. IInv => InterfaceState  BY DEF IInv, BusInv
<1>2. QED  BY <1>1, Invariant, PTL

\* An unanswered transfer stays on the bus unchanged until reset, whatever the
\* core does, a trap included.
THEOREM TransfersAreStable == Spec => Stable
<1> DEFINE Kind == mem_valid /\ ~mem_ready /\ Step
                     => mem_valid' /\ UNCHANGED <<mem_addr, mem_instr, mem_wstrb>>
<1>1. IInv /\ [Next]_vars => [Kind]_vars
  <2> SUFFICES ASSUME IInv, mem_valid, ~mem_ready, Step
               PROVE  mem_valid' /\ UNCHANGED <<mem_addr, mem_instr, mem_wstrb>>
    OBVIOUS
  <2>1. Memory
    <3>1. Every
      BY Zenon DEF Step, FetchIrq, FetchWaitirq, FetchJal, FetchLaunch, FetchWait, FetchCommon, InFetch, LdRs1Read, LdRs1Retirq, LdRs1Maskirq, LdRs1Timer, LdRs1Pcpi, LdRs1Illegal, LdRs1Load, LdRs1Shift, LdRs1Imm, LdRs1Default, InLdRs1, LdRs2Pcpi, LdRs2Dispatch, InLdRs2, Shift, ExecWait, ExecBranch, ExecAlu, InExec, StMem, LdMem, MemWaitFetch, MemRequest, MemWaitData, MemFinish, InMem, NotFetch, Trapped
    <3>2. QED  BY <3>1, EveryStep
  <2>2. ~mem_xfer  BY DEF mem_xfer
  <2>3. CASE MemIdle  BY <2>3, SMT DEF MemIdle, IInv, BusInv, ValidInv
  <2>4. CASE MemRead  BY <2>2, <2>4, Zenon DEF MemRead
  <2>5. CASE MemWrite  BY <2>2, <2>5, Zenon DEF MemWrite
  <2>6. CASE MemHold  BY <2>6, Zenon DEF MemHold
  <2>7. CASE MemTrapped  BY <2>7, Zenon DEF MemTrapped
  <2>8. QED  BY <2>1, <2>3, <2>4, <2>5, <2>6, <2>7 DEF Memory
<1>2. QED  BY <1>1, Invariant, PTL DEF Spec, Stable

-------------------------------------------------------------------------------
(* The core as a bus master: silence after a trap *)

\* Once the trap output is up an idle interface stays idle: nothing is left
\* that the look-ahead port could announce.
TrapQuiet == trap /\ mem_state = 0 => Silent

MInv == IInv /\ TInv /\ TrapQuiet

\* The requests while the core is stopped are only withdrawn.
LEMMA TrappedRequests ==
  ASSUME Trapped
  PROVE  /\ Memory /\ cpu_state = "trap" /\ trap' = TRUE
         /\ mem_do_prefetch' <=> mem_do_prefetch /\ ~mem_done
         /\ mem_do_rinst' <=> mem_do_rinst /\ ~mem_done
         /\ mem_do_rdata' <=> mem_do_rdata /\ ~mem_done
         /\ mem_do_wdata' <=> mem_do_wdata /\ ~mem_done
BY EveryStep, Zenon DEF Trapped, KeepRequest, Request

\* The step that raises trap either starts the transfer still requested or
\* finishes the one outstanding.
LEMMA TrappedQuiet ==
  ASSUME MInv, Trapped
  PROVE  TrapQuiet'
<1> USE DEF MInv, IInv, BusInv, InterfaceState, RequestExclusive, ValidInv
<1>1. CASE trap
  <2>1. mem_state' = mem_state
    BY <1>1, TrappedRequests, Zenon DEF Memory, MemTrapped, MemIdle, MemRead, MemWrite, MemHold
  <2>2. QED  BY <1>1, <2>1, TrappedRequests, Zenon DEF TrapQuiet, Silent
<1>2. CASE ~trap /\ MemIdle
  <2>1. mem_state = 0
        /\ mem_state' = IF mem_do_wdata THEN 2
                        ELSE IF mem_do_prefetch \/ mem_do_rinst \/ mem_do_rdata THEN 1 ELSE 0
    BY <1>2, Zenon DEF MemIdle
  <2>2. QED  BY <2>1, TrappedRequests, SMT DEF TrapQuiet, Silent
<1>3. CASE ~trap /\ MemRead
  <2>1. mem_state = 1 /\ mem_state' = IF mem_xfer THEN AfterRead ELSE 1
    BY <1>3, Zenon DEF MemRead
  <2>2. mem_state' = 0 => mem_done
    BY <2>1, SMT DEF AfterRead, mem_done
  <2>3. QED  BY <2>2, TrappedRequests, Zenon DEF TrapQuiet, Silent
<1>4. CASE ~trap /\ MemWrite
  <2>1. mem_state = 2 /\ mem_state' = IF mem_xfer THEN 0 ELSE 2
    BY <1>4, Zenon DEF MemWrite
  <2>2. mem_state' = 0 => mem_done
    BY <1>4, <2>1, SMT DEF mem_done
  <2>3. QED  BY <2>2, TrappedRequests, Zenon DEF TrapQuiet, Silent
<1>5. CASE ~trap /\ MemHold
  <2>1. mem_state = 3 /\ mem_state' = IF mem_do_rinst THEN 0 ELSE 3
    BY <1>5, Zenon DEF MemHold
  <2>2. mem_state' = 0 => mem_done
    BY <2>1, SMT DEF mem_done
  <2>3. QED  BY <2>2, TrappedRequests, Zenon DEF TrapQuiet, Silent
<1>6. QED
  BY <1>1, <1>2, <1>3, <1>4, <1>5, TrappedRequests DEF Memory, MemTrapped

\* Every step of the core moves the memory interface, and only the trap state
\* raises the trap output.
LEMMA StepMemory ==
  ASSUME Step
  PROVE  Memory /\ (~Trapped => trap' = FALSE)
<1>1. Every /\ (~Trapped => trap' = FALSE)
  BY Zenon DEF Step, FetchIrq, FetchWaitirq, FetchJal, FetchLaunch, FetchWait, FetchCommon, InFetch, LdRs1Read, LdRs1Retirq, LdRs1Maskirq, LdRs1Timer, LdRs1Pcpi, LdRs1Illegal, LdRs1Load, LdRs1Shift, LdRs1Imm, LdRs1Default, InLdRs1, LdRs2Pcpi, LdRs2Dispatch, InLdRs2, Shift, ExecWait, ExecBranch, ExecAlu, InExec, StMem, LdMem, MemWaitFetch, MemRequest, MemWaitData, MemFinish, InMem, NotFetch, Trapped
<1>2. QED  BY <1>1, EveryStep

LEMMA StutterQuiet ==
  ASSUME TrapQuiet, UNCHANGED vars
  PROVE  TrapQuiet'
<1>1. UNCHANGED memVars /\ UNCHANGED reqVars /\ UNCHANGED cpuVars  BY Zenon DEF vars
<1>2. QED  BY <1>1, Zenon DEF memVars, reqVars, cpuVars, TrapQuiet, Silent

\* The invariants of the memory interface, of the types, and the silence after
\* a trap hold together.
LEMMA MasterInvariant == Spec => []MInv
<1>1. Init => MInv
  BY InitInv, InitType, Zenon DEF MInv, TrapQuiet, Init
<1>2. MInv /\ [Next]_vars => MInv'
  <2> SUFFICES ASSUME MInv, [Next]_vars  PROVE  MInv'
    OBVIOUS
  <2>1. IInv' /\ TInv'
    BY StepInv, ResetInv, StutterInv, StepType, ResetType, StutterType DEF Next, MInv
  <2>2. TrapQuiet'
    <3>1. CASE Reset  BY <3>1, Zenon DEF Reset, TrapQuiet
    <3>2. CASE Trapped  BY <3>2, TrappedQuiet
    <3>3. CASE Step /\ ~Trapped  BY <3>3, StepMemory DEF TrapQuiet
    <3>4. CASE UNCHANGED vars  BY <3>4, StutterQuiet DEF MInv
    <3>5. QED  BY <3>1, <3>2, <3>3, <3>4 DEF Next
  <2>3. QED  BY <2>1, <2>2 DEF MInv
<1>3. QED  BY <1>1, <1>2, PTL DEF Spec

-------------------------------------------------------------------------------
(* One step of the interface *)

\* What a step of the interface does, seen from the bus.
LEMMA BusView ==
  ASSUME MInv, Memory
  PROVE  /\ mem_la_read \/ mem_la_write => ~mem_valid /\ mem_valid' = TRUE
         /\ ~mem_valid /\ ~(mem_la_read \/ mem_la_write)
              => mem_valid' = FALSE /\ UNCHANGED <<mem_wstrb, mem_addr>>
         /\ mem_valid => mem_valid' = ~mem_ready /\ UNCHANGED <<mem_wstrb, mem_addr>>
<1>1. /\ ~trap /\ mem_state \in {0, 3} => ~mem_valid
      /\ trap /\ mem_state = 0 => Silent
      /\ mem_valid \in BOOLEAN /\ mem_ready \in BOOLEAN /\ mem_wstrb \in BOOLEAN
  BY DEF MInv, IInv, BusInv, ValidInv, TrapQuiet, TInv, TypeOK, MemTypeOK
<1>2. CASE MemIdle
  <2>1. /\ ~trap /\ mem_state = 0 /\ ~mem_valid
        /\ mem_addr' = IF mem_la_read \/ mem_la_write THEN mem_la_addr ELSE mem_addr
        /\ mem_wstrb' = (mem_la_write \/ (mem_wstrb /\ ~mem_la_read))
        /\ mem_valid' = (mem_valid \/ (mem_do_prefetch \/ mem_do_rinst \/ mem_do_rdata) \/ mem_do_wdata)
    BY <1>1, <1>2, Zenon DEF MemIdle, AddressPhase
  <2>2. mem_la_read \/ mem_la_write
          <=> mem_do_prefetch \/ mem_do_rinst \/ mem_do_rdata \/ mem_do_wdata
    BY <2>1, Zenon DEF mem_la_read, mem_la_write
  <2>3. CASE mem_la_read \/ mem_la_write
    BY <2>1, <2>2, <2>3, Zenon
  <2>4. CASE ~(mem_la_read \/ mem_la_write)
    <3>1. mem_wstrb' = mem_wstrb  BY <1>1, <2>1, <2>4, Zenon
    <3>2. QED  BY <2>1, <2>2, <2>4, <3>1, Zenon
  <2>5. QED  BY <2>3, <2>4
<1>3. CASE MemRead \/ MemWrite
  <2>1. /\ mem_state # 0
        /\ mem_valid' = (mem_valid /\ ~mem_xfer)
        /\ UNCHANGED <<mem_wstrb, mem_addr>>
    BY <1>3, SMT DEF MemRead, MemWrite
  <2>2. ~mem_la_read /\ ~mem_la_write
    BY <2>1, Zenon DEF mem_la_read, mem_la_write
  <2>3. QED  BY <1>1, <2>1, <2>2, Zenon DEF mem_xfer
<1>4. CASE MemHold
  <2>1. mem_state = 3 /\ ~mem_valid /\ UNCHANGED <<mem_valid, mem_wstrb, mem_addr>>
    BY <1>1, <1>4, Zenon DEF MemHold
  <2>2. ~mem_la_read /\ ~mem_la_write
    BY <2>1, SMT DEF mem_la_read, mem_la_write
  <2>3. QED  BY <1>1, <2>1, <2>2, Zenon
<1>5. CASE MemTrapped
  <2>1. trap /\ mem_valid' = (mem_valid /\ ~mem_ready) /\ UNCHANGED <<mem_wstrb, mem_addr>>
    BY <1>5, Zenon DEF MemTrapped
  <2>2. ~mem_la_read /\ ~mem_la_write
    BY <1>1, <2>1, Zenon DEF mem_la_read, mem_la_write, Silent
  <2>3. QED  BY <1>1, <2>1, <2>2, Zenon
<1>6. QED  BY <1>2, <1>3, <1>4, <1>5 DEF Memory

-------------------------------------------------------------------------------
(* The theorems about the bus *)

\* A look-ahead pulse is followed by the transfer it announces, and no transfer
\* starts without one, in any state, a trap included.
THEOREM LookAheadAnnounces == Spec => LookAhead
<1> DEFINE Pulse == Step => /\ mem_la_read \/ mem_la_write => mem_valid' /\ (mem_valid => mem_ready)
                            /\ mem_valid' /\ ~mem_valid => mem_la_read \/ mem_la_write
<1>1. MInv /\ [Next]_vars => [Pulse]_vars
  <2> SUFFICES ASSUME MInv, Step  PROVE  Pulse
    OBVIOUS
  <2>1. QED  BY StepMemory, BusView, Zenon
<1>2. QED  BY <1>1, MasterInvariant, PTL DEF Spec, LookAhead

\* The core keeps the protocol the bus adapters rely on: one transfer at a time,
\* unchanged until it is answered, and a cycle without one behind it.
THEOREM CoreIsMaster == Spec => ImplementsMaster
<1> DEFINE Drives == [Bus!MasterStep(mem_ready) \/ Bus!MasterReset]_(Bus!masterVars)
<1>1. MInv /\ MInv' /\ [Next]_vars => Drives
  <2> SUFFICES ASSUME MInv, MInv', [Next]_vars  PROVE  Drives
    OBVIOUS
  <2>1. CASE Reset
    <3>1. Bus!MasterReset  BY <2>1, Zenon DEF Reset, Bus!MasterReset
    <3>2. QED  BY <3>1
  <2>2. CASE Step
    <3>1. mem_valid' \in BOOLEAN /\ mem_wstrb' \in BOOLEAN /\ mem_addr' \in Words /\ mem_valid \in BOOLEAN
      BY DEF MInv, TInv, TypeOK, MemTypeOK
    <3>2. Bus!MasterStep(mem_ready)
      <4>1. CASE ~mem_valid /\ (mem_la_read \/ mem_la_write)
        <5>1. Bus!Begin  BY <2>2, <3>1, <4>1, StepMemory, BusView DEF Bus!Begin
        <5>2. QED  BY <5>1 DEF Bus!MasterStep
      <4>2. CASE ~mem_valid /\ ~(mem_la_read \/ mem_la_write)
        <5>1. mem_valid' = mem_valid /\ UNCHANGED <<mem_wstrb, mem_addr>>
          BY <2>2, <3>1, <4>2, StepMemory, BusView
        <5>2. Bus!Rest  BY <4>2, <5>1 DEF Bus!Rest, Bus!masterVars
        <5>3. QED  BY <5>2 DEF Bus!MasterStep
      <4>3. CASE mem_valid /\ ~mem_ready
        <5>1. mem_valid' = mem_valid /\ UNCHANGED <<mem_wstrb, mem_addr>>
          BY <2>2, <3>1, <4>3, StepMemory, BusView
        <5>2. Bus!Wait(mem_ready)  BY <4>3, <5>1 DEF Bus!Wait, Bus!masterVars
        <5>3. QED  BY <5>2 DEF Bus!MasterStep
      <4>4. CASE mem_valid /\ mem_ready
        <5>1. mem_valid' = FALSE /\ UNCHANGED <<mem_wstrb, mem_addr>>
          BY <2>2, <3>1, <4>4, StepMemory, BusView
        <5>2. Bus!Finish(mem_ready)  BY <4>4, <5>1 DEF Bus!Finish
        <5>3. QED  BY <5>2 DEF Bus!MasterStep
      <4>5. QED  BY <4>1, <4>2, <4>3, <4>4
    <3>3. QED  BY <3>2
  <2>3. CASE UNCHANGED vars
    <3>1. UNCHANGED memVars  BY <2>3, Zenon DEF vars
    <3>2. UNCHANGED Bus!masterVars  BY <3>1, Zenon DEF memVars, Bus!masterVars
    <3>3. QED  BY <3>2
  <2>4. QED  BY <2>1, <2>2, <2>3 DEF Next
<1>2. Init => Bus!MasterInit
  BY WordType, Zenon DEF Init, Bus!MasterInit, Bus!MasterTypeOK
<1>3. QED  BY <1>1, <1>2, MasterInvariant, PTL DEF Spec, ImplementsMaster


-------------------------------------------------------------------------------
(* The inductive invariant of the pipeline *)

Executing == {"ld_rs1", "ld_rs2", "exec", "shift"}
InData == {"stmem", "ldmem"}
Busy == Executing \cup InData

\* An interrupt is taken between two instructions: nothing is latched, nothing
\* is requested, and the instruction pushed back is still in decode stage 1.
EntryInv ==
  /\ irq_state # 0 =>
       /\ ENABLE_IRQ
       /\ cpu_state \in {"fetch", "trap"}
       /\ cpu_state = "fetch" =>
            ~latched_branch /\ ~latched_store /\ ~decoder_trigger /\ ~do_waitirq
  /\ irq_state = 1 => ~irq_active /\ Silent /\ dec1.at = Word(reg_next_pc)
  /\ irq_state = 2 => irq_active
  /\ irq_active => ENABLE_IRQ

\* When an instruction is reported decoded.  Stage 2 saw it one cycle ago at
\* most, so the flags that remember the last report are down.
TriggerInv ==
  /\ decoder_trigger => cpu_state \in {"fetch", "trap"} \cup InData
  /\ decoder_pseudo_trigger => decoder_trigger /\ cpu_state \in {"fetch", "trap"}
  /\ cpu_state \in InData /\ decoder_trigger => mem_state = 0
  /\ cpu_state = "fetch" /\ decoder_trigger => ~decoder_trigger_q

\* The interface fetches, or holds, the word at reg_next_pc.
FlowInv ==
  cpu_state # "trap" =>
    /\ mem_state = 1 /\ mem_instr => mem_addr = Word(reg_next_pc)
    /\ mem_state = 3 => mem_rdata_q.at = Word(reg_next_pc) /\ mem_rdata_q.op \in config.Ops

\* The program counter while an instruction executes, and a jump on its way to
\* it: nothing has been fetched from anywhere else.
TargetInv ==
  /\ cpu_state \in Busy => reg_next_pc = Plus4(reg_pc)
  /\ cpu_state = "fetch" /\ latched_branch /\ latched_store =>
       /\ ~decoder_trigger /\ ~do_waitirq
       /\ mem_state = 0 /\ ~mem_do_prefetch
       /\ latched_stalu => ~mem_do_rinst
  /\ cpu_state \in Busy \ {"ld_rs1"} /\ mem_do_prefetch => mem_state # 0
  /\ cpu_state = "exec" => (mem_do_prefetch <=> Prefetches) /\ (mem_do_rinst => mem_do_prefetch)

\* What the decode stages hold: the instruction that executes; the next one when
\* it is triggered; both, while a load or store waits for the memory.
DecodeInv ==
  /\ cpu_state \in Executing =>
       dec1 = dec2 /\ dec1.at = Word(reg_pc) /\ dec1.op \in config.Ops \ {"jal", "waitirq"}
  /\ cpu_state = "fetch" /\ decoder_trigger =>
       /\ dec1.at = Word(reg_next_pc) /\ dec1.op \in config.Ops
       /\ (IF decoder_pseudo_trigger THEN dec2 ELSE mem_rdata_q) = dec1
  /\ cpu_state \in InData /\ mem_do_prefetch => dec2.at = Word(reg_pc)
  /\ cpu_state \in InData /\ ~mem_do_prefetch =>
       /\ dec1.at = Word(reg_next_pc) /\ dec1.op \in config.Ops
       /\ (IF decoder_trigger THEN mem_rdata_q ELSE dec2) = dec1
  /\ cpu_state = "fetch" /\ do_waitirq =>
       /\ dec1.at = Word(reg_next_pc) /\ dec1.op = "waitirq"
       /\ ENABLE_IRQ /\ irq_state = 0 /\ ~latched_store

\* A result goes to the destination of the instruction that made it.
DestInv ==
  cpu_state \in Busy \/ (cpu_state = "fetch" /\ latched_store) =>
    (latched_rd.reg = "rd" => latched_rd.at = Word(reg_pc))

\* An EBREAK decoded a cycle ago is seen in cpu_state_fetch only if an interrupt
\* pushed it back, or reset came in between.
StopInv ==
  cpu_state = "fetch" /\ decoder_trigger_q /\ ~decoder_pseudo_trigger_q /\ dec2.op = "ebreak" =>
    \/ irq_state = 1
    \/ /\ ~latched_branch /\ reg_next_pc = PROGADDR_RESET
       /\ ~irq_active /\ irq_state = 0 /\ ~decoder_trigger /\ ~do_waitirq

PipeInv ==
  EntryInv /\ TriggerInv /\ FlowInv /\ TargetInv /\ DecodeInv /\ DestInv /\ StopInv

\* The invariants every step may rely on.
CoreInv == IInv /\ TInv

-------------------------------------------------------------------------------
(* What every clock edge does *)

LEMMA Plus4Parity ==
  ASSUME NEW a \in Addr
  PROVE  Odd(Plus4(a)) <=> Odd(a)
BY AddrAssumption, SMT DEF Addr, Plus4, Odd

\* A word that arrives is tagged with the address on the bus, and is an
\* instruction of the program if it was fetched as one.
LEMMA Arrival ==
  ASSUME NEW w \in Fetched, mem_instr
  PROVE  w.at = mem_addr /\ w.op \in config.Ops
BY SMT DEF Fetched

\* A requested fetch that does not end stays on the bus.
LEMMA Outstanding ==
  ASSUME BusInv, ~trap, Memory, mem_do_prefetch \/ mem_do_rinst, ~mem_done
  PROVE  mem_state' # 0
<1> USE DEF BusInv, ValidInv, RequestExclusive, InterfaceState
<1>1. CASE MemIdle
  BY <1>1, SMT DEF MemIdle
<1>2. CASE MemRead
  BY <1>2, SMT DEF MemRead, AfterRead, mem_done
<1>3. CASE MemWrite
  BY <1>3, SMT DEF MemWrite
<1>4. CASE MemHold
  BY <1>4, SMT DEF MemHold, mem_done
<1>5. QED  BY <1>1, <1>2, <1>3, <1>4 DEF Memory, MemTrapped

\* What a clock edge outside cpu_state_trap does to the decode stages.
LEMMA Cycle ==
  ASSUME CoreInv, FlowInv, cpu_state # "trap", Every
  PROVE  /\ ~trap /\ config' = config /\ Memory
         /\ decoder_trigger_q' = decoder_trigger
         /\ decoder_pseudo_trigger_q' = decoder_pseudo_trigger
         /\ dec2' = IF decoder_trigger /\ ~decoder_pseudo_trigger THEN Stage2(mem_rdata_q) ELSE dec2
         /\ mem_done => mem_state' = 0
         /\ (mem_do_prefetch \/ mem_do_rinst) /\ ~mem_done => mem_state' # 0
         /\ ~(mem_do_rinst /\ mem_done) => dec1' = dec1
         /\ mem_do_rinst /\ mem_done =>
              /\ mem_state \in {1, 3} /\ dec1' = mem_rdata_q'
              /\ dec1'.at = Word(reg_next_pc) /\ dec1'.op \in config.Ops
         /\ mem_state \in {0, 3} => mem_rdata_q' = mem_rdata_q
<1>1. ~trap  BY DEF CoreInv, IInv, CpuInv, TrapInv
<1>2. config' = config /\ Memory /\ Decode
  BY DEF Every
<1>3. /\ decoder_trigger_q' = decoder_trigger
      /\ decoder_pseudo_trigger_q' = decoder_pseudo_trigger
      /\ dec2' = IF decoder_trigger /\ ~decoder_pseudo_trigger THEN Stage2(mem_rdata_q) ELSE dec2
      /\ ~(mem_do_rinst /\ mem_done) => dec1' = dec1
  BY <1>2, Zenon DEF Decode, Stage2Enable
<1>4. /\ mem_done => mem_state' = 0
      /\ (mem_do_prefetch \/ mem_do_rinst) /\ ~mem_done => mem_state' # 0
  BY <1>1, <1>2, MemDone, Outstanding DEF CoreInv, IInv
<1>5. PICK w \in IF mem_xfer THEN Fetched ELSE {mem_rdata_q} :
        mem_rdata_q' = w /\ dec1' = IF mem_do_rinst /\ mem_done THEN w ELSE dec1
  BY <1>2, Zenon DEF Decode
<1>6. mem_state \in {0, 3} => mem_rdata_q' = mem_rdata_q
  <2>1. mem_state \in {0, 3} => ~mem_xfer
    BY <1>1, SMT DEF CoreInv, IInv, BusInv, ValidInv, mem_xfer
  <2>2. QED  BY <1>5, <2>1, Zenon
<1>7. ASSUME mem_do_rinst, mem_done
      PROVE  /\ mem_state \in {1, 3} /\ dec1' = mem_rdata_q'
             /\ dec1'.at = Word(reg_next_pc) /\ dec1'.op \in config.Ops
  <2>1. dec1' = mem_rdata_q' /\ dec1' = w  BY <1>5, <1>7, Zenon
  <2>2. mem_state \in {0, 1, 2, 3}
    BY SMT DEF CoreInv, TInv, TypeOK, MemTypeOK
  <2>3. mem_state # 0 /\ mem_state # 2
    BY <1>1, <1>7, SMT DEF CoreInv, IInv, BusInv, InterfaceState, RequestExclusive, mem_done
  <2>4. CASE mem_state = 1
    <3>1. mem_instr /\ mem_addr = Word(reg_next_pc)
      BY <1>1, <1>7, <2>4, Zenon DEF CoreInv, IInv, BusInv, InterfaceState, FlowInv
    <3>2. mem_xfer  BY <1>7, <2>4, SMT DEF mem_done
    <3>3. QED  BY <1>5, <2>1, <2>4, <3>1, <3>2, Arrival
  <2>5. CASE mem_state = 3
    <3>1. w = mem_rdata_q  BY <1>5, <1>6, <2>5
    <3>2. QED  BY <2>1, <2>5, <3>1 DEF FlowInv
  <2>6. QED  BY <2>2, <2>3, <2>4, <2>5
<1>8. QED  BY <1>1, <1>2, <1>3, <1>4, <1>6, <1>7

\* The interface keeps to the program counter if the core moves it only while
\* nothing is fetched, and starts a fetch at its new value.
LEMMA FlowStep ==
  ASSUME CoreInv, FlowInv, cpu_state # "trap", Every,
         mem_state \in {1, 3} => reg_next_pc' = reg_next_pc,
         mem_state = 0 /\ (mem_do_prefetch \/ mem_do_rinst) => next_pc = reg_next_pc'
  PROVE  FlowInv'
<1>1. ~trap /\ config' = config /\ Memory
  BY Cycle
<1>2. PICK w \in IF mem_xfer THEN Fetched ELSE {mem_rdata_q} : mem_rdata_q' = w
  BY Zenon DEF Every, Decode
<1>3. CASE MemIdle
  <2>1. /\ mem_state = 0
        /\ mem_state' = IF mem_do_wdata THEN 2
                        ELSE IF mem_do_prefetch \/ mem_do_rinst \/ mem_do_rdata THEN 1 ELSE 0
        /\ mem_instr' <=> /\ ~mem_do_wdata
                          /\ mem_do_prefetch \/ mem_do_rinst \/ (mem_instr /\ ~mem_do_rdata)
        /\ mem_addr' = IF mem_la_read \/ mem_la_write THEN mem_la_addr ELSE mem_addr
    BY <1>3, Zenon DEF MemIdle, AddressPhase
  <2>2. ASSUME mem_state' = 1, mem_instr'
        PROVE  mem_addr' = Word(reg_next_pc')
    <3>1. mem_do_prefetch \/ mem_do_rinst
      BY <2>1, <2>2, SMT
    <3>2. mem_addr' = Word(next_pc)
      BY <2>1, <3>1, Zenon DEF mem_la_read, mem_la_addr
    <3>3. QED  BY <2>1, <3>1, <3>2
  <2>3. mem_state' # 3  BY <2>1, SMT
  <2>4. QED  BY <2>2, <2>3 DEF FlowInv
<1>4. CASE MemRead
  <2>1. /\ mem_state = 1 /\ mem_addr' = mem_addr /\ mem_instr' = mem_instr
        /\ mem_state' = IF mem_xfer THEN AfterRead ELSE 1
    BY <1>4, Zenon DEF MemRead
  <2>2. mem_state' = 1 => ~mem_xfer
    BY <2>1, SMT DEF AfterRead
  <2>3. ASSUME mem_state' = 3
        PROVE  mem_rdata_q'.at = Word(reg_next_pc') /\ mem_rdata_q'.op \in config'.Ops
    <3>1. mem_xfer /\ mem_do_prefetch
      BY <1>1, <2>1, <2>3, SMT DEF AfterRead, CoreInv, IInv, BusInv, InterfaceState
    <3>2. mem_instr
      BY <1>1, <2>1, <3>1, Zenon DEF CoreInv, IInv, BusInv, InterfaceState
    <3>3. mem_addr = Word(reg_next_pc)
      BY <2>1, <3>2 DEF FlowInv
    <3>4. QED  BY <1>1, <1>2, <2>1, <3>1, <3>2, <3>3, Arrival
  <2>4. QED  BY <2>1, <2>2, <2>3 DEF FlowInv
<1>5. CASE MemWrite
  <2>1. mem_state' \in {0, 2}  BY <1>5, SMT DEF MemWrite
  <2>2. QED  BY <2>1, SMT DEF FlowInv
<1>6. CASE MemHold
  <2>1. mem_state = 3 /\ mem_state' \in {0, 3}  BY <1>6, SMT DEF MemHold
  <2>2. mem_rdata_q' = mem_rdata_q  BY <2>1, Cycle
  <2>3. QED  BY <1>1, <2>1, <2>2, SMT DEF FlowInv
<1>7. QED  BY <1>1, <1>3, <1>4, <1>5, <1>6 DEF Memory, MemTrapped
-------------------------------------------------------------------------------
(* cpu_state_ld_rs1, cpu_state_ld_rs2, cpu_state_shift *)

\* What a step from one of these states may do besides moving on.
OperandMove ==
  /\ NotFetch /\ Trigger /\ Operand
  /\ mem_do_prefetch' <=> mem_do_prefetch
  /\ cpu_state' = "exec" => cpu_state # "shift" /\ (mem_do_rinst' => mem_do_prefetch)
  /\ latched_branch' => dec1.op = "retirq" /\ cpu_state = "ld_rs1" /\ ~mem_do_rinst'
  /\ ~latched_stalu'
  /\ latched_rd'.reg = "rd" => latched_rd' = latched_rd
  /\ irq_active' => irq_active

LEMMA OperandCycle ==
  ASSUME CoreInv, PipeInv, cpu_state \in Operands, NotFetch, Trigger
  PROVE  /\ dec1' = dec1 /\ dec2' = dec2 /\ config' = config
         /\ decoder_trigger' = FALSE /\ decoder_pseudo_trigger' = FALSE
         /\ decoder_trigger_q' = FALSE
         /\ reg_pc' = reg_pc /\ reg_next_pc' = reg_next_pc /\ reg_next_pc = Plus4(reg_pc)
         /\ irq_state = 0 /\ irq_state' = 0 /\ do_waitirq' = FALSE
         /\ mem_do_prefetch => mem_state' # 0
         /\ ~mem_do_prefetch => mem_state' = 0
         /\ FlowInv'
<1>1. cpu_state # "trap" /\ cpu_state \in Busy /\ cpu_state # "fetch" /\ cpu_state \notin InData
  BY DEF Operands, Busy, Executing, InData
<1>2. /\ Every /\ do_waitirq' = FALSE
      /\ reg_pc' = reg_pc /\ reg_next_pc' = reg_next_pc /\ irq_state' = irq_state
  BY Zenon DEF NotFetch
<1>3. ~mem_done /\ ~mem_do_rinst /\ ~mem_do_rdata /\ ~mem_do_wdata /\ ~trap
  BY OperandQuiet DEF CoreInv
<1>4. ~decoder_trigger /\ decoder_trigger \in BOOLEAN
  BY <1>1 DEF PipeInv, TriggerInv, CoreInv, TInv, TypeOK, DecTypeOK
<1>5. decoder_trigger' = FALSE /\ decoder_pseudo_trigger' = FALSE
  BY <1>3, Zenon DEF Trigger
<1>6. irq_state = 0
  BY <1>1 DEF PipeInv, EntryInv
<1>7. reg_next_pc = Plus4(reg_pc)
  BY <1>1 DEF PipeInv, TargetInv
<1>8. ~mem_do_prefetch => Silent
  BY <1>3, SMT DEF Silent, CoreInv, IInv, BusInv, InterfaceState, TInv, TypeOK, MemTypeOK
<1>9. FlowInv'
  <2>1. next_pc = reg_next_pc
    BY DEF next_pc, CoreInv, TInv, PcInv, Operands
  <2>2. QED  BY <1>1, <1>2, <2>1, FlowStep DEF PipeInv
<1>10. /\ config' = config /\ Memory /\ dec1' = dec1 /\ decoder_trigger_q' = decoder_trigger
       /\ dec2' = dec2 /\ (mem_do_prefetch => mem_state' # 0)
  BY <1>1, <1>2, <1>3, <1>4, Cycle, Zenon DEF PipeInv
<1>11. ~mem_do_prefetch => mem_state' = 0
  BY <1>3, <1>8, <1>10, MemDone DEF CoreInv, IInv
<1>12. QED
  BY <1>2, <1>4, <1>5, <1>6, <1>7, <1>9, <1>10, <1>11, Zenon

LEMMA OperandPipe ==
  ASSUME CoreInv, PipeInv, cpu_state \in Operands, OperandMove
  PROVE  PipeInv'
<1> USE DEF Operands, Busy, Executing, InData
<1>1. /\ dec1' = dec1 /\ dec2' = dec2 /\ config' = config
      /\ decoder_trigger' = FALSE /\ decoder_pseudo_trigger' = FALSE
      /\ decoder_trigger_q' = FALSE
      /\ reg_pc' = reg_pc /\ reg_next_pc' = reg_next_pc /\ reg_next_pc = Plus4(reg_pc)
      /\ irq_state = 0 /\ irq_state' = 0 /\ do_waitirq' = FALSE
      /\ mem_do_prefetch => mem_state' # 0
      /\ ~mem_do_prefetch => mem_state' = 0
      /\ FlowInv'
  BY OperandCycle DEF OperandMove
<1>2. EntryInv'
  BY <1>1, SMT DEF EntryInv, PipeInv, OperandMove, ENABLE_IRQ
<1>3. TriggerInv'
  BY <1>1, Zenon DEF TriggerInv
<1>4. TargetInv'
  <2>1. latched_branch' => ~mem_do_prefetch
    BY SMT DEF OperandMove, CoreInv, IInv, CpuInv, OperandInv, Prefetches
  <2>2. cpu_state # "shift" => (mem_do_prefetch <=> Prefetches)
    BY SMT DEF CoreInv, IInv, CpuInv, OperandInv
  <2>3. Prefetches' <=> Prefetches  BY <1>1, Zenon DEF Prefetches
  <2>4. QED  BY <1>1, <2>1, <2>2, <2>3, SMT DEF TargetInv, OperandMove, Operand
<1>5. DecodeInv'
  BY <1>1, SMT DEF DecodeInv, PipeInv, OperandMove, Operand
<1>6. DestInv'
  BY <1>1, SMT DEF DestInv, PipeInv, OperandMove, Operand
<1>7. StopInv'
  BY <1>1, Zenon DEF StopInv
<1>8. QED  BY <1>1, <1>2, <1>3, <1>4, <1>5, <1>6, <1>7 DEF PipeInv
\* What the latches and the interrupt registers do in all these steps but two.
Still ==
  /\ UNCHANGED <<latched_branch, latched_stalu, irq_active>>
  /\ latched_rd' = latched_rd

LEMMA StillMove ==
  ASSUME CoreInv, cpu_state \in Operands, NotFetch, Trigger, Operand, Still,
         mem_do_prefetch' <=> mem_do_prefetch,
         cpu_state' = "exec" => cpu_state # "shift" /\ (mem_do_rinst' => mem_do_prefetch)
  PROVE  OperandMove
<1>1. ~latched_branch /\ ~latched_stalu
  BY SMT DEF CoreInv, TInv, PcInv, Operands
<1>2. QED  BY <1>1, Zenon DEF OperandMove, Still

LEMMA ReadMove ==
  ASSUME CoreInv, LdRs1Read \/ LdRs1Retirq \/ LdRs1Maskirq \/ LdRs1Timer
  PROVE  OperandMove /\ cpu_state \in Operands
<1>1. /\ cpu_state = "ld_rs1" /\ NotFetch /\ Trigger /\ KeepRequest /\ Goto("fetch")
      /\ latched_stalu' = latched_stalu
      /\ irq_active' = irq_active \/ irq_active' = FALSE
  BY Zenon DEF LdRs1Read, LdRs1Retirq, LdRs1Maskirq, LdRs1Timer, InLdRs1, KeepIrq
<1>2. ~latched_branch /\ ~latched_stalu
  BY <1>1, SMT DEF CoreInv, TInv, PcInv
<1>3. /\ cpu_state' \in {"trap", "fetch"} /\ Operand
      /\ mem_do_prefetch' <=> mem_do_prefetch
      /\ ~mem_do_rinst'
  BY <1>1, OperandKeep, GotoStep DEF Operand, Operands, CoreInv
<1>4. latched_branch' => dec1.op = "retirq"
  BY <1>2, SMT DEF LdRs1Read, LdRs1Retirq, LdRs1Maskirq, LdRs1Timer, InLdRs1, LdRs1Arms
<1>5. latched_rd'.reg = "rd" => latched_rd' = latched_rd
  <2>1. latched_rd' = latched_rd \/ latched_rd' = [latched_rd EXCEPT !.reg = "q"]
    BY Zenon DEF LdRs1Read, LdRs1Retirq, LdRs1Maskirq, LdRs1Timer
  <2>2. ASSUME latched_rd' = [latched_rd EXCEPT !.reg = "q"]
        PROVE  latched_rd'.reg # "rd"
    BY <2>2, SMT DEF CoreInv, TInv, TypeOK, LatTypeOK
  <2>3. QED  BY <2>1, <2>2, Zenon
<1>6. QED  BY <1>1, <1>2, <1>3, <1>4, <1>5, SMT DEF OperandMove, Operands

LEMMA WithRs2Move ==
  ASSUME CoreInv, cpu_state \in {"ld_rs1", "ld_rs2"}, WithRs2(LdRs2Arms)
  PROVE  /\ Operand
         /\ mem_do_prefetch' <=> mem_do_prefetch
         /\ cpu_state' = "exec" /\ mem_do_rinst' => mem_do_prefetch
<1>1. CASE Goto("stmem") \/ Goto("shift")
  BY <1>1, WithRs2Step, GotoStep DEF CoreInv
<1>2. CASE \E slow \in BOOLEAN :
             Request(mem_do_prefetch, IF slow THEN mem_do_rinst ELSE mem_do_prefetch, "none")
  <2>1. mem_do_rinst' => mem_do_prefetch
    BY <1>2, OperandQuiet, Zenon DEF Request, Operands, CoreInv
  <2>2. QED  BY <2>1, WithRs2Step DEF CoreInv
<1>3. QED
  <2> DEFINE slow == TWO_CYCLE_ALU \/ (TWO_CYCLE_COMPARE /\ is_branch)
  <2>1. slow \in BOOLEAN
    BY Zenon DEF TWO_CYCLE_ALU, TWO_CYCLE_COMPARE, is_branch
  <2>2. \/ Goto("stmem") \/ Goto("shift")
        \/ Request(mem_do_prefetch, IF slow THEN mem_do_rinst ELSE mem_do_prefetch, "none")
    BY Zenon DEF WithRs2
  <2>3. QED  BY <1>1, <1>2, <2>1, <2>2, Zenon

LEMMA OtherMove ==
  ASSUME CoreInv, LdRs1Illegal \/ LdRs1Load \/ LdRs1Shift \/ LdRs1Imm \/ LdRs1Default \/ LdRs2Dispatch
  PROVE  OperandMove /\ cpu_state \in Operands
<1> DEFINE r == IF TWO_CYCLE_ALU THEN mem_do_rinst ELSE mem_do_prefetch
<1>1. /\ cpu_state \in {"ld_rs1", "ld_rs2"} /\ cpu_state \in Operands
      /\ NotFetch /\ Trigger /\ KeepLatches /\ KeepIrq
  BY Zenon DEF LdRs1Illegal, LdRs1Load, LdRs1Shift, LdRs1Imm, LdRs1Default, LdRs2Dispatch, InLdRs1, InLdRs2, Operands
<1>2. Still  BY <1>1, Zenon DEF Still, KeepLatches, KeepRd, KeepIrq
<1>3. CASE LdRs1Illegal \/ LdRs1Shift
  <2>1. KeepRequest /\ (Goto("fetch") \/ Goto("trap") \/ Goto("shift"))
    BY <1>3, Zenon DEF LdRs1Illegal, Illegal, LdRs1Shift
  <2>2. /\ mem_do_prefetch' <=> mem_do_prefetch
        /\ ~mem_do_rinst' /\ Operand
    BY <1>1, <2>1, OperandKeep, GotoStep DEF Operand, CoreInv
  <2>3. QED  BY <1>1, <1>2, <2>2, StillMove
<1>4. CASE LdRs1Load
  <2>1. cpu_state = "ld_rs1" /\ Request(mem_do_prefetch, TRUE, "none") /\ Goto("ldmem") /\ is_load
    <3>1. "load" \in LdRs1Arms /\ cpu_state = "ld_rs1"  BY <1>4, SMT DEF LdRs1Load, InLdRs1
    <3>2. is_load  BY <3>1, SMT DEF LdRs1Arms, LoadArm
    <3>3. QED  BY <1>4, <3>1, <3>2, Zenon DEF LdRs1Load
  <2>2. mem_do_prefetch
    BY <2>1, SMT DEF CoreInv, IInv, CpuInv, OperandInv, Prefetches, is_load
  <2>3. mem_do_rinst' /\ mem_do_prefetch'
    BY <1>1, <2>1, <2>2, OperandRequest DEF CoreInv
  <2>4. Operand  BY <2>1, <2>3, GotoStep DEF Operand
  <2>5. QED  BY <1>1, <1>2, <2>2, <2>3, <2>4, StillMove
<1>5. CASE LdRs1Imm
  <2>1. /\ Request(mem_do_prefetch, r, "none") /\ Goto("exec")
        /\ alu_wait' = TWO_CYCLE_ALU /\ alu_wait_2' = FALSE
    BY <1>5, Zenon DEF LdRs1Imm
  <2>2. /\ mem_do_prefetch' <=> mem_do_prefetch
        /\ mem_do_rinst' => mem_do_prefetch
        /\ TWO_CYCLE_ALU => ~mem_do_rinst'
    BY <1>1, <2>1, OperandRequest, OperandQuiet DEF CoreInv
  <2>3. Operand  BY <2>1, <2>2, GotoStep DEF Operand
  <2>4. QED  BY <1>1, <1>2, <2>2, <2>3, StillMove
<1>6. CASE LdRs1Default /\ ~ENABLE_REGS_DUALPORT
  <2>1. cpu_state = "ld_rs1" /\ KeepRequest /\ Goto("ld_rs2")
    BY <1>6, Zenon DEF LdRs1Default, InLdRs1
  <2>2. /\ mem_do_prefetch' <=> mem_do_prefetch
        /\ ~mem_do_rinst' /\ Operand
    BY <1>1, <2>1, OperandKeep, GotoStep DEF Operand, CoreInv
  <2>3. QED  BY <1>1, <1>2, <2>2, StillMove
<1>7. CASE LdRs2Dispatch \/ (LdRs1Default /\ ENABLE_REGS_DUALPORT)
  <2>1. WithRs2(LdRs2Arms)
    BY <1>7, Zenon DEF LdRs2Dispatch, LdRs1Default
  <2>2. QED  BY <1>1, <1>2, <2>1, WithRs2Move, StillMove
<1>8. QED  BY <1>3, <1>4, <1>5, <1>6, <1>7

LEMMA PcpiMove ==
  ASSUME CoreInv, LdRs1Pcpi \/ LdRs2Pcpi
  PROVE  OperandMove /\ cpu_state \in Operands
<1>1. /\ cpu_state \in {"ld_rs1", "ld_rs2"} /\ cpu_state \in Operands
      /\ NotFetch /\ Trigger /\ Still
  BY Zenon DEF LdRs1Pcpi, LdRs2Pcpi, InLdRs1, InLdRs2, KeepIrq, Still, Operands
<1>2. CASE Pcpi(cpu_state)
  <2>1. /\ Operand
        /\ mem_do_prefetch' <=> mem_do_prefetch
    BY <1>1, <1>2, PcpiStep DEF CoreInv
  <2>2. Goto("fetch") \/ Goto("trap") \/ Goto(cpu_state)
    BY <1>2, Zenon DEF Pcpi, Illegal
  <2>3. cpu_state' # "exec"
    BY <1>1, <2>2, GotoStep
  <2>4. QED  BY <1>1, <2>1, <2>3, StillMove
<1>3. CASE cpu_state = "ld_rs1" /\ KeepRequest /\ Goto("ld_rs2")
  <2>1. /\ mem_do_prefetch' <=> mem_do_prefetch
        /\ ~mem_do_rinst' /\ Operand
    BY <1>1, <1>3, OperandKeep, GotoStep DEF Operand, CoreInv
  <2>2. QED  BY <1>1, <2>1, StillMove
<1>4. QED  BY <1>2, <1>3, Zenon DEF LdRs1Pcpi, LdRs2Pcpi, InLdRs1, InLdRs2

LEMMA ShiftMove ==
  ASSUME CoreInv, Shift
  PROVE  OperandMove /\ cpu_state \in Operands
<1>1. cpu_state = "shift" /\ cpu_state \in Operands /\ NotFetch /\ Trigger /\ Still
  BY Zenon DEF Shift, KeepIrq, Still, Operands
<1>2. CASE Request(mem_do_prefetch, mem_do_prefetch, "none") /\ Goto("fetch")
  BY <1>1, <1>2, OperandRequest, GotoStep, StillMove DEF Operand, CoreInv
<1>3. CASE KeepRequest /\ Goto("shift")
  BY <1>1, <1>3, OperandKeep, GotoStep, StillMove DEF Operand, CoreInv
<1>4. QED  BY <1>2, <1>3, Zenon DEF Shift
-------------------------------------------------------------------------------
(* cpu_state_exec *)

LEMMA ExecCycle ==
  ASSUME CoreInv, PipeInv, cpu_state = "exec", NotFetch
  PROVE  /\ config' = config /\ dec2' = dec2 /\ decoder_trigger_q' = FALSE
         /\ reg_pc' = reg_pc /\ reg_next_pc' = reg_next_pc /\ reg_next_pc = Plus4(reg_pc)
         /\ irq_state = 0 /\ irq_state' = 0 /\ do_waitirq' = FALSE
         /\ ~mem_do_rdata /\ ~mem_do_wdata
         /\ mem_done => mem_do_rinst /\ mem_do_prefetch /\ mem_state' = 0
         /\ mem_do_prefetch /\ ~mem_done => mem_state' # 0
         /\ ~mem_done => dec1' = dec1
         /\ mem_done => /\ dec1' = mem_rdata_q'
                        /\ dec1'.at = Word(reg_next_pc) /\ dec1'.op \in config.Ops
         /\ FlowInv'
<1>1. /\ Every /\ do_waitirq' = FALSE
      /\ reg_pc' = reg_pc /\ reg_next_pc' = reg_next_pc /\ irq_state' = irq_state
  BY Zenon DEF NotFetch
<1>2. /\ ~mem_do_rdata /\ ~mem_do_wdata
      /\ ~decoder_trigger /\ decoder_trigger \in BOOLEAN
      /\ irq_state = 0 /\ reg_next_pc = Plus4(reg_pc)
  BY SMT DEF CoreInv, IInv, CpuInv, DataInv, PipeInv, TriggerInv, EntryInv, TargetInv, Busy, Executing, InData, TInv, TypeOK, DecTypeOK
<1>3. mem_done => mem_do_rinst
  BY <1>2, Zenon DEF mem_done
<1>4. /\ mem_do_prefetch => mem_state # 0
      /\ mem_do_rinst => mem_do_prefetch
  BY SMT DEF PipeInv, TargetInv, Busy, Executing, InData
<1>5. FlowInv'
  BY <1>1, <1>4, FlowStep, SMT DEF PipeInv
<1>6. /\ config' = config /\ decoder_trigger_q' = decoder_trigger
      /\ dec2' = dec2
      /\ mem_done => mem_state' = 0
      /\ mem_do_prefetch /\ ~mem_done => mem_state' # 0
      /\ ~mem_done => dec1' = dec1
      /\ mem_done => /\ dec1' = mem_rdata_q'
                     /\ dec1'.at = Word(reg_next_pc) /\ dec1'.op \in config.Ops
  BY <1>1, <1>2, <1>3, Cycle, Zenon DEF PipeInv
<1>7. QED  BY <1>1, <1>2, <1>3, <1>4, <1>5, <1>6, Zenon

\* What the three steps of this state do.
ExecMove ==
  /\ NotFetch
  /\ mem_do_prefetch' <=> mem_do_prefetch /\ ~mem_done
  /\ irq_active' = irq_active
  /\ latched_rd' = latched_rd \/ latched_rd'.reg # "rd"
  /\ cpu_state' \in {"exec", "trap"} => ~mem_done \/ cpu_state' = "trap"
  /\ cpu_state' \in {"exec", "fetch", "trap"}
  /\ decoder_pseudo_trigger' = FALSE
  /\ decoder_trigger' => mem_done
  /\ latched_branch' /\ latched_store' =>
       \/ is_branch /\ (cpu_state' = "fetch" => mem_done) /\ ~decoder_trigger' /\ ~latched_stalu'
       \/ dec1.op = "jalr" /\ (mem_do_rinst' => mem_do_rinst)
       \/ cpu_state' # "fetch"
  /\ cpu_state' = "exec" => (mem_do_rinst' => mem_do_prefetch)

LEMMA ExecPipe ==
  ASSUME CoreInv, PipeInv, cpu_state = "exec", ExecMove
  PROVE  PipeInv'
<1> USE DEF Busy, Executing, InData
<1>1. /\ config' = config /\ dec2' = dec2 /\ decoder_trigger_q' = FALSE
      /\ reg_pc' = reg_pc /\ reg_next_pc' = reg_next_pc /\ reg_next_pc = Plus4(reg_pc)
      /\ irq_state = 0 /\ irq_state' = 0 /\ do_waitirq' = FALSE
      /\ mem_done => mem_do_rinst /\ mem_do_prefetch /\ mem_state' = 0
      /\ mem_do_prefetch /\ ~mem_done => mem_state' # 0
      /\ ~mem_done => dec1' = dec1
      /\ mem_done => /\ dec1' = mem_rdata_q'
                     /\ dec1'.at = Word(reg_next_pc) /\ dec1'.op \in config.Ops
      /\ FlowInv'
  BY ExecCycle, Zenon DEF ExecMove
<1>2. EntryInv'
  BY <1>1, SMT DEF EntryInv, PipeInv, ExecMove, ENABLE_IRQ
<1>3. TriggerInv'
  BY <1>1, SMT DEF TriggerInv, ExecMove
<1>4. TargetInv'
  <2>1. /\ dec1.op = "jalr" => ~mem_do_prefetch /\ ~mem_do_rinst
        /\ mem_do_rinst => mem_do_prefetch
    BY SMT DEF PipeInv, TargetInv, Prefetches
  <2>2. ~mem_do_prefetch /\ ~mem_do_rinst => mem_state' = 0
    <3>1. ASSUME ~mem_do_prefetch, ~mem_do_rinst  PROVE  Silent /\ Memory /\ ~trap
      <4>1. ~mem_do_rdata /\ ~mem_do_wdata  BY ExecCycle DEF ExecMove
      <4>2. ~trap  BY SMT DEF CoreInv, IInv, CpuInv, TrapInv
      <4>3. Silent
        BY <3>1, <4>1, <4>2, SMT DEF Silent, CoreInv, IInv, BusInv, InterfaceState, TInv, TypeOK, MemTypeOK
      <4>4. QED  BY <4>2, <4>3, EveryStep DEF ExecMove, NotFetch
    <3>2. QED  BY <3>1, MemDone DEF CoreInv, IInv
  <2>3. cpu_state' = "exec" => (Prefetches' <=> Prefetches)
    BY <1>1, SMT DEF Prefetches, ExecMove
  <2>4. mem_do_prefetch <=> Prefetches
    BY DEF PipeInv, TargetInv
  <2>5. QED  BY <1>1, <2>1, <2>2, <2>3, <2>4, SMT DEF TargetInv, ExecMove
<1>5. DecodeInv'
  BY <1>1, SMT DEF DecodeInv, PipeInv, ExecMove
<1>6. DestInv'
  BY <1>1, SMT DEF DestInv, PipeInv, ExecMove
<1>7. StopInv'
  BY <1>1, Zenon DEF StopInv
<1>8. QED  BY <1>1, <1>2, <1>3, <1>4, <1>5, <1>6, <1>7 DEF PipeInv

LEMMA ExecActions ==
  ASSUME CoreInv, PipeInv, ExecWait \/ ExecBranch \/ ExecAlu
  PROVE  ExecMove /\ cpu_state = "exec"
<1>1. cpu_state = "exec" /\ NotFetch /\ irq_active' = irq_active
  BY Zenon DEF ExecWait, ExecBranch, ExecAlu, InExec, KeepIrq
<1>2. CASE ExecWait
  <2>1. /\ mem_do_prefetch' <=> mem_do_prefetch /\ ~mem_done
        /\ mem_do_rinst' => mem_do_prefetch
        /\ latched_rd' = latched_rd
        /\ decoder_pseudo_trigger' = FALSE
        /\ decoder_trigger' <=> mem_do_rinst /\ mem_done
        /\ cpu_state' \in {"exec", "trap"}
    BY <1>2, GotoStep, Zenon DEF ExecWait, Request, KeepLatches, KeepRd, Trigger
  <2>2. ~mem_do_rinst
    <3>1. alu_wait \/ alu_wait_2  BY <1>2, Zenon DEF ExecWait, Waiting
    <3>2. QED  BY <1>1, <3>1 DEF CoreInv, IInv, CpuInv, OperandInv
  <2>3. ~mem_done
    BY <1>1, <2>2, ExecCycle
  <2>4. QED  BY <1>1, <2>1, <2>2, <2>3, SMT DEF ExecMove
<1>3. CASE ExecBranch
  <2>1. /\ mem_do_prefetch' <=> mem_do_prefetch /\ ~mem_done
        /\ latched_rd' = [reg |-> "x0", at |-> Word(X)]
        /\ decoder_pseudo_trigger' = FALSE
        /\ decoder_trigger' <=> mem_do_rinst /\ mem_done /\ ~BranchTaken
        /\ latched_branch' <=> BranchTaken
        /\ latched_stalu' = latched_stalu
        /\ is_branch
        /\ cpu_state' \in {IF mem_done THEN "fetch" ELSE "exec", "trap"}
    BY <1>3, GotoStep, Zenon DEF ExecBranch, Request, BranchTrigger
  <2>2. mem_do_prefetch /\ ~latched_stalu
    BY <1>1, <2>1, SMT DEF PipeInv, TargetInv, Prefetches, is_branch, CoreInv, TInv, PcInv
  <2>3. latched_rd'.reg # "rd"
    BY <2>1, SMT
  <2>4. QED  BY <1>1, <2>1, <2>2, <2>3, SMT DEF ExecMove
<1>4. CASE ExecAlu
  <2>1. /\ mem_do_prefetch' <=> mem_do_prefetch /\ ~mem_done
        /\ mem_do_rinst' => mem_do_rinst
        /\ latched_rd' = latched_rd
        /\ decoder_pseudo_trigger' = FALSE
        /\ decoder_trigger' <=> mem_do_rinst /\ mem_done
        /\ latched_branch' <=> dec1.op = "jalr"
        /\ cpu_state' \in {"fetch", "trap"}
    BY <1>4, GotoStep, Zenon DEF ExecAlu, KeepRequest, Request, KeepLatches, KeepRd, Trigger
  <2>2. QED  BY <1>1, <2>1, SMT DEF ExecMove
<1>5. QED  BY <1>2, <1>3, <1>4
-------------------------------------------------------------------------------
(* cpu_state_stmem, cpu_state_ldmem *)

LEMMA DataCycle ==
  ASSUME CoreInv, PipeInv, cpu_state \in InData, NotFetch
  PROVE  /\ config' = config /\ decoder_trigger_q' = decoder_trigger
         /\ dec2' = IF decoder_trigger THEN Stage2(mem_rdata_q) ELSE dec2
         /\ decoder_trigger => ~mem_do_prefetch /\ ~mem_done
         /\ reg_pc' = reg_pc /\ reg_next_pc' = reg_next_pc /\ reg_next_pc = Plus4(reg_pc)
         /\ irq_state = 0 /\ irq_state' = 0 /\ do_waitirq' = FALSE
         /\ mem_do_rinst <=> mem_do_prefetch
         /\ mem_done => mem_state' = 0
         /\ mem_do_prefetch /\ ~mem_done => mem_state' # 0
         /\ ~(mem_do_prefetch /\ mem_done) => dec1' = dec1
         /\ mem_do_prefetch /\ mem_done =>
              /\ dec1' = mem_rdata_q'
              /\ dec1'.at = Word(reg_next_pc) /\ dec1'.op \in config.Ops
         /\ FlowInv' /\ ~latched_branch
<1> USE DEF Busy, Executing, InData
<1>1. /\ Every /\ do_waitirq' = FALSE
      /\ reg_pc' = reg_pc /\ reg_next_pc' = reg_next_pc /\ irq_state' = irq_state
  BY Zenon DEF NotFetch
<1>2. irq_state = 0 /\ reg_next_pc = Plus4(reg_pc) /\ (mem_do_rinst <=> mem_do_prefetch)
  BY SMT DEF CoreInv, IInv, CpuInv, OperandInv, PipeInv, EntryInv, TargetInv
<1>3. ~latched_branch /\ ~trap
  BY SMT DEF CoreInv, IInv, CpuInv, TrapInv, TInv, PcInv
<1>4. decoder_trigger => ~mem_do_prefetch /\ ~mem_done /\ ~decoder_pseudo_trigger
  BY <1>3, SMT DEF PipeInv, TriggerInv, TargetInv, CoreInv, IInv, BusInv, ValidInv, mem_done, mem_xfer
<1>5. FlowInv'
  BY <1>1, <1>3, FlowStep, SMT DEF PipeInv, next_pc
<1>6. /\ config' = config /\ decoder_trigger_q' = decoder_trigger
      /\ dec2' = IF decoder_trigger THEN Stage2(mem_rdata_q) ELSE dec2
      /\ mem_done => mem_state' = 0
      /\ mem_do_prefetch /\ ~mem_done => mem_state' # 0
      /\ ~(mem_do_prefetch /\ mem_done) => dec1' = dec1
      /\ mem_do_prefetch /\ mem_done =>
           /\ dec1' = mem_rdata_q'
           /\ dec1'.at = Word(reg_next_pc) /\ dec1'.op \in config.Ops
  BY <1>1, <1>2, <1>4, Cycle, SMT DEF PipeInv
<1>7. QED  BY <1>1, <1>2, <1>3, <1>4, <1>5, <1>6, Zenon

\* The step that finishes the transfer, and the others.
DataMove ==
  /\ NotFetch
  /\ mem_do_prefetch' <=> mem_do_prefetch /\ ~mem_done
  /\ UNCHANGED <<latched_branch, latched_rd, irq_active>>
  /\ \/ /\ ~mem_do_prefetch /\ mem_done
        /\ decoder_trigger' /\ decoder_pseudo_trigger'
        /\ cpu_state' \in {"fetch", "trap"}
     \/ /\ mem_do_prefetch \/ ~mem_done
        /\ decoder_trigger' <=> mem_do_rinst /\ mem_done
        /\ ~decoder_pseudo_trigger'
        /\ cpu_state' \in {cpu_state, "trap"}

LEMMA DataPipe ==
  ASSUME CoreInv, PipeInv, cpu_state \in InData, DataMove
  PROVE  PipeInv'
<1> USE DEF Busy, Executing, InData
<1>1. /\ config' = config /\ decoder_trigger_q' = decoder_trigger
      /\ dec2' = IF decoder_trigger THEN Stage2(mem_rdata_q) ELSE dec2
      /\ decoder_trigger => ~mem_do_prefetch /\ ~mem_done
      /\ reg_pc' = reg_pc /\ reg_next_pc' = reg_next_pc /\ reg_next_pc = Plus4(reg_pc)
      /\ irq_state = 0 /\ irq_state' = 0 /\ do_waitirq' = FALSE
      /\ mem_do_rinst <=> mem_do_prefetch
      /\ mem_done => mem_state' = 0
      /\ mem_do_prefetch /\ ~mem_done => mem_state' # 0
      /\ ~(mem_do_prefetch /\ mem_done) => dec1' = dec1
      /\ mem_do_prefetch /\ mem_done =>
           /\ dec1' = mem_rdata_q'
           /\ dec1'.at = Word(reg_next_pc) /\ dec1'.op \in config.Ops
      /\ FlowInv' /\ ~latched_branch
  BY DataCycle DEF DataMove
<1>2. EntryInv'
  BY <1>1, SMT DEF EntryInv, PipeInv, DataMove, ENABLE_IRQ
<1>3. TriggerInv'
  BY <1>1, SMT DEF TriggerInv, DataMove
<1>4. TargetInv'
  BY <1>1, SMT DEF TargetInv, DataMove
<1>5. DecodeInv'
  <2>1. ~mem_do_prefetch => /\ dec1.at = Word(reg_next_pc) /\ dec1.op \in config.Ops
                            /\ dec2' = dec1
    <3>1. decoder_trigger /\ mem_rdata_q = dec1 => Stage2(mem_rdata_q) = dec1
      BY Zenon DEF Stage2
    <3>2. QED  BY <1>1, <3>1, Zenon DEF PipeInv, DecodeInv
  <2>2. mem_do_prefetch => dec2.at = Word(reg_pc)
    BY DEF PipeInv, DecodeInv
  <2>3. QED  BY <1>1, <2>1, <2>2, SMT DEF DecodeInv, DataMove
<1>6. DestInv'
  BY <1>1, SMT DEF DestInv, PipeInv, DataMove
<1>7. StopInv'
  BY <1>1, SMT DEF StopInv, DataMove
<1>8. QED  BY <1>1, <1>2, <1>3, <1>4, <1>5, <1>6, <1>7 DEF PipeInv

LEMMA DataActions ==
  ASSUME StMem \/ LdMem
  PROVE  DataMove /\ cpu_state \in InData
<1>1. PICK s \in InData :
        LET requested == IF s = "stmem" THEN mem_do_wdata ELSE mem_do_rdata
            set == IF s = "stmem" THEN "wdata" ELSE "rdata"
        IN  \/ MemWaitFetch(s) \/ MemRequest(s, requested, set)
            \/ MemWaitData(s, requested) \/ MemFinish(s, requested, set)
  BY Zenon DEF StMem, LdMem, InData
<1> DEFINE requested == IF s = "stmem" THEN mem_do_wdata ELSE mem_do_rdata
           set == IF s = "stmem" THEN "wdata" ELSE "rdata"
<1>2. cpu_state = s /\ NotFetch /\ UNCHANGED <<latched_branch, latched_rd, irq_active>>
  BY <1>1, Zenon DEF MemWaitFetch, MemRequest, MemWaitData, MemFinish, InMem, KeepRd, KeepIrq
<1>3. mem_do_prefetch' <=> mem_do_prefetch /\ ~mem_done
  BY <1>1, Zenon DEF MemWaitFetch, MemRequest, MemWaitData, MemFinish, KeepRequest, Request
<1>4. CASE MemWaitFetch(s) \/ MemRequest(s, requested, set) \/ MemWaitData(s, requested)
  <2>1. mem_do_prefetch \/ ~mem_done
    BY <1>4, Zenon DEF MemWaitFetch, MemRequest, MemWaitData, PrefetchOver
  <2>2. QED
    BY <1>2, <1>3, <1>4, <2>1, GotoStep, Zenon DEF MemWaitFetch, MemRequest, MemWaitData, Trigger, DataMove
<1>5. CASE MemFinish(s, requested, set)
  BY <1>2, <1>3, <1>5, GotoStep, Zenon DEF MemFinish, DataMove
<1>6. QED  BY <1>1, <1>2, <1>4, <1>5
-------------------------------------------------------------------------------
(* cpu_state_fetch *)

\* What every step of this state does; with an instruction at hand the
\* interface is idle and the program counter is that of the instruction.
LEMMA FetchCycle ==
  ASSUME CoreInv, PipeInv, FetchCommon
  PROVE  /\ cpu_state = "fetch" /\ config' = config /\ reg_pc' = current_pc
         /\ decoder_trigger_q' = decoder_trigger
         /\ decoder_pseudo_trigger_q' = decoder_pseudo_trigger
         /\ decoder_trigger' <=> mem_do_rinst /\ mem_done
         /\ decoder_pseudo_trigger' = FALSE
         /\ ~mem_do_rdata /\ ~mem_do_wdata
         /\ mem_do_rinst /\ mem_done =>
              /\ mem_state \in {1, 3} /\ dec1' = mem_rdata_q'
              /\ dec1'.at = Word(reg_next_pc) /\ dec1'.op \in config.Ops
         /\ decoder_trigger \/ do_waitirq =>
              /\ Silent /\ ~mem_done /\ irq_state = 0 /\ current_pc = reg_next_pc
              /\ dec1.at = Word(reg_next_pc)
         /\ Silent => ~mem_done /\ mem_state' = 0 /\ dec1' = dec1
         /\ decoder_trigger => dec2' = dec1
         /\ mem_state \in {1, 3} => current_pc = reg_next_pc
         /\ mem_state = 0 /\ (mem_do_prefetch \/ mem_do_rinst) => next_pc = current_pc
<1>1. /\ cpu_state = "fetch" /\ Every /\ reg_pc' = current_pc
      /\ decoder_trigger' <=> mem_do_rinst /\ mem_done
      /\ decoder_pseudo_trigger' = FALSE
  BY Zenon DEF FetchCommon, InFetch, Trigger
<1>2. /\ config' = config /\ Memory /\ ~trap
      /\ decoder_trigger_q' = decoder_trigger
      /\ decoder_pseudo_trigger_q' = decoder_pseudo_trigger
      /\ dec2' = IF decoder_trigger /\ ~decoder_pseudo_trigger THEN Stage2(mem_rdata_q) ELSE dec2
      /\ ~(mem_do_rinst /\ mem_done) => dec1' = dec1
      /\ mem_do_rinst /\ mem_done =>
           /\ mem_state \in {1, 3} /\ dec1' = mem_rdata_q'
           /\ dec1'.at = Word(reg_next_pc) /\ dec1'.op \in config.Ops
  BY <1>1, Cycle, SMT DEF PipeInv
<1>3. Silent => ~mem_done /\ mem_state' = 0 /\ dec1' = dec1
  BY <1>2, MemDone DEF CoreInv, IInv
<1>4. ~mem_do_rdata /\ ~mem_do_wdata
  BY <1>1, SMT DEF CoreInv, IInv, CpuInv, DataInv
<1>5. irq_state = 0 \/ (Silent /\ irq_state = 1) \/ (irq_state # 1 /\ ~latched_branch)
  BY <1>1 DEF PipeInv, EntryInv
<1>6. /\ mem_state \in {1, 3} => current_pc = reg_next_pc
      /\ mem_state = 0 /\ (mem_do_prefetch \/ mem_do_rinst) => next_pc = current_pc
  BY <1>1, <1>5, SMT DEF current_pc, next_pc, Silent, PipeInv, TargetInv
<1>7. ASSUME decoder_trigger \/ do_waitirq
      PROVE  /\ Silent /\ irq_state = 0 /\ current_pc = reg_next_pc
             /\ dec1.at = Word(reg_next_pc)
  <2>1. Silent  BY <1>1, <1>7 DEF CoreInv, IInv, CpuInv, FetchInv
  <2>2. irq_state = 0  BY <1>1, <1>7, Zenon DEF PipeInv, EntryInv
  <2>3. ~(latched_branch /\ latched_store)  BY <1>1, <1>7, Zenon DEF PipeInv, TargetInv
  <2>4. current_pc = reg_next_pc  BY <2>2, <2>3, SMT DEF current_pc
  <2>5. dec1.at = Word(reg_next_pc)  BY <1>1, <1>7, Zenon DEF PipeInv, DecodeInv
  <2>6. QED  BY <2>1, <2>2, <2>4, <2>5
<1>8. ASSUME decoder_trigger  PROVE  dec2' = dec1
  <2>1. (IF decoder_pseudo_trigger THEN dec2 ELSE mem_rdata_q) = dec1
    BY <1>1, <1>8, Zenon DEF PipeInv, DecodeInv
  <2>2. ~decoder_pseudo_trigger => Stage2(mem_rdata_q) = mem_rdata_q
    BY <2>1, Zenon DEF Stage2
  <2>3. QED  BY <1>2, <1>8, <2>1, <2>2, Zenon
<1>9. QED  BY <1>1, <1>2, <1>3, <1>4, <1>6, <1>7, <1>8, Zenon

\* A step that stays here: what it does to the latches and the requests.
FetchMove ==
  /\ FetchCommon
  /\ cpu_state' \in {"fetch", "trap"}
  /\ reg_next_pc' = current_pc \/ decoder_trigger \/ do_waitirq
  /\ ~(latched_branch' /\ latched_store')
  /\ latched_store' => (decoder_trigger \/ do_waitirq) /\ latched_rd' = Rd(dec1)
  /\ do_waitirq' => /\ decoder_trigger \/ do_waitirq
                    /\ dec1.op = "waitirq" /\ ENABLE_IRQ /\ ~latched_store'
                    /\ reg_next_pc' = current_pc /\ irq_state' = 0
  /\ decoder_trigger => irq_state' = 1 \/ dec1.op # "ebreak"

\* The interrupt sequence stands still, or goes one cycle on.
EntryStill == irq_state = 0 /\ irq_state' = 0 /\ (irq_active' <=> irq_active)
EntryMove ==
  /\ ENABLE_IRQ /\ (irq_state # 0 \/ (decoder_trigger /\ ~irq_active))
  /\ irq_state' = (irq_state + 1) % 3
  /\ irq_active' <=> irq_active \/ irq_state = 1
  /\ ~latched_branch' /\ ~latched_store' /\ ~do_waitirq'
  /\ reg_next_pc' = current_pc
  /\ mem_do_prefetch' => mem_do_prefetch
  /\ irq_state = 0 => ~mem_do_rinst'
  /\ ~mem_do_rdata' /\ ~mem_do_wdata'

LEMMA FetchPipe ==
  ASSUME CoreInv, PipeInv, FetchMove, EntryStill \/ EntryMove
  PROVE  PipeInv'
<1> USE DEF Busy, Executing, InData
<1>1. /\ cpu_state = "fetch" /\ config' = config /\ reg_pc' = current_pc
      /\ decoder_trigger_q' = decoder_trigger
      /\ decoder_pseudo_trigger_q' = decoder_pseudo_trigger
      /\ decoder_trigger' <=> mem_do_rinst /\ mem_done
      /\ decoder_pseudo_trigger' = FALSE
      /\ mem_do_rinst /\ mem_done =>
           /\ mem_state \in {1, 3} /\ dec1' = mem_rdata_q'
           /\ dec1'.at = Word(reg_next_pc) /\ dec1'.op \in config.Ops
      /\ decoder_trigger \/ do_waitirq =>
           /\ Silent /\ ~mem_done /\ irq_state = 0 /\ current_pc = reg_next_pc
           /\ dec1.at = Word(reg_next_pc)
      /\ Silent => ~mem_done /\ mem_state' = 0 /\ dec1' = dec1
      /\ decoder_trigger => dec2' = dec1
      /\ mem_state \in {1, 3} => current_pc = reg_next_pc
      /\ mem_state = 0 /\ (mem_do_prefetch \/ mem_do_rinst) => next_pc = current_pc
  BY FetchCycle DEF FetchMove
<1>2. FlowInv'
  <2>1. Every  BY Zenon DEF FetchMove, FetchCommon, InFetch
  <2>2. mem_state \in {1, 3} => reg_next_pc' = reg_next_pc
    BY <1>1, SMT DEF FetchMove, Silent
  <2>3. mem_state = 0 /\ (mem_do_prefetch \/ mem_do_rinst) => next_pc = reg_next_pc'
    BY <1>1, SMT DEF FetchMove, Silent
  <2>4. QED  BY <1>1, <2>1, <2>2, <2>3, FlowStep DEF PipeInv
<1>3. EntryInv'
  <2>1. CASE EntryStill
    BY <2>1, <1>1, SMT DEF EntryInv, EntryStill, PipeInv, ENABLE_IRQ
  <2>2. CASE EntryMove /\ irq_state = 0
    <3>1. /\ irq_state' = 1 /\ ~irq_active' /\ decoder_trigger
          /\ Silent /\ ~mem_done /\ mem_state' = 0 /\ dec1' = dec1
          /\ reg_next_pc' = reg_next_pc
      BY <1>1, <2>2, SMT DEF EntryMove
    <3>2. Silent'  BY <2>2, <3>1, Zenon DEF EntryMove, Silent
    <3>3. QED  BY <1>1, <2>2, <3>1, <3>2, SMT DEF EntryInv, EntryMove, FetchMove, ENABLE_IRQ
  <2>3. CASE EntryMove /\ irq_state = 1
    <3>1. irq_state' = 2 /\ irq_active'  BY <2>3, SMT DEF EntryMove
    <3>2. Silent  BY <2>3, SMT DEF PipeInv, EntryInv
    <3>3. QED  BY <1>1, <2>3, <3>1, <3>2, SMT DEF EntryInv, EntryMove, FetchMove, ENABLE_IRQ
  <2>4. CASE EntryMove /\ irq_state = 2
    <3>1. irq_state' = 0  BY <2>4, SMT DEF EntryMove
    <3>2. QED  BY <1>1, <2>4, <3>1, SMT DEF EntryInv, EntryMove, ENABLE_IRQ
  <2>5. irq_state \in {0, 1, 2}
    BY SMT DEF CoreInv, TInv, TypeOK, IrqTypeOK
  <2>6. QED  BY <2>1, <2>2, <2>3, <2>4, <2>5
<1>4. TriggerInv'
  BY <1>1, SMT DEF TriggerInv, FetchMove
<1>5. TargetInv'
  BY <1>1, SMT DEF TargetInv, FetchMove
<1>6. DecodeInv'
  <2>1. decoder_trigger' => reg_next_pc' = reg_next_pc
    BY <1>1, SMT DEF FetchMove, Silent
  <2>2. do_waitirq' => /\ dec1'.at = Word(reg_next_pc') /\ dec1'.op = "waitirq"
                       /\ ENABLE_IRQ' /\ irq_state' = 0 /\ ~latched_store'
    BY <1>1, SMT DEF FetchMove, ENABLE_IRQ
  <2>3. QED  BY <1>1, <2>1, <2>2, SMT DEF DecodeInv, FetchMove
<1>7. DestInv'
  BY <1>1, SMT DEF DestInv, FetchMove, Rd
<1>8. StopInv'
  BY <1>1, SMT DEF StopInv, FetchMove
<1>9. QED  BY <1>2, <1>3, <1>4, <1>5, <1>6, <1>7, <1>8 DEF PipeInv
\* The four actions that stay in cpu_state_fetch.
LEMMA FetchIrqMove ==
  ASSUME CoreInv, PipeInv, FetchIrq
  PROVE  FetchMove /\ EntryMove
<1> DEFINE r == (~decoder_trigger /\ ~do_waitirq) \/ (IrqArm /\ irq_state = 1)
<1>1. /\ FetchCommon /\ TakeIrq
      /\ reg_next_pc' = current_pc /\ latched_store' = FALSE /\ latched_branch' = FALSE
      /\ irq_state' = (irq_state + 1) % 3
      /\ irq_active' = (irq_active \/ (IrqArm /\ irq_state = 1))
      /\ Request(mem_do_prefetch, r, "none")
      /\ do_waitirq' = FALSE /\ Goto("fetch")
  BY Zenon DEF FetchIrq
<1>2. cpu_state = "fetch" /\ ~mem_do_rdata /\ ~mem_do_wdata
      /\ (decoder_trigger => irq_state = 0)
  BY <1>1, FetchCycle
<1>3. irq_state # 0 => IrqArm
  BY <1>2, Zenon DEF IrqArm, PipeInv, EntryInv
<1>4. irq_state = 0 => r = FALSE
  BY <1>1, SMT DEF TakeIrq
<1>5. /\ mem_do_prefetch' => mem_do_prefetch
      /\ irq_state = 0 => ~mem_do_rinst'
      /\ ~mem_do_rdata' /\ ~mem_do_wdata'
  BY <1>1, <1>2, <1>4, Zenon DEF Request
<1>6. ENABLE_IRQ /\ (irq_state # 0 \/ (decoder_trigger /\ ~irq_active))
  BY <1>1, Zenon DEF TakeIrq
<1>7. irq_active' <=> irq_active \/ irq_state = 1
  <2>1. irq_active' <=> irq_active \/ (IrqArm /\ irq_state = 1)  BY <1>1, Zenon
  <2>2. QED  BY <1>3, <2>1, SMT
<1>8. EntryMove
  BY <1>1, <1>5, <1>6, <1>7, Zenon DEF EntryMove
<1>9. FetchMove
  BY <1>1, <1>2, GotoStep, SMT DEF FetchMove
<1>10. QED  BY <1>8, <1>9

LEMMA FetchWaitirqMove ==
  ASSUME CoreInv, PipeInv, FetchWaitirq
  PROVE  FetchMove /\ EntryStill
<1>1. /\ FetchCommon /\ WaitIrq
      /\ latched_rd' = Rd(dec1) /\ latched_branch' = FALSE
      /\ latched_store' = (irq_pending # {})
      /\ reg_next_pc' = IF irq_pending # {} THEN Plus4(current_pc) ELSE current_pc
      /\ do_waitirq' = (irq_pending = {})
      /\ UNCHANGED <<irq_state, irq_active>> /\ Goto("fetch")
  BY Zenon DEF FetchWaitirq
<1>2. ENABLE_IRQ /\ (decoder_trigger \/ do_waitirq) /\ dec1.op = "waitirq"
  BY <1>1, Zenon DEF WaitIrq
<1>3. irq_state = 0 /\ cpu_state = "fetch"
  BY <1>1, <1>2, FetchCycle
<1>4. do_waitirq' => ~latched_store' /\ reg_next_pc' = current_pc
  BY <1>1, Zenon
<1>5. QED  BY <1>1, <1>2, <1>3, <1>4, GotoStep, SMT DEF FetchMove, EntryStill

LEMMA FetchJalMove ==
  ASSUME CoreInv, PipeInv, FetchJal
  PROVE  FetchMove /\ EntryStill /\ decoder_trigger
<1>1. /\ FetchCommon /\ Launch /\ dec1.op = "jal"
      /\ latched_store' = FALSE /\ do_waitirq' = FALSE
      /\ UNCHANGED <<irq_state, irq_active>> /\ Goto("fetch")
  BY Zenon DEF FetchJal
<1>2. decoder_trigger  BY <1>1, Zenon DEF Launch
<1>3. irq_state = 0  BY <1>1, <1>2, FetchCycle
<1>4. QED  BY <1>1, <1>2, <1>3, GotoStep, SMT DEF FetchMove, EntryStill

LEMMA FetchWaitMove ==
  ASSUME CoreInv, PipeInv, FetchWait
  PROVE  FetchMove /\ EntryStill /\ ~decoder_trigger
<1>1. /\ FetchCommon /\ ~TakeIrq /\ ~WaitIrq /\ ~Launch
      /\ reg_next_pc' = current_pc /\ latched_store' = FALSE /\ do_waitirq' = FALSE
      /\ UNCHANGED <<irq_state, irq_active>> /\ Goto("fetch")
  BY Zenon DEF FetchWait
<1>2. ~decoder_trigger  BY <1>1, Zenon DEF Launch
<1>3. irq_state = 0  BY <1>1, Zenon DEF TakeIrq, PipeInv, EntryInv
<1>4. QED  BY <1>1, <1>2, <1>3, GotoStep, SMT DEF FetchMove, EntryStill

\* An instruction is launched with both decode stages describing it.
LEMMA FetchLaunchPipe ==
  ASSUME CoreInv, PipeInv, FetchLaunch
  PROVE  /\ PipeInv' /\ dec1' = dec1 /\ dec2' = dec1 /\ reg_pc' = reg_next_pc
         /\ current_pc = reg_next_pc /\ decoder_trigger /\ irq_state = 0
         /\ dec1.op \in config.Ops \ {"jal", "waitirq"}
<1> USE DEF Busy, Executing, InData
<1>1. /\ FetchCommon /\ Launch /\ dec1.op # "jal"
      /\ reg_next_pc' = Plus4(current_pc) /\ latched_branch' = FALSE
      /\ latched_rd' = Rd(dec1)
      /\ do_waitirq' = FALSE
      /\ UNCHANGED <<irq_state, irq_active>> /\ Goto("ld_rs1")
  BY Zenon DEF FetchLaunch
<1>2. decoder_trigger /\ ~WaitIrq  BY <1>1, Zenon DEF Launch
<1>3. /\ cpu_state = "fetch" /\ config' = config /\ reg_pc' = current_pc
      /\ Silent /\ ~mem_done /\ mem_state' = 0 /\ irq_state = 0
      /\ decoder_trigger' = FALSE /\ decoder_pseudo_trigger' = FALSE
      /\ current_pc = reg_next_pc /\ dec1.at = Word(reg_next_pc)
      /\ dec1' = dec1 /\ dec2' = dec1
  <2>1. decoder_trigger' <=> mem_do_rinst /\ mem_done
    BY <1>1, FetchCycle
  <2>2. decoder_trigger' = (mem_do_rinst /\ mem_done)
    BY <1>1, Zenon DEF FetchCommon, Trigger
  <2>3. Silent /\ ~mem_done  BY <1>1, <1>2, FetchCycle
  <2>4. decoder_trigger' = FALSE  BY <2>2, <2>3, Zenon
  <2>5. QED  BY <1>1, <1>2, <2>3, <2>4, FetchCycle
<1>4. dec1.op \in config.Ops \ {"jal", "waitirq"}
  <2>1. dec1.op \in config.Ops  BY <1>2, <1>3 DEF PipeInv, DecodeInv
  <2>2. ~ENABLE_IRQ \/ dec1.op # "waitirq"
    <3>1. ENABLE_IRQ /\ dec1.op = "waitirq" => TakeIrq
      BY <1>2, Zenon DEF WaitIrq
    <3>2. ~TakeIrq  BY <1>1, Zenon DEF Launch
    <3>3. QED  BY <3>1, <3>2
  <2>3. "waitirq" \in config.Ops => ENABLE_IRQ
    <3>1. config \in Configs  BY DEF CoreInv, TInv, TypeOK
    <3>2. QED  BY <3>1, ConfigsAssumption, SMT DEF ENABLE_IRQ, IrqOps
  <2>4. QED  BY <1>1, <2>1, <2>2, <2>3
<1>5. cpu_state' \in {"ld_rs1", "trap"}  BY <1>1, GotoStep
<1>6. FlowInv'
  <2>1. Every  BY <1>1, Zenon DEF FetchCommon, InFetch
  <2>2. mem_state \notin {1, 3} /\ ~mem_do_prefetch /\ ~mem_do_rinst
    BY <1>3, SMT DEF Silent
  <2>3. QED  BY <1>3, <2>1, <2>2, FlowStep DEF PipeInv
<1>7. EntryInv'
  BY <1>1, <1>3, SMT DEF EntryInv, PipeInv, ENABLE_IRQ
<1>8. TriggerInv'
  BY <1>3, Zenon DEF TriggerInv
<1>9. TargetInv'
  BY <1>1, <1>3, <1>5, SMT DEF TargetInv
<1>10. DecodeInv'
  BY <1>1, <1>3, <1>4, <1>5, SMT DEF DecodeInv
<1>11. DestInv'
  BY <1>1, <1>3, <1>5, SMT DEF DestInv, Rd
<1>12. StopInv'
  BY <1>5, SMT DEF StopInv
<1>13. QED
  BY <1>2, <1>3, <1>4, <1>6, <1>7, <1>8, <1>9, <1>10, <1>11, <1>12 DEF PipeInv

-------------------------------------------------------------------------------
(* The invariant of the pipeline *)

\* Stopped, the core only remembers that an interrupt was being taken.
LEMMA TrappedPipe ==
  ASSUME CoreInv, PipeInv, Trapped
  PROVE  PipeInv'
<1> USE DEF Busy, Executing, InData
<1>1. /\ cpu_state' = "trap" /\ Every
      /\ UNCHANGED <<reg_next_pc, irq_state, irq_active>>
      /\ decoder_pseudo_trigger' = FALSE
  BY GotoStep, Zenon DEF Trapped, KeepIrq, Trigger
<1>2. config' = config /\ Memory /\ (~(mem_do_rinst /\ mem_done) => dec1' = dec1)
  BY <1>1, EveryStep, Zenon DEF Every
<1>3. irq_state = 1 => Silent' /\ dec1' = dec1
  <2>1. ASSUME Silent  PROVE  ~mem_done /\ mem_state' = 0
    <3>1. CASE trap
      <4>1. mem_state' = mem_state
        BY <1>2, <3>1, Zenon DEF Memory, MemTrapped, MemIdle, MemRead, MemWrite, MemHold
      <4>2. QED  BY <2>1, <4>1, SMT DEF Silent, mem_done
    <3>2. CASE ~trap
      BY <1>2, <2>1, <3>2, MemDone DEF CoreInv, IInv
    <3>3. QED  BY <3>1, <3>2
  <2>2. irq_state = 1 => Silent  BY DEF PipeInv, EntryInv
  <2>3. QED  BY <1>2, <2>1, <2>2, TrappedRequests, Zenon DEF Silent
<1>4. EntryInv'
  BY <1>1, <1>2, <1>3, SMT DEF EntryInv, PipeInv, ENABLE_IRQ
<1>5. QED
  BY <1>1, <1>4, SMT DEF PipeInv, TriggerInv, FlowInv, TargetInv, DecodeInv, DestInv, StopInv

LEMMA ResetPipe ==
  ASSUME Reset
  PROVE  PipeInv'
<1> USE DEF Busy, Executing, InData
<1>1. /\ mem_state' = 0
      /\ mem_do_prefetch' = FALSE /\ mem_do_rinst' = FALSE
      /\ decoder_trigger' = FALSE /\ decoder_pseudo_trigger' = FALSE
      /\ cpu_state' \in {"fetch", "trap"}
      /\ reg_next_pc' = PROGADDR_RESET
      /\ latched_branch' = FALSE
      /\ irq_state' = 0 /\ irq_active' = FALSE /\ do_waitirq' = FALSE
  BY Zenon DEF Reset
<1>2. latched_store' => latched_rd'.reg # "rd"
  <2>1. /\ latched_store' = HAS_STACKADDR
        /\ HAS_STACKADDR => latched_rd' = [reg |-> "sp", at |-> Word(X)]
    BY Zenon DEF Reset
  <2>2. QED  BY <2>1, SMT
<1>3. QED
  BY <1>1, <1>2, SMT DEF PipeInv, EntryInv, TriggerInv, FlowInv, TargetInv, DecodeInv, DestInv, StopInv

LEMMA InitPipe ==
  ASSUME Init
  PROVE  PipeInv
<1> USE DEF Busy, Executing, InData
<1>1. /\ mem_state = 0
      /\ mem_do_prefetch = FALSE /\ mem_do_rinst = FALSE
      /\ decoder_trigger = FALSE /\ decoder_pseudo_trigger = FALSE /\ decoder_trigger_q = FALSE
      /\ cpu_state = "fetch"
      /\ reg_next_pc = PROGADDR_RESET
      /\ latched_branch = FALSE
      /\ irq_state = 0 /\ irq_active = FALSE /\ do_waitirq = FALSE
  BY Zenon DEF Init
<1>2. latched_rd.reg # "rd"
  BY SMT DEF Init
<1>3. QED
  BY <1>1, <1>2, SMT DEF PipeInv, EntryInv, TriggerInv, FlowInv, TargetInv, DecodeInv, DestInv, StopInv

LEMMA StutterPipe ==
  ASSUME PipeInv, UNCHANGED vars
  PROVE  PipeInv'
<1>1. /\ UNCHANGED memVars /\ UNCHANGED reqVars /\ UNCHANGED decVars /\ UNCHANGED cpuVars
      /\ UNCHANGED latVars /\ UNCHANGED irqVars /\ config' = config
  BY Zenon DEF vars
<1> USE <1>1 DEF memVars, reqVars, decVars, cpuVars, latVars, irqVars
<1>2. EntryInv' /\ TriggerInv' /\ FlowInv' /\ StopInv'
  BY Zenon DEF PipeInv, EntryInv, TriggerInv, FlowInv, StopInv, Silent, ENABLE_IRQ
<1>3. TargetInv' /\ DecodeInv' /\ DestInv'
  BY Zenon DEF PipeInv, TargetInv, DecodeInv, DestInv, Prefetches, ENABLE_IRQ
<1>4. QED  BY <1>2, <1>3 DEF PipeInv

\* Every step is of one of these kinds.
LEMMA StepKind ==
  ASSUME CoreInv, PipeInv, Step
  PROVE  \/ FetchMove /\ (EntryStill \/ EntryMove)
         \/ FetchLaunch
         \/ cpu_state \in Operands /\ OperandMove
         \/ cpu_state = "exec" /\ ExecMove
         \/ cpu_state \in InData /\ DataMove
         \/ Trapped
<1>1. CASE FetchIrq \/ FetchWaitirq \/ FetchJal \/ FetchWait
  BY <1>1, FetchIrqMove, FetchWaitirqMove, FetchJalMove, FetchWaitMove
<1>2. CASE LdRs1Read \/ LdRs1Retirq \/ LdRs1Maskirq \/ LdRs1Timer
  BY <1>2, ReadMove
<1>3. CASE \/ LdRs1Illegal \/ LdRs1Load \/ LdRs1Shift \/ LdRs1Imm \/ LdRs1Default
           \/ LdRs2Dispatch
  BY <1>3, OtherMove
<1>4. CASE LdRs1Pcpi \/ LdRs2Pcpi  BY <1>4, PcpiMove
<1>5. CASE Shift  BY <1>5, ShiftMove
<1>6. CASE ExecWait \/ ExecBranch \/ ExecAlu  BY <1>6, ExecActions
<1>7. CASE StMem \/ LdMem  BY <1>7, DataActions
<1>8. QED
  BY <1>1, <1>2, <1>3, <1>4, <1>5, <1>6, <1>7 DEF Step

\* The actions of three of the states.
LEMMA OthersQuiet ==
  ASSUME CoreInv, PipeInv, cpu_state \in {"fetch", "exec", "trap"}
  PROVE  ~(LdRs1Read \/ LdRs1Retirq \/ LdRs1Maskirq \/ LdRs1Timer \/ LdRs1Illegal \/ LdRs1Load
           \/ LdRs1Shift \/ LdRs1Imm \/ LdRs1Default \/ LdRs2Dispatch \/ LdRs1Pcpi \/ LdRs2Pcpi
           \/ Shift \/ StMem \/ LdMem)
<1>1. ~(cpu_state \in Operands) /\ ~(cpu_state \in InData)
  BY SMT DEF Operands, InData
<1>2. QED  BY <1>1, ReadMove, OtherMove, PcpiMove, ShiftMove, DataActions

LEMMA FetchSteps ==
  ASSUME CoreInv, PipeInv, Step, cpu_state = "fetch"
  PROVE  FetchIrq \/ FetchWaitirq \/ FetchJal \/ FetchLaunch \/ FetchWait
<1>1. ~(ExecWait \/ ExecBranch \/ ExecAlu \/ Trapped)
  BY Zenon DEF ExecWait, ExecBranch, ExecAlu, InExec, Trapped
<1>2. QED  BY <1>1, OthersQuiet DEF Step

LEMMA ExecSteps ==
  ASSUME CoreInv, PipeInv, Step, cpu_state = "exec"
  PROVE  ExecWait \/ ExecBranch \/ ExecAlu
<1>1. ~(FetchIrq \/ FetchWaitirq \/ FetchJal \/ FetchWait \/ FetchLaunch \/ Trapped)
  BY Zenon DEF FetchIrq, FetchWaitirq, FetchJal, FetchWait, FetchLaunch, FetchCommon, InFetch, Trapped
<1>2. QED  BY <1>1, OthersQuiet DEF Step

LEMMA TrappedSteps ==
  ASSUME CoreInv, PipeInv, Step, cpu_state = "trap"
  PROVE  Trapped
<1>1. ~(FetchIrq \/ FetchWaitirq \/ FetchJal \/ FetchWait \/ FetchLaunch)
  BY Zenon DEF FetchIrq, FetchWaitirq, FetchJal, FetchWait, FetchLaunch, FetchCommon, InFetch
<1>2. ~(ExecWait \/ ExecBranch \/ ExecAlu)
  BY Zenon DEF ExecWait, ExecBranch, ExecAlu, InExec
<1>3. QED  BY <1>1, <1>2, OthersQuiet DEF Step

LEMMA StepPipe ==
  ASSUME CoreInv, PipeInv, Step
  PROVE  PipeInv'
BY StepKind, FetchPipe, FetchLaunchPipe, OperandPipe, ExecPipe, DataPipe, TrappedPipe

LEMMA StepCore ==
  ASSUME CoreInv, PipeInv, [Next]_vars
  PROVE  CoreInv' /\ PipeInv'
<1>1. CoreInv'
  BY StepInv, ResetInv, StutterInv, StepType, ResetType, StutterType DEF Next, CoreInv
<1>2. QED  BY <1>1, StepPipe, ResetPipe, StutterPipe DEF Next

\* The invariant of the pipeline holds in every reachable state, for every
\* setting of the core, every program and every timing of the memory.
THEOREM PipelineInvariant == Spec => [](CoreInv /\ PipeInv)
<1>1. Init => CoreInv /\ PipeInv
  BY InitInv, InitType, InitPipe DEF CoreInv
<1>2. CoreInv /\ PipeInv /\ [Next]_vars => CoreInv' /\ PipeInv'
  BY StepCore
<1>3. QED  BY <1>1, <1>2, PTL DEF Spec

\* An interrupt returns to the instruction it pushed back, and entries do not
\* nest.
THEOREM ReturnsToNext == Spec => []ReturnAddress
<1>1. PipeInv => ReturnAddress
  BY DEF PipeInv, EntryInv, ReturnAddress
<1>2. QED  BY <1>1, PipelineInvariant, PTL

\* While an instruction executes both decode stages describe it, and its result
\* goes to its own destination register.
THEOREM ExecutesCoherently == Spec => []ExecuteCoherent
<1>1. PipeInv => ExecuteCoherent
  BY DEF PipeInv, DecodeInv, DestInv, ExecuteCoherent, Executing, InData
<1>2. QED  BY <1>1, PipelineInvariant, PTL

-------------------------------------------------------------------------------
(* The time-out of the co-processor port *)

\* The counter is full, and the verdict clear, whenever an instruction may be
\* offered to the co-processors in the next cycle.
PcpiInv ==
  /\ ~(WITH_PCPI /\ CATCH_ILLINSN) => pcpi_timeout_counter = MaxTimeout /\ ~pcpi_timeout
  /\ ~pcpi_valid =>
       /\ cpu_state \in Busy => pcpi_timeout_counter = MaxTimeout /\ ~pcpi_timeout
       /\ cpu_state = "fetch" /\ decoder_trigger => pcpi_timeout_counter = MaxTimeout

LEMMA PcpiCycle ==
  ASSUME PcpiInv, Every
  PROVE  /\ ~pcpi_valid => pcpi_timeout_counter' = MaxTimeout
         /\ pcpi_timeout_counter = MaxTimeout => ~pcpi_timeout'
         /\ ~(WITH_PCPI /\ CATCH_ILLINSN)' => pcpi_timeout_counter' = MaxTimeout /\ ~pcpi_timeout'
<1>1. PcpiTimeout /\ config' = config  BY DEF Every
<1>2. CASE WITH_PCPI /\ CATCH_ILLINSN
  <2>1. (WITH_PCPI /\ CATCH_ILLINSN)'
    BY <1>1, <1>2, Zenon DEF WITH_PCPI, CATCH_ILLINSN
  <2>2. PICK wait \in BOOLEAN : pcpi_timeout_counter' = PcpiCount(wait)
    BY <1>1, <1>2, Zenon DEF PcpiTimeout
  <2>3. ~pcpi_valid => pcpi_timeout_counter' = MaxTimeout
    BY <2>2, Zenon DEF PcpiCount
  <2>4. pcpi_timeout' = (pcpi_timeout_counter = 0)
    BY <1>1, <1>2, Zenon DEF PcpiTimeout
  <2>5. MaxTimeout # 0  BY BoundsAssumption
  <2>6. pcpi_timeout_counter = MaxTimeout => ~pcpi_timeout'
    BY <2>4, <2>5, Zenon
  <2>7. QED  BY <2>1, <2>3, <2>6
<1>3. CASE ~(WITH_PCPI /\ CATCH_ILLINSN)
  BY <1>1, <1>3, Zenon DEF PcpiTimeout, PcpiInv
<1>4. QED  BY <1>2, <1>3

\* An instruction begins only when it was reported decoded.
LEMMA BusyFrom ==
  ASSUME CoreInv, PipeInv, Step, cpu_state' \in Busy
  PROVE  cpu_state \in Busy \/ (cpu_state = "fetch" /\ decoder_trigger)
<1> USE DEF Busy, Executing, InData, Operands
<1>1. ~FetchMove  BY SMT DEF FetchMove
<1>2. CASE FetchLaunch
  <2>1. cpu_state = "fetch"  BY <1>2, Zenon DEF FetchLaunch, FetchCommon, InFetch
  <2>2. QED  BY <1>2, <2>1, FetchLaunchPipe
<1>3. ~Trapped
  <2>1. Trapped => cpu_state' = "trap"  BY GotoStep, Zenon DEF Trapped
  <2>2. QED  BY <2>1
<1>4. QED  BY <1>1, <1>2, <1>3, StepKind

\* The request to the co-processors is only taken back at the end of the
\* instruction.
LEMMA PcpiFalls ==
  ASSUME CoreInv, PipeInv, Step
  PROVE  Every /\ (~pcpi_valid' => ~pcpi_valid \/ (cpu_state' \notin Busy /\ ~decoder_trigger'))
<1>1. Every /\ (pcpi_valid' = pcpi_valid \/ LdRs1Pcpi \/ LdRs2Pcpi)
  BY Zenon DEF Step, FetchIrq, FetchWaitirq, FetchJal, FetchLaunch, FetchWait, FetchCommon, InFetch, LdRs1Read, LdRs1Retirq, LdRs1Maskirq, LdRs1Timer, LdRs1Pcpi, LdRs1Illegal, LdRs1Load, LdRs1Shift, LdRs1Imm, LdRs1Default, InLdRs1, LdRs2Pcpi, LdRs2Dispatch, InLdRs2, Shift, ExecWait, ExecBranch, ExecAlu, InExec, StMem, LdMem, MemWaitFetch, MemRequest, MemWaitData, MemFinish, InMem, NotFetch, Trapped
<1>2. ASSUME LdRs1Pcpi \/ LdRs2Pcpi, ~pcpi_valid', pcpi_valid
      PROVE  cpu_state' \notin Busy /\ ~decoder_trigger'
  <2>1. cpu_state \in Operands /\ OperandMove  BY <1>2, PcpiMove
  <2>2. decoder_trigger' = FALSE  BY <2>1, OperandCycle DEF OperandMove
  <2>3. Goto("fetch") \/ Goto("trap")
    BY <1>2, Zenon DEF LdRs1Pcpi, LdRs2Pcpi, Pcpi, Illegal
  <2>4. cpu_state' \in {"fetch", "trap"}  BY <2>3, GotoStep
  <2>5. QED  BY <2>2, <2>4, SMT DEF Busy, Executing, InData
<1>3. CASE pcpi_valid' = pcpi_valid  BY <1>1, <1>3
<1>4. QED  BY <1>1, <1>2, <1>3

\* Every instruction offered to the co-processors gets the whole time-out: no
\* remainder of an earlier one, no stale verdict.
THEOREM PcpiTimeoutIsWhole == Spec => []PcpiBudget
<1>1. Init => PcpiInv
  BY SMT DEF Init, PcpiInv, Busy, Executing, InData
<1>2. CoreInv /\ PipeInv /\ PcpiInv /\ [Next]_vars => PcpiInv'
  <2> SUFFICES ASSUME CoreInv, PipeInv, PcpiInv, [Next]_vars  PROVE  PcpiInv'
    OBVIOUS
  <2>1. CASE Step
    <3>1. cpu_state' \in Busy => cpu_state \in Busy \/ (cpu_state = "fetch" /\ decoder_trigger)
      BY <2>1, BusyFrom
    <3>2. /\ Every /\ (~pcpi_valid' => ~pcpi_valid \/ (cpu_state' \notin Busy /\ ~decoder_trigger'))
          /\ ~pcpi_valid => pcpi_timeout_counter' = MaxTimeout
          /\ pcpi_timeout_counter = MaxTimeout => ~pcpi_timeout'
          /\ ~(WITH_PCPI /\ CATCH_ILLINSN)' => pcpi_timeout_counter' = MaxTimeout /\ ~pcpi_timeout'
      BY <2>1, PcpiFalls, PcpiCycle
    <3>3. QED  BY <3>1, <3>2, Zenon DEF PcpiInv
  <2>2. CASE Reset
    BY <2>2, Zenon DEF Reset, PcpiInv
  <2>3. CASE UNCHANGED vars
    <3>1. /\ UNCHANGED pcpiVars /\ UNCHANGED cpuVars /\ UNCHANGED decVars /\ config' = config
      BY <2>3, Zenon DEF vars
    <3>2. QED
      BY <3>1, Zenon DEF pcpiVars, cpuVars, decVars, PcpiInv, WITH_PCPI, CATCH_ILLINSN
  <2>4. QED  BY <2>1, <2>2, <2>3 DEF Next
<1>3. PcpiInv => PcpiBudget
  BY DEF PcpiInv, PcpiBudget, Busy, Executing
<1>4. QED  BY <1>1, <1>2, <1>3, PipelineInvariant, PTL DEF Spec
-------------------------------------------------------------------------------
(* Loads and stores *)

WriteInv == mem_state = 2 => ~mem_instr

LEMMA WriteStep ==
  ASSUME WriteInv, Memory
  PROVE  WriteInv'
<1>1. CASE MemIdle
  <2>1. /\ mem_state' = IF mem_do_wdata THEN 2
                        ELSE IF mem_do_prefetch \/ mem_do_rinst \/ mem_do_rdata THEN 1 ELSE 0
        /\ mem_instr' <=> /\ ~mem_do_wdata
                          /\ mem_do_prefetch \/ mem_do_rinst \/ (mem_instr /\ ~mem_do_rdata)
    BY <1>1, Zenon DEF MemIdle
  <2>2. QED  BY <2>1, SMT DEF WriteInv
<1>2. CASE MemRead  BY <1>2, SMT DEF MemRead, AfterRead, WriteInv
<1>3. CASE MemWrite  BY <1>3, Zenon DEF MemWrite, WriteInv
<1>4. CASE MemHold  BY <1>4, SMT DEF MemHold, WriteInv
<1>5. CASE MemTrapped  BY <1>5, Zenon DEF MemTrapped, WriteInv
<1>6. QED  BY <1>1, <1>2, <1>3, <1>4, <1>5 DEF Memory

\* A data transfer that ends is the one its load or store waits for.
LEMMA DataTransfer ==
  ASSUME CoreInv, PipeInv, WriteInv, cpu_state # "trap"
  PROVE  /\ mem_xfer /\ ~mem_instr => cpu_state \in InData /\ ~mem_do_prefetch /\ mem_done
         /\ cpu_state \in InData /\ ~mem_do_prefetch /\ mem_done => mem_xfer /\ ~mem_instr
<1>1. ~trap  BY SMT DEF CoreInv, IInv, CpuInv, TrapInv
<1>2. mem_state \in {0, 1, 2, 3}  BY SMT DEF CoreInv, TInv, TypeOK, MemTypeOK
<1>3. ASSUME mem_xfer, ~mem_instr
      PROVE  cpu_state \in InData /\ ~mem_do_prefetch /\ mem_done
  <2>1. mem_state \in {1, 2}
    BY <1>1, <1>2, <1>3, SMT DEF mem_xfer, CoreInv, IInv, BusInv, ValidInv
  <2>2. CASE mem_state = 1
    BY <1>1, <1>3, <2>2, SMT DEF CoreInv, IInv, BusInv, InterfaceState, CpuInv, DataInv, mem_done, InData
  <2>3. CASE mem_state = 2
    BY <1>1, <1>3, <2>3, SMT DEF CoreInv, IInv, BusInv, InterfaceState, RequestExclusive, CpuInv, DataInv, mem_done, InData
  <2>4. QED  BY <2>1, <2>2, <2>3
<1>4. ASSUME cpu_state \in InData, ~mem_do_prefetch, mem_done
      PROVE  mem_xfer /\ ~mem_instr
  <2>1. ~mem_do_rinst
    BY <1>4, SMT DEF CoreInv, IInv, CpuInv, OperandInv, InData
  <2>2. mem_xfer /\ mem_state # 0
    BY <1>4, <2>1, Zenon DEF mem_done
  <2>3. QED
    BY <1>1, <1>2, <1>4, <2>1, <2>2, SMT DEF CoreInv, IInv, BusInv, InterfaceState, WriteInv, ValidInv, mem_xfer
<1>5. QED  BY <1>3, <1>4

\* A load or store transfers data exactly once, in its own state, and finishes
\* with that transfer.
THEOREM DataIsTransferredOnce == Spec => DataOnce
<1> DEFINE Once == Step => \/ cpu_state = "trap" \/ cpu_state' = "trap"
                           \/ (mem_xfer /\ ~mem_instr) <=>
                                (cpu_state \in {"stmem", "ldmem"} /\ cpu_state' = "fetch")
<1>1. Init => WriteInv  BY SMT DEF Init, WriteInv
<1>2. WriteInv /\ [Next]_vars => WriteInv'
  <2> SUFFICES ASSUME WriteInv, [Next]_vars  PROVE  WriteInv'
    OBVIOUS
  <2>1. CASE Step  BY <2>1, StepMemory, WriteStep
  <2>2. CASE Reset  BY <2>2, SMT DEF Reset, WriteInv
  <2>3. CASE UNCHANGED vars
    <3>1. UNCHANGED memVars  BY <2>3, Zenon DEF vars
    <3>2. QED  BY <3>1, Zenon DEF memVars, WriteInv
  <2>4. QED  BY <2>1, <2>2, <2>3 DEF Next
<1>3. CoreInv /\ PipeInv /\ WriteInv /\ [Next]_vars => [Once]_vars
  <2> SUFFICES ASSUME CoreInv, PipeInv, WriteInv, Step, cpu_state # "trap", cpu_state' # "trap"
               PROVE  (mem_xfer /\ ~mem_instr) <=> (cpu_state \in InData /\ cpu_state' = "fetch")
    BY DEF InData
  <2>1. cpu_state \in InData => DataMove
    <3>1. /\ FetchMove \/ FetchLaunch => cpu_state = "fetch"
          /\ Trapped => cpu_state = "trap"
      BY Zenon DEF FetchMove, FetchLaunch, FetchCommon, InFetch, Trapped
    <3>2. QED  BY <3>1, StepKind, SMT DEF InData, Operands
  <2>2. cpu_state \in InData => (cpu_state' = "fetch" <=> ~mem_do_prefetch /\ mem_done)
    BY <2>1, SMT DEF InData, DataMove
  <2>3. QED  BY <2>2, DataTransfer
<1>4. QED  BY <1>1, <1>2, <1>3, PipelineInvariant, PTL DEF Spec, DataOnce

-------------------------------------------------------------------------------
(* Branches *)

\* The comparison of a branch has reached the pipeline register it is read from
\* once the waits that stand for the way there are over.
CompareInv ==
  cpu_state = "exec" /\ is_branch =>
    /\ TWO_CYCLE_ALU /\ ~alu_wait_2 /\ (TWO_CYCLE_COMPARE \/ ~alu_wait) =>
         (alu_cmp_r <=> alu_cmp)
    /\ TWO_CYCLE_COMPARE /\ ~alu_wait => (alu_out_0_q <=> alu_cmp)

\* Where cpu_state_exec is entered from.
LEMMA ExecFrom ==
  ASSUME CoreInv, PipeInv, Step, cpu_state' = "exec"
  PROVE  \/ cpu_state = "exec" /\ (ExecWait \/ ExecBranch \/ ExecAlu)
         \/ LdRs1Imm
         \/ WithRs2(LdRs2Arms) /\ (LdRs1Default \/ LdRs2Dispatch)
<1>1. CASE FetchIrq \/ FetchWaitirq \/ FetchJal \/ FetchWait \/ FetchLaunch
  <2>1. Goto("fetch") \/ Goto("ld_rs1")
    BY <1>1, Zenon DEF FetchIrq, FetchWaitirq, FetchJal, FetchWait, FetchLaunch
  <2>2. QED  BY <2>1, GotoStep
<1>2. CASE LdRs1Read \/ LdRs1Retirq \/ LdRs1Maskirq \/ LdRs1Timer \/ LdRs1Illegal
  <2>1. Goto("fetch") \/ Goto("trap")
    BY <1>2, Zenon DEF LdRs1Read, LdRs1Retirq, LdRs1Maskirq, LdRs1Timer, LdRs1Illegal, Illegal
  <2>2. QED  BY <2>1, GotoStep
<1>3. CASE LdRs1Pcpi \/ LdRs2Pcpi
  <2>1. Goto("fetch") \/ Goto("trap") \/ Goto("ld_rs1") \/ Goto("ld_rs2")
    BY <1>3, Zenon DEF LdRs1Pcpi, LdRs2Pcpi, Pcpi, Illegal
  <2>2. QED  BY <2>1, GotoStep
<1>4. CASE LdRs1Load \/ LdRs1Shift \/ Shift \/ Trapped
  <2>1. Goto("ldmem") \/ Goto("shift") \/ Goto("fetch") \/ Goto("trap")
    BY <1>4, Zenon DEF LdRs1Load, LdRs1Shift, Shift, Trapped
  <2>2. QED  BY <2>1, GotoStep
<1>5. CASE LdRs1Default \/ LdRs2Dispatch
  <2>1. Goto("ld_rs2") \/ WithRs2(LdRs2Arms)
    BY <1>5, Zenon DEF LdRs1Default, LdRs2Dispatch
  <2>2. QED  BY <1>5, <2>1, GotoStep
<1>6. CASE ExecWait \/ ExecBranch \/ ExecAlu
  BY <1>6, Zenon DEF ExecWait, ExecBranch, ExecAlu, InExec
<1>7. CASE StMem \/ LdMem
  <2>1. cpu_state \in InData /\ DataMove  BY <1>7, DataActions
  <2>2. cpu_state' \in {"stmem", "ldmem", "fetch", "trap"}
    BY <2>1, SMT DEF DataMove, InData
  <2>3. QED  BY <2>2
<1>8. CASE LdRs1Imm  BY <1>8
<1>9. QED  BY <1>1, <1>2, <1>3, <1>4, <1>5, <1>6, <1>7, <1>8 DEF Step

\* In an ALU wait, or while the branch waits for the fetch behind it.
LEMMA CompareWait ==
  ASSUME CoreInv, PipeInv, CompareInv, ExecWait \/ ExecBranch, cpu_state' = "exec", is_branch'
  PROVE  CompareInv'
<1>1. ExecMove /\ cpu_state = "exec"  BY ExecActions
<1>2. ~mem_done  BY <1>1, SMT DEF ExecMove
<1>3. config' = config /\ dec1' = dec1
  BY <1>1, <1>2, ExecCycle DEF ExecMove
<1>4. is_branch /\ (TWO_CYCLE_ALU' <=> TWO_CYCLE_ALU) /\ (TWO_CYCLE_COMPARE' <=> TWO_CYCLE_COMPARE)
  BY <1>3, Zenon DEF is_branch, TWO_CYCLE_ALU, TWO_CYCLE_COMPARE
<1>5. Alu /\ alu_cmp' = alu_cmp
  BY Zenon DEF ExecWait, ExecBranch, InExec, NotFetch, Every
<1>6. /\ alu_cmp_r' <=> TWO_CYCLE_ALU /\ alu_cmp
      /\ TWO_CYCLE_COMPARE /\ TWO_CYCLE_ALU => (alu_out_0_q' <=> alu_cmp_r)
      /\ TWO_CYCLE_COMPARE /\ ~TWO_CYCLE_ALU => (alu_out_0_q' <=> alu_cmp)
  BY <1>5, Zenon DEF Alu
<1>7. CASE ExecWait
  <2>1. (alu_wait' <=> alu_wait_2) /\ ~alu_wait_2'
    BY <1>7, Zenon DEF ExecWait
  <2>2. QED  BY <1>1, <1>4, <1>5, <1>6, <2>1, Zenon DEF CompareInv
<1>8. CASE ExecBranch
  <2>1. (TWO_CYCLE_ALU \/ TWO_CYCLE_COMPARE) => ~alu_wait /\ ~alu_wait_2
    BY <1>8, Zenon DEF ExecBranch, Waiting
  <2>2. QED  BY <1>1, <1>4, <1>5, <1>6, <2>1, Zenon DEF CompareInv
<1>9. QED  BY <1>7, <1>8

\* On entry the waits are set; an immediate operation is no branch.
LEMMA CompareEntry ==
  ASSUME CoreInv, PipeInv, LdRs1Imm \/ (WithRs2(LdRs2Arms) /\ (LdRs1Default \/ LdRs2Dispatch)),
         cpu_state' = "exec", is_branch'
  PROVE  CompareInv'
<1>1. cpu_state \in Operands /\ OperandMove  BY OtherMove
<1>2. config' = config /\ dec1' = dec1
  BY <1>1, OperandCycle DEF OperandMove
<1>3. is_branch /\ (TWO_CYCLE_ALU' <=> TWO_CYCLE_ALU) /\ (TWO_CYCLE_COMPARE' <=> TWO_CYCLE_COMPARE)
  BY <1>2, Zenon DEF is_branch, TWO_CYCLE_ALU, TWO_CYCLE_COMPARE
<1>4. ~LdRs1Imm
  <2>1. dec1 = dec2  BY <1>1, SMT DEF PipeInv, DecodeInv, Executing, Operands
  <2>2. LdRs1Imm => "lui" \in LdRs1Arms \/ "imm" \in LdRs1Arms
    BY Zenon DEF LdRs1Imm, InLdRs1
  <2>3. "lui" \notin LdRs1Arms /\ "imm" \notin LdRs1Arms
    BY <1>3, <2>1, SMT DEF LdRs1Arms, is_branch
  <2>4. QED  BY <2>2, <2>3
<1>5. /\ alu_wait' <=> TWO_CYCLE_ALU \/ TWO_CYCLE_COMPARE
      /\ alu_wait_2' <=> TWO_CYCLE_ALU /\ TWO_CYCLE_COMPARE
  <2>1. \/ Goto("stmem") \/ Goto("shift")
        \/ /\ alu_wait' = (TWO_CYCLE_ALU \/ (TWO_CYCLE_COMPARE /\ is_branch))
           /\ alu_wait_2' = SecondWait
    BY <1>4, Zenon DEF WithRs2
  <2>2. /\ alu_wait' = (TWO_CYCLE_ALU \/ (TWO_CYCLE_COMPARE /\ is_branch))
        /\ alu_wait_2' = SecondWait
    BY <2>1, GotoStep
  <2>3. QED  BY <1>3, <2>2, Zenon DEF SecondWait
<1>6. QED  BY <1>3, <1>5, Zenon DEF CompareInv

\* A branch acts on the comparison of its own operands, however many cycles
\* TWO_CYCLE_ALU and TWO_CYCLE_COMPARE put between them.
THEOREM BranchesCompareTheirOperands == Spec => CompareSettled
<1> DEFINE Settled == Step /\ cpu_state = "exec" /\ is_branch /\ cpu_state' = "fetch"
                        => latched_branch' = alu_cmp
<1>1. Init => CompareInv  BY SMT DEF Init, CompareInv
<1>2. CoreInv /\ PipeInv /\ CompareInv /\ [Next]_vars => CompareInv'
  <2> SUFFICES ASSUME CoreInv, PipeInv, CompareInv, [Next]_vars, cpu_state' = "exec", is_branch'
               PROVE  CompareInv'
    BY DEF CompareInv
  <2>1. CASE Step
    <3>1. CASE ExecAlu
      <4>1. Goto("fetch")  BY <3>1, Zenon DEF ExecAlu
      <4>2. QED  BY <4>1, GotoStep
    <3>2. QED  BY <2>1, <3>1, ExecFrom, CompareWait, CompareEntry
  <2>2. CASE Reset
    <3>1. cpu_state' \in {"fetch", "trap"}  BY <2>2, Zenon DEF Reset
    <3>2. QED  BY <3>1
  <2>3. CASE UNCHANGED vars
    <3>1. UNCHANGED cpuVars /\ UNCHANGED decVars /\ UNCHANGED aluVars /\ config' = config
      BY <2>3, Zenon DEF vars
    <3>2. QED
      BY <3>1, Zenon DEF cpuVars, decVars, aluVars, CompareInv, is_branch, TWO_CYCLE_ALU, TWO_CYCLE_COMPARE
  <2>4. QED  BY <2>1, <2>2, <2>3 DEF Next
<1>3. CoreInv /\ PipeInv /\ CompareInv /\ [Next]_vars => [Settled]_vars
  <2> SUFFICES ASSUME CoreInv, PipeInv, CompareInv,
                      Step, cpu_state = "exec", is_branch, cpu_state' = "fetch"
               PROVE  latched_branch' = alu_cmp
    OBVIOUS
  <2>1. ExecWait \/ ExecBranch \/ ExecAlu
    BY ExecSteps
  <2>2. ExecBranch
    <3>1. ~ExecAlu  BY Zenon DEF ExecAlu
    <3>2. ExecWait => Goto("exec")  BY Zenon DEF ExecWait
    <3>3. QED  BY <2>1, <3>1, <3>2, GotoStep
  <2>3. latched_branch' = BranchTaken
        /\ ((TWO_CYCLE_ALU \/ TWO_CYCLE_COMPARE) => ~alu_wait /\ ~alu_wait_2)
    BY <2>2, Zenon DEF ExecBranch, Waiting
  <2>4. BranchTaken <=> alu_cmp
    BY <2>3, Zenon DEF BranchTaken, CompareInv
  <2>5. BranchTaken \in BOOLEAN /\ alu_cmp \in BOOLEAN
    BY DEF BranchTaken, CoreInv, TInv, TypeOK, AluTypeOK
  <2>6. QED  BY <2>3, <2>4, <2>5
<1>4. QED  BY <1>1, <1>2, <1>3, PipelineInvariant, PTL DEF Spec, CompareSettled

-------------------------------------------------------------------------------
(* Interrupts *)

\* The registers of the interrupt controller that a step may change.
LEMMA IrqRegisters ==
  ASSUME Step
  PROVE  /\ irq_mask' = irq_mask \/ (LdRs1Maskirq /\ MASKED_IRQ \subseteq irq_mask')
         /\ \/ FetchIrq
            \/ /\ irq_state' = irq_state
               /\ \/ irq_active' = irq_active /\ eoi' = eoi
                  \/ irq_active' = FALSE /\ eoi' = {}
<1>1. CASE FetchIrq
  BY <1>1, Zenon DEF FetchIrq, FetchCommon
<1>2. CASE LdRs1Maskirq
  <2>1. PICK rs1 \in SUBSET Irqs : irq_mask' = rs1 \cup MASKED_IRQ
    BY <1>2, Zenon DEF LdRs1Maskirq
  <2>2. irq_state' = irq_state /\ irq_active' = irq_active /\ eoi' = eoi
    BY <1>2, Zenon DEF LdRs1Maskirq, InLdRs1, NotFetch
  <2>3. QED  BY <1>2, <2>1, <2>2
<1>3. CASE LdRs1Retirq
  BY <1>3, Zenon DEF LdRs1Retirq, InLdRs1, NotFetch
<1>4. CASE FetchWaitirq \/ FetchJal \/ FetchLaunch \/ FetchWait
  BY <1>4, Zenon DEF FetchWaitirq, FetchJal, FetchLaunch, FetchWait, FetchCommon
<1>5. CASE \/ LdRs1Read \/ LdRs1Timer \/ LdRs1Pcpi \/ LdRs1Illegal \/ LdRs1Load \/ LdRs1Shift
           \/ LdRs1Imm \/ LdRs1Default \/ LdRs2Pcpi \/ LdRs2Dispatch \/ Shift
           \/ ExecWait \/ ExecBranch \/ ExecAlu \/ StMem \/ LdMem \/ Trapped
  BY <1>5, Zenon DEF LdRs1Read, LdRs1Timer, LdRs1Pcpi, LdRs1Illegal, LdRs1Load, LdRs1Shift, LdRs1Imm, LdRs1Default, InLdRs1, LdRs2Pcpi, LdRs2Dispatch, InLdRs2, Shift, ExecWait, ExecBranch, ExecAlu, InExec, StMem, LdMem, MemWaitFetch, MemRequest, MemWaitData, MemFinish, InMem, NotFetch, Trapped, KeepIrq
<1>6. QED  BY <1>1, <1>2, <1>3, <1>4, <1>5 DEF Step

\* No interrupt is unmasked that MASKED_IRQ keeps from being pending.
MaskInv == MASKED_IRQ \subseteq irq_mask

LEMMA MaskKept ==
  ASSUME MaskInv, [Next]_vars
  PROVE  MaskInv'
<1>1. CASE Step  BY <1>1, IrqRegisters DEF MaskInv
<1>2. CASE Reset
  <2>1. irq_mask' = Irqs  BY <1>2, Zenon DEF Reset
  <2>2. QED  BY <2>1, BoundsAssumption DEF MaskInv
<1>3. CASE UNCHANGED vars
  BY <1>3, Zenon DEF vars, irqVars, MaskInv
<1>4. QED  BY <1>1, <1>2, <1>3 DEF Next

LEMMA MaskInit ==
  ASSUME Init
  PROVE  MaskInv
<1>1. irq_mask = Irqs  BY Zenon DEF Init
<1>2. QED  BY <1>1, BoundsAssumption DEF MaskInv

\* A latched interrupt stays pending until it is acknowledged.
LEMMA LatchedStays ==
  ASSUME ENABLE_IRQ, MaskInv, NEW raised, IrqPending(Latched, raised), NEW i \in LATCHED_IRQ,
         i \in Pending
  PROVE  i \in irq_pending'
BY Zenon DEF IrqPending, Latched, Pending, MaskInv

\* From the accepted interrupt to its acknowledgement something unmasked stays
\* pending, and the end-of-interrupt lines name it while the handler runs.
WorkInv ==
  /\ irq_state # 0 => Pending # {}
  /\ irq_active /\ irq_state = 0 => eoi # {}
  /\ eoi # {} => irq_active \/ cpu_state = "trap"

\* Every line is latched: PicoRV32's LATCHED_IRQ as the parameter defaults it.
AllLatched == LATCHED_IRQ = Irqs

LEMMA PendingStays ==
  ASSUME AllLatched, CoreInv, MaskInv, ENABLE_IRQ, Pending # {}, irq_mask' = irq_mask,
         NEW raised, IrqPending(Latched, raised)
  PROVE  Pending' # {}
<1>1. PICK i \in Pending : TRUE  OBVIOUS
<1>2. i \in LATCHED_IRQ
  <2>1. irq_pending \subseteq Irqs  BY DEF CoreInv, TInv, TypeOK, IrqTypeOK
  <2>2. QED  BY <1>1, <2>1, Zenon DEF AllLatched, Pending
<1>3. i \in irq_pending'  BY <1>1, <1>2, LatchedStays
<1>4. QED  BY <1>1, <1>3, Zenon DEF Pending

LEMMA FetchIrqWork ==
  ASSUME AllLatched, CoreInv, PipeInv, MaskInv, WorkInv, FetchIrq
  PROVE  WorkInv'
<1>1. /\ cpu_state = "fetch" /\ ENABLE_IRQ /\ irq_mask' = irq_mask /\ TakeIrq
      /\ IF IrqArm /\ irq_state = 2
         THEN eoi' = Pending
         ELSE eoi' = eoi /\ IrqPending(Latched, {})
  BY Zenon DEF FetchIrq, FetchCommon, InFetch, TakeIrq
<1>2. EntryMove  BY FetchIrqMove
<1>3. irq_state # 0 => IrqArm  BY <1>1, Zenon DEF IrqArm, PipeInv, EntryInv
<1>4. irq_state = 0 => Pending # {}  BY <1>1, Zenon DEF TakeIrq
<1>5. irq_state \in {0, 1, 2}  BY SMT DEF CoreInv, TInv, TypeOK, IrqTypeOK
<1>6. irq_state \in {0, 1} => Pending' # {} /\ eoi' = eoi
  <2>1. irq_state \in {0, 1} => IrqPending(Latched, {}) /\ eoi' = eoi
    BY <1>1, SMT
  <2>2. Pending # {}  BY <1>4, Zenon DEF WorkInv
  <2>3. QED  BY <1>1, <2>1, <2>2, PendingStays
<1>7. CASE irq_state = 0
  <2>1. irq_state' = 1 /\ (irq_active' <=> irq_active)
    BY <1>2, <1>7, SMT DEF EntryMove
  <2>2. QED  BY <1>1, <1>6, <1>7, <2>1, SMT DEF WorkInv
<1>8. CASE irq_state = 1
  <2>1. irq_state' = 2 /\ irq_active'
    BY <1>2, <1>8, SMT DEF EntryMove
  <2>2. QED  BY <1>6, <1>8, <2>1, SMT DEF WorkInv
<1>9. CASE irq_state = 2
  <2>1. irq_state' = 0 /\ irq_active'
    BY <1>2, <1>9, SMT DEF EntryMove, PipeInv, EntryInv
  <2>2. eoi' # {}  BY <1>1, <1>3, <1>9, SMT DEF WorkInv
  <2>3. QED  BY <2>1, <2>2 DEF WorkInv
<1>10. QED  BY <1>5, <1>7, <1>8, <1>9

LEMMA StepWork ==
  ASSUME AllLatched, CoreInv, PipeInv, MaskInv, WorkInv, Step, ~FetchIrq
  PROVE  WorkInv'
<1>1. /\ irq_state' = irq_state
      /\ \/ irq_active' = irq_active /\ eoi' = eoi
         \/ irq_active' = FALSE /\ eoi' = {}
  BY IrqRegisters
<1>2. cpu_state = "trap" => cpu_state' = "trap"
  <2>1. Trapped => Goto("trap")  BY Zenon DEF Trapped
  <2>2. QED  BY <2>1, TrappedSteps, GotoStep
<1>3. ASSUME irq_state # 0  PROVE  Pending' # {}
  <2>1. ENABLE_IRQ /\ cpu_state \in {"fetch", "trap"}
    BY <1>3 DEF PipeInv, EntryInv
  <2>2. cpu_state # "fetch"
    <3>1. TakeIrq  BY <1>3, <2>1, Zenon DEF TakeIrq
    <3>2. ~FetchLaunch /\ ~FetchWaitirq /\ ~FetchJal /\ ~FetchWait
      BY <3>1, Zenon DEF FetchLaunch, FetchWaitirq, FetchJal, FetchWait, Launch, WaitIrq
    <3>3. QED  BY <3>2, FetchSteps
  <2>3. irq_mask' = irq_mask /\ IrqPending(Latched, {})
    BY <2>1, <2>2, TrappedSteps, Zenon DEF Trapped, KeepIrq, Quiet
  <2>4. Pending # {}  BY <1>3 DEF WorkInv
  <2>5. QED  BY <2>1, <2>3, <2>4, PendingStays
<1>4. QED  BY <1>1, <1>2, <1>3, SMT DEF WorkInv

\* The handler is never entered with nothing to do, if every line is latched,
\* and the end-of-interrupt lines are high exactly while it runs.
THEOREM HandlersHaveWork == AllLatched => (Spec => []HandlerHasWork)
<1> SUFFICES ASSUME AllLatched  PROVE  Spec => []HandlerHasWork
  OBVIOUS
<1>1. Init => MaskInv /\ WorkInv
  <2>1. Init => WorkInv
    BY SMT DEF Init, WorkInv
  <2>2. QED  BY <2>1, MaskInit
<1>2. CoreInv /\ PipeInv /\ MaskInv /\ WorkInv /\ [Next]_vars => MaskInv' /\ WorkInv'
  <2> SUFFICES ASSUME CoreInv, PipeInv, MaskInv, WorkInv, [Next]_vars  PROVE  WorkInv'
    BY MaskKept
  <2>1. CASE Step  BY <2>1, FetchIrqWork, StepWork
  <2>2. CASE Reset
    <3>1. irq_state' = 0 /\ irq_active' = FALSE /\ eoi' = {}
      BY <2>2, Zenon DEF Reset
    <3>2. QED  BY <3>1 DEF WorkInv
  <2>3. CASE UNCHANGED vars
    <3>1. UNCHANGED irqVars /\ UNCHANGED cpuVars  BY <2>3, Zenon DEF vars
    <3>2. QED  BY <3>1, Zenon DEF irqVars, cpuVars, WorkInv, Pending
  <2>4. QED  BY <2>1, <2>2, <2>3 DEF Next
<1>3. WorkInv => HandlerHasWork
  BY DEF WorkInv, HandlerHasWork
<1>4. QED  BY <1>1, <1>2, <1>3, PipelineInvariant, PTL DEF Spec

-------------------------------------------------------------------------------
(* What the steps share *)

\* Every step ends with the same overrides of cpu_state and of the pending
\* interrupts; only an interrupt entry may drop one that is latched.
LEMMA StepShared ==
  ASSUME Step
  PROVE  /\ Every /\ \E s : Goto(s)
         /\ \E kept, raised : IrqPending(kept, raised)
         /\ FetchIrq \/ \E raised : IrqPending(Latched, raised)
<1>1. CASE FetchIrq \/ FetchWaitirq \/ FetchJal \/ FetchLaunch \/ FetchWait
  <2>1. Every /\ \E s : Goto(s)
    BY <1>1, Zenon DEF FetchIrq, FetchWaitirq, FetchJal, FetchLaunch, FetchWait, FetchCommon, InFetch
  <2>2. \/ FetchIrq /\ \E kept : IrqPending(kept, {})
        \/ IrqPending(Latched, {})
    BY <1>1, Zenon DEF FetchIrq, FetchWaitirq, FetchJal, FetchLaunch, FetchWait
  <2>3. QED  BY <2>1, <2>2
<1>2. CASE LdRs1Pcpi \/ LdRs2Pcpi
  <2>1. Every  BY <1>2, Zenon DEF LdRs1Pcpi, LdRs2Pcpi, InLdRs1, InLdRs2, NotFetch
  <2>2. \E s : Goto(s)
    BY <1>2, Zenon DEF LdRs1Pcpi, LdRs2Pcpi, Pcpi, Illegal
  <2>3. \E raised : IrqPending(Latched, raised)
    BY <1>2, Zenon DEF LdRs1Pcpi, LdRs2Pcpi, Pcpi, Quiet
  <2>4. QED  BY <2>1, <2>2, <2>3
<1>3. CASE LdRs1Illegal
  <2>1. Every  BY <1>3, Zenon DEF LdRs1Illegal, InLdRs1, NotFetch
  <2>2. \E s : Goto(s)  BY <1>3, Zenon DEF LdRs1Illegal, Illegal
  <2>3. \E raised : IrqPending(Latched, raised)  BY <1>3, Zenon DEF LdRs1Illegal
  <2>4. QED  BY <2>1, <2>2, <2>3
<1>4. CASE LdRs1Timer
  BY <1>4, Zenon DEF LdRs1Timer, InLdRs1, NotFetch
<1>5. CASE \/ LdRs1Read \/ LdRs1Retirq \/ LdRs1Maskirq \/ LdRs1Load \/ LdRs1Shift \/ LdRs1Imm
           \/ LdRs1Default \/ LdRs2Dispatch
  <2>1. Every /\ Quiet
    BY <1>5, Zenon DEF LdRs1Read, LdRs1Retirq, LdRs1Maskirq, LdRs1Load, LdRs1Shift, LdRs1Imm, LdRs1Default, InLdRs1, LdRs2Dispatch, InLdRs2, NotFetch
  <2>2. \E s : Goto(s)
    BY <1>5, Zenon DEF LdRs1Read, LdRs1Retirq, LdRs1Maskirq, LdRs1Load, LdRs1Shift, LdRs1Imm, LdRs1Default, LdRs2Dispatch, WithRs2
  <2>3. QED  BY <2>1, <2>2 DEF Quiet
<1>6. CASE Shift \/ ExecWait \/ ExecBranch \/ ExecAlu \/ StMem \/ LdMem \/ Trapped
  <2>1. Every /\ Quiet
    BY <1>6, Zenon DEF Shift, ExecWait, ExecBranch, ExecAlu, InExec, StMem, LdMem, MemWaitFetch, MemRequest, MemWaitData, MemFinish, InMem, NotFetch, Trapped
  <2>2. \E s : Goto(s)
    BY <1>6, Zenon DEF Shift, ExecWait, ExecBranch, ExecAlu, StMem, LdMem, MemWaitFetch, MemRequest, MemWaitData, MemFinish, Trapped
  <2>3. QED  BY <2>1, <2>2 DEF Quiet
<1>7. QED  BY <1>1, <1>2, <1>3, <1>4, <1>5, <1>6 DEF Step

\* A bus error stops the core unless it can be raised; raised, it is pending.
LEMMA Raises ==
  ASSUME MaskInv, Step, Misaligned, cpu_state' # "trap"
  PROVE  Raisable(irq_buserror) /\ irq_buserror \in irq_pending'
<1>1. Raisable(irq_buserror)
  <2>1. PICK s : Goto(s)  BY StepShared
  <2>2. QED  BY <2>1, Zenon DEF Goto
<1>2. PICK kept, raised : IrqPending(kept, raised)  BY StepShared
<1>3. QED  BY <1>1, <1>2, Zenon DEF IrqPending, Raisable, MaskInv

\* It can be raised as long as nobody masks it and no interrupt is taken.
LEMMA RaisableStays ==
  ASSUME CoreInv, PipeInv, Step, Raisable(irq_buserror), irq_state # 1
  PROVE  LdRs1Maskirq \/ Raisable(irq_buserror)'
<1>1. ENABLE_IRQ' <=> ENABLE_IRQ
  BY StepShared, Zenon DEF Every, ENABLE_IRQ
<1>2. irq_active' => irq_active
  BY FetchIrqMove, IrqRegisters DEF EntryMove
<1>3. QED  BY <1>1, <1>2, IrqRegisters, Zenon DEF Raisable

-------------------------------------------------------------------------------
(* Instruction addresses *)

\* An instruction at an address its size forbids has raised the bus error as it
\* arrived; the fetch that is outstanding belongs to the address checked.
AlignInv ==
  CATCH_MISALIGN =>
    /\ cpu_state \in Busy /\ Odd(reg_pc) => Raisable(irq_buserror)
    /\ cpu_state = "fetch" =>
         /\ mem_state # 0 => (Odd(reg_pc) <=> Odd(reg_next_pc))
         /\ decoder_trigger /\ Odd(reg_next_pc) => Raisable(irq_buserror)
         /\ mem_do_rinst /\ Odd(reg_pc) => Raisable(irq_buserror) \/ Odd(absPc)

LEMMA FetchAlign ==
  ASSUME CoreInv, PipeInv, MaskInv, AlignInv, CATCH_MISALIGN, Step, cpu_state = "fetch",
         cpu_state' # "trap"
  PROVE  AlignInv'
<1> USE DEF Busy, Executing, InData
<1>1. CASE FetchLaunch
  <2>1. /\ reg_pc' = reg_next_pc /\ decoder_trigger /\ irq_state = 0
    BY <1>1, FetchLaunchPipe
  <2>2. cpu_state' # "fetch"
    <3>1. Goto("ld_rs1")  BY <1>1, Zenon DEF FetchLaunch
    <3>2. QED  BY <3>1, GotoStep
  <2>3. Odd(reg_pc') => Raisable(irq_buserror)'
    <3>1. ~LdRs1Maskirq  BY OthersQuiet
    <3>2. QED  BY <2>1, <3>1, RaisableStays DEF AlignInv
  <2>4. QED  BY <2>2, <2>3 DEF AlignInv
<1>2. CASE FetchIrq \/ FetchWaitirq \/ FetchJal \/ FetchWait
  <2>1. FetchMove /\ (EntryStill \/ EntryMove) /\ cpu_state' = "fetch"
    BY <1>2, FetchIrqMove, FetchWaitirqMove, FetchJalMove, FetchWaitMove, SMT DEF FetchMove
  <2>2. /\ reg_pc' = current_pc
        /\ decoder_trigger' <=> mem_do_rinst /\ mem_done
        /\ mem_do_rinst /\ mem_done => mem_state \in {1, 3}
        /\ decoder_trigger \/ do_waitirq =>
             Silent /\ ~mem_done /\ irq_state = 0 /\ current_pc = reg_next_pc
        /\ Silent => ~mem_done /\ mem_state' = 0
        /\ mem_state \in {1, 3} => current_pc = reg_next_pc
    BY <2>1, FetchCycle DEF FetchMove
  <2>3. ~LdRs1Maskirq  BY OthersQuiet
  <2>4. mem_state' # 0 => reg_next_pc' = current_pc
    BY <2>1, <2>2 DEF FetchMove
  <2>5. ASSUME decoder_trigger', Odd(reg_next_pc')
        PROVE  Raisable(irq_buserror)'
    <3>1. mem_do_rinst /\ mem_done /\ mem_state \in {1, 3} /\ ~Silent
      BY <2>2, <2>5
    <3>2. reg_next_pc' = reg_next_pc
      BY <2>1, <2>2, <3>1 DEF FetchMove
    <3>3. mem_state # 0  BY <3>1
    <3>4. Odd(reg_pc)  BY <2>5, <3>2, <3>3, Zenon DEF AlignInv
    <3>5. Misaligned  BY <3>1, <3>4, Zenon DEF Misaligned
    <3>6. Raisable(irq_buserror)  BY <3>5, Raises
    <3>7. irq_state # 1  BY <3>1, Zenon DEF PipeInv, EntryInv
    <3>8. QED  BY <2>3, <3>6, <3>7, RaisableStays
  <2>6. ASSUME Odd(reg_pc')
        PROVE  Raisable(irq_buserror)' \/ Odd(reg_next_pc')
    <3>1. CASE reg_next_pc' = current_pc  BY <2>2, <2>6, <3>1
    <3>2. CASE decoder_trigger
      <4>1. Raisable(irq_buserror) /\ irq_state # 1
        BY <2>2, <2>6, <3>2, SMT DEF AlignInv
      <4>2. QED  BY <2>3, <4>1, RaisableStays
    <3>3. CASE ~decoder_trigger /\ FetchWaitirq
      <4>1. do_waitirq
        BY <3>3, Zenon DEF FetchWaitirq, WaitIrq
      <4>2. reg_next_pc' \in {Plus4(reg_next_pc), reg_next_pc} /\ Odd(reg_next_pc)
        BY <2>2, <2>6, <3>3, <4>1, Zenon DEF FetchWaitirq
      <4>3. reg_next_pc \in Addr  BY DEF CoreInv, TInv, TypeOK, CpuTypeOK
      <4>4. QED  BY <4>2, <4>3, Plus4Parity
    <3>4. CASE ~decoder_trigger /\ ~FetchWaitirq
      <4>1. reg_next_pc' = current_pc
        BY <1>2, <3>4, Zenon DEF FetchIrq, FetchWait, FetchJal, Launch
      <4>2. QED  BY <3>1, <4>1
    <3>5. QED  BY <3>2, <3>3, <3>4
  <2>7. absPc' = reg_next_pc'
    BY <2>1, Zenon DEF absPc, FetchMove
  <2>8. QED  BY <2>1, <2>2, <2>4, <2>5, <2>6, <2>7, SMT DEF AlignInv
<1>3. QED  BY <1>1, <1>2, FetchSteps
\* From a state in which an instruction executes.
LEMMA BusyAlign ==
  ASSUME CoreInv, PipeInv, MaskInv, AlignInv, CATCH_MISALIGN, Step, cpu_state \in Busy,
         cpu_state' # "trap",
         reg_pc' = reg_pc, reg_next_pc' = reg_next_pc, irq_state = 0,
         cpu_state' = "fetch" /\ decoder_trigger' => cpu_state \in InData \/ (mem_do_rinst /\ mem_done),
         LdRs1Maskirq => cpu_state' = "fetch" /\ ~decoder_trigger' /\ ~mem_do_rinst'
  PROVE  AlignInv'
<1>1. Odd(reg_pc) <=> Odd(reg_next_pc)
  <2>1. reg_next_pc = Plus4(reg_pc) /\ reg_pc \in Addr
    BY DEF PipeInv, TargetInv, CoreInv, TInv, TypeOK, CpuTypeOK
  <2>2. QED  BY <2>1, Plus4Parity
<1>2. Odd(reg_pc) => LdRs1Maskirq \/ Raisable(irq_buserror)'
  BY RaisableStays DEF AlignInv
<1>3. QED  BY <1>1, <1>2, SMT DEF AlignInv, Busy, Executing, InData

LEMMA StepAlign ==
  ASSUME CoreInv, PipeInv, MaskInv, AlignInv, Step
  PROVE  AlignInv'
<1> USE DEF Busy, Executing, InData
<1>1. CATCH_MISALIGN' <=> CATCH_MISALIGN
  BY StepShared, Zenon DEF Every, CATCH_MISALIGN
<1>2. CASE ~CATCH_MISALIGN \/ cpu_state' = "trap"
  BY <1>1, <1>2, SMT DEF AlignInv
<1> SUFFICES ASSUME CATCH_MISALIGN, cpu_state' # "trap"  PROVE  AlignInv'
  BY <1>2
<1>3. CASE cpu_state = "fetch"  BY <1>3, FetchAlign
<1>4. CASE cpu_state \in Operands /\ OperandMove
  <2>1. /\ reg_pc' = reg_pc /\ reg_next_pc' = reg_next_pc /\ irq_state = 0
        /\ decoder_trigger' = FALSE
    BY <1>4, OperandCycle DEF OperandMove
  <2>2. LdRs1Maskirq => cpu_state' = "fetch" /\ ~mem_do_rinst'
    <3>1. LdRs1Maskirq => Goto("fetch") /\ KeepRequest
      BY Zenon DEF LdRs1Maskirq
    <3>2. QED  BY <1>4, <3>1, GotoStep, OperandKeep DEF CoreInv
  <2>3. cpu_state \in Busy  BY <1>4, SMT DEF Operands
  <2>4. QED  BY <2>1, <2>2, <2>3, BusyAlign
<1>5. CASE cpu_state = "exec" /\ ExecMove
  <2>1. /\ reg_pc' = reg_pc /\ reg_next_pc' = reg_next_pc /\ irq_state = 0
        /\ mem_done => mem_do_rinst
    BY <1>5, ExecCycle DEF ExecMove
  <2>2. ~LdRs1Maskirq  BY <1>5, OthersQuiet
  <2>3. cpu_state \in Busy /\ (decoder_trigger' => mem_done)
    BY <1>5 DEF ExecMove
  <2>4. QED  BY <2>1, <2>2, <2>3, BusyAlign
<1>6. CASE cpu_state \in InData /\ DataMove
  <2>1. reg_pc' = reg_pc /\ reg_next_pc' = reg_next_pc /\ irq_state = 0
    BY <1>6, DataCycle DEF DataMove
  <2>2. ~LdRs1Maskirq
    <3>1. LdRs1Maskirq => cpu_state = "ld_rs1"  BY Zenon DEF LdRs1Maskirq, InLdRs1
    <3>2. QED  BY <1>6, <3>1
  <2>3. QED  BY <1>6, <2>1, <2>2, BusyAlign
<1>7. ~Trapped
  <2>1. Trapped => Goto("trap")  BY Zenon DEF Trapped
  <2>2. QED  BY <2>1, GotoStep
<1>8. FetchMove \/ FetchLaunch => cpu_state = "fetch"
  BY Zenon DEF FetchMove, FetchLaunch, FetchCommon, InFetch
<1>9. QED  BY <1>3, <1>4, <1>5, <1>6, <1>7, <1>8, StepKind

LEMMA InitAlign ==
  ASSUME Init
  PROVE  AlignInv
<1>1. cpu_state = "fetch" /\ mem_state = 0 /\ decoder_trigger = FALSE /\ mem_do_rinst = FALSE
  BY Zenon DEF Init
<1>2. QED  BY <1>1, SMT DEF AlignInv, Busy, Executing, InData

LEMMA AlignKept ==
  ASSUME CoreInv, PipeInv, MaskInv, AlignInv, [Next]_vars
  PROVE  AlignInv'
<1>1. CASE Step  BY <1>1, StepAlign
<1>2. CASE Reset
  <2>1. /\ cpu_state' \in {"fetch", "trap"} /\ mem_state' = 0
        /\ decoder_trigger' = FALSE /\ mem_do_rinst' = FALSE
    BY <1>2, Zenon DEF Reset
  <2>2. QED  BY <2>1, SMT DEF AlignInv, Busy, Executing, InData
<1>3. CASE UNCHANGED vars
  <2>1. /\ UNCHANGED memVars /\ UNCHANGED reqVars /\ UNCHANGED decVars /\ UNCHANGED cpuVars
        /\ UNCHANGED latVars /\ UNCHANGED aluVars /\ UNCHANGED irqVars /\ config' = config
    BY <1>3, Zenon DEF vars
  <2>2. QED
    BY <2>1, Zenon DEF memVars, reqVars, decVars, cpuVars, latVars, aluVars, irqVars, AlignInv, absPc, Raisable, ENABLE_IRQ, CATCH_MISALIGN
<1>4. QED  BY <1>1, <1>2, <1>3 DEF Next

\* A latched bus error is still pending when the instruction behind it would
\* begin, although a load or store may have to end first.
BusErrorLatched == irq_buserror \in LATCHED_IRQ

LateInv ==
  CATCH_MISALIGN =>
    /\ cpu_state = "fetch" /\ decoder_trigger /\ Odd(reg_next_pc) => irq_buserror \in irq_pending
    /\ cpu_state = "fetch" /\ do_waitirq => ~Odd(reg_next_pc)
    /\ cpu_state \in InData /\ ~mem_do_prefetch /\ Odd(reg_pc) => irq_buserror \in irq_pending

\* Outside an interrupt entry a latched bus error stays.
LEMMA BusErrorStays ==
  ASSUME BusErrorLatched, MaskInv, Step, ~FetchIrq, Raisable(irq_buserror),
         irq_buserror \in irq_pending
  PROVE  irq_buserror \in irq_pending'
<1>1. PICK raised : IrqPending(Latched, raised)  BY StepShared
<1>2. ENABLE_IRQ /\ irq_buserror \in Pending  BY Zenon DEF Raisable, Pending
<1>3. QED  BY <1>1, <1>2, LatchedStays DEF BusErrorLatched

LEMMA FetchLate ==
  ASSUME BusErrorLatched, CoreInv, PipeInv, MaskInv, AlignInv, LateInv, CATCH_MISALIGN, Step,
         cpu_state = "fetch", cpu_state' # "trap"
  PROVE  LateInv'
<1> USE DEF Busy, Executing, InData
<1>1. CASE FetchLaunch
  <2>1. Goto("ld_rs1")  BY <1>1, Zenon DEF FetchLaunch
  <2>2. QED  BY <2>1, GotoStep, SMT DEF LateInv
<1>2. CASE FetchIrq \/ FetchWaitirq \/ FetchJal \/ FetchWait
  <2>1. FetchMove /\ cpu_state' = "fetch"
    BY <1>2, FetchIrqMove, FetchWaitirqMove, FetchJalMove, FetchWaitMove, SMT DEF FetchMove
  <2>2. /\ decoder_trigger' <=> mem_do_rinst /\ mem_done
        /\ mem_do_rinst /\ mem_done => mem_state \in {1, 3}
        /\ decoder_trigger \/ do_waitirq => Silent /\ current_pc = reg_next_pc
        /\ mem_state \in {1, 3} => current_pc = reg_next_pc
    BY <2>1, FetchCycle DEF FetchMove
  <2>3. ASSUME decoder_trigger', Odd(reg_next_pc')
        PROVE  irq_buserror \in irq_pending'
    <3>1. mem_do_rinst /\ mem_done /\ mem_state # 0 /\ ~Silent
      BY <2>2, <2>3, SMT DEF Silent
    <3>2. reg_next_pc' = reg_next_pc
      BY <2>1, <2>2, <2>3, <3>1 DEF FetchMove
    <3>3. Odd(reg_pc)  BY <2>3, <3>1, <3>2, Zenon DEF AlignInv
    <3>4. Misaligned  BY <3>1, <3>3, Zenon DEF Misaligned
    <3>5. QED  BY <3>4, Raises
  <2>4. ASSUME do_waitirq', Odd(reg_next_pc')
        PROVE  FALSE
    <3>1. (decoder_trigger \/ do_waitirq) /\ reg_next_pc' = current_pc
      BY <2>1, <2>4 DEF FetchMove
    <3>2. Odd(reg_next_pc)  BY <2>2, <2>4, <3>1
    <3>3. irq_buserror \in irq_pending  BY <3>1, <3>2 DEF LateInv
    <3>4. do_waitirq' = FALSE \/ do_waitirq' = (irq_pending = {})
      BY <1>2, Zenon DEF FetchIrq, FetchWaitirq, FetchJal, FetchWait
    <3>5. QED  BY <2>4, <3>3, <3>4
  <2>5. QED  BY <2>1, <2>3, <2>4, SMT DEF LateInv
<1>3. QED  BY <1>1, <1>2, FetchSteps

LEMMA StepLate ==
  ASSUME BusErrorLatched, CoreInv, PipeInv, MaskInv, AlignInv, LateInv, Step
  PROVE  LateInv'
<1> USE DEF Busy, Executing, InData
<1>1. CATCH_MISALIGN' <=> CATCH_MISALIGN
  BY StepShared, Zenon DEF Every, CATCH_MISALIGN
<1>2. CASE ~CATCH_MISALIGN \/ cpu_state' = "trap"
  BY <1>1, <1>2, SMT DEF LateInv
<1> SUFFICES ASSUME CATCH_MISALIGN, cpu_state' # "trap"  PROVE  LateInv'
  BY <1>2
<1>3. CASE cpu_state = "fetch"  BY <1>3, FetchLate
<1>4. CASE cpu_state \in Operands /\ OperandMove
  <2>1. decoder_trigger' = FALSE /\ do_waitirq' = FALSE
    BY <1>4, OperandCycle DEF OperandMove
  <2>2. cpu_state' \in InData => mem_do_prefetch'
    BY <1>4, SMT DEF OperandMove, Operand
  <2>3. QED  BY <2>1, <2>2, Zenon DEF LateInv
<1>5. CASE cpu_state = "exec" /\ ExecMove
  <2>1. /\ reg_pc' = reg_pc /\ reg_next_pc' = reg_next_pc /\ do_waitirq' = FALSE
        /\ reg_next_pc = Plus4(reg_pc)
        /\ mem_done => mem_do_rinst
    BY <1>5, ExecCycle DEF ExecMove
  <2>2. Odd(reg_pc) <=> Odd(reg_next_pc)
    BY <2>1, Plus4Parity DEF CoreInv, TInv, TypeOK, CpuTypeOK
  <2>3. decoder_trigger' => mem_done  BY <1>5 DEF ExecMove
  <2>4. decoder_trigger' /\ Odd(reg_pc) => Misaligned
    BY <2>1, <2>3, Zenon DEF Misaligned
  <2>5. cpu_state' \notin InData  BY <1>5, SMT DEF ExecMove
  <2>6. QED  BY <2>1, <2>2, <2>4, <2>5, Raises, Zenon DEF LateInv
<1>6. CASE cpu_state \in InData /\ DataMove
  <2>1. /\ reg_pc' = reg_pc /\ reg_next_pc' = reg_next_pc /\ do_waitirq' = FALSE
        /\ reg_next_pc = Plus4(reg_pc)
        /\ mem_do_rinst <=> mem_do_prefetch
    BY <1>6, DataCycle DEF DataMove
  <2>2. Odd(reg_pc) <=> Odd(reg_next_pc)
    BY <2>1, Plus4Parity DEF CoreInv, TInv, TypeOK, CpuTypeOK
  <2>3. ~FetchIrq
    <3>1. FetchIrq => cpu_state = "fetch"  BY Zenon DEF FetchIrq, FetchCommon, InFetch
    <3>2. QED  BY <1>6, <3>1
  <2>4. ASSUME Odd(reg_pc), ~mem_do_prefetch  PROVE  irq_buserror \in irq_pending'
    <3>1. Raisable(irq_buserror) /\ irq_buserror \in irq_pending
      BY <1>6, <2>4 DEF AlignInv, LateInv
    <3>2. QED  BY <2>3, <3>1, BusErrorStays
  <2>5. ASSUME Odd(reg_pc), mem_do_prefetch, mem_done  PROVE  irq_buserror \in irq_pending'
    <3>1. Misaligned  BY <2>1, <2>5, Zenon DEF Misaligned
    <3>2. QED  BY <3>1, Raises
  <2>6. /\ cpu_state' = "fetch" /\ decoder_trigger' => ~mem_do_prefetch
        /\ ~mem_do_prefetch' => ~mem_do_prefetch \/ mem_done
    BY <1>6, SMT DEF DataMove
  <2>7. QED  BY <2>1, <2>2, <2>4, <2>5, <2>6, Zenon DEF LateInv
<1>7. ~Trapped
  <2>1. Trapped => Goto("trap")  BY Zenon DEF Trapped
  <2>2. QED  BY <2>1, GotoStep
<1>8. FetchMove \/ FetchLaunch => cpu_state = "fetch"
  BY Zenon DEF FetchMove, FetchLaunch, FetchCommon, InFetch
<1>9. QED  BY <1>3, <1>4, <1>5, <1>6, <1>7, <1>8, StepKind

LEMMA LateKept ==
  ASSUME BusErrorLatched, CoreInv, PipeInv, MaskInv, AlignInv, LateInv, [Next]_vars
  PROVE  LateInv'
<1>1. CASE Step  BY <1>1, StepLate
<1>2. CASE Reset
  <2>1. cpu_state' \in {"fetch", "trap"} /\ decoder_trigger' = FALSE /\ do_waitirq' = FALSE
    BY <1>2, Zenon DEF Reset
  <2>2. QED  BY <2>1, SMT DEF LateInv, InData
<1>3. CASE UNCHANGED vars
  <2>1. /\ UNCHANGED reqVars /\ UNCHANGED decVars /\ UNCHANGED cpuVars
        /\ UNCHANGED irqVars /\ config' = config
    BY <1>3, Zenon DEF vars
  <2>2. QED
    BY <2>1, Zenon DEF reqVars, decVars, cpuVars, irqVars, LateInv, CATCH_MISALIGN
<1>4. QED  BY <1>1, <1>2, <1>3 DEF Next

\* The instruction about to be launched is the one at the program counter, in
\* both decode stages; and, if the bus error is latched, it is not launched at
\* an address its size forbids, except right behind the handler.
THEOREM LaunchesCoherently == BusErrorLatched => (Spec => []LaunchCoherent)
<1> SUFFICES ASSUME BusErrorLatched  PROVE  Spec => []LaunchCoherent
  OBVIOUS
<1>1. Init => MaskInv /\ AlignInv /\ LateInv
  <2>1. Init => LateInv
    <3>1. Init => cpu_state = "fetch" /\ decoder_trigger = FALSE /\ do_waitirq = FALSE
      BY Zenon DEF Init
    <3>2. QED  BY <3>1, SMT DEF LateInv, InData
  <2>2. QED  BY <2>1, MaskInit, InitAlign
<1>2. CoreInv /\ PipeInv /\ MaskInv /\ AlignInv /\ LateInv /\ [Next]_vars
        => MaskInv' /\ AlignInv' /\ LateInv'
  BY MaskKept, AlignKept, LateKept
<1>3. CoreInv /\ PipeInv /\ MaskInv /\ AlignInv /\ LateInv => LaunchCoherent
  <2> SUFFICES ASSUME CoreInv, PipeInv, MaskInv, AlignInv, LateInv, cpu_state = "fetch"
               PROVE  LaunchCoherent
    BY DEF LaunchCoherent
  <2>1. decoder_trigger \/ do_waitirq => current_pc = reg_next_pc
    <3>1. decoder_trigger \/ do_waitirq => irq_state = 0 /\ ~(latched_branch /\ latched_store)
      BY Zenon DEF PipeInv, EntryInv, TargetInv
    <3>2. QED  BY <3>1, SMT DEF current_pc
  <2>2. ASSUME decoder_trigger
        PROVE  /\ dec1.at = Word(current_pc)
               /\ (IF decoder_pseudo_trigger THEN dec2 ELSE mem_rdata_q) = dec1
    BY <2>1, <2>2, Zenon DEF PipeInv, DecodeInv
  <2>3. ASSUME CATCH_MISALIGN, Launch \/ WaitIrq, Odd(current_pc)
        PROVE  irq_delay
    <3>1. ~TakeIrq /\ (decoder_trigger \/ do_waitirq)
      BY <2>3, Zenon DEF Launch, WaitIrq
    <3>2. decoder_trigger /\ Odd(reg_next_pc)
      BY <2>1, <2>3, <3>1, Zenon DEF LateInv
    <3>3. Raisable(irq_buserror) /\ irq_buserror \in irq_pending
      BY <2>3, <3>2, Zenon DEF AlignInv, LateInv
    <3>4. ENABLE_IRQ /\ ~irq_active /\ Pending # {}
      BY <3>3, Zenon DEF Raisable, Pending
    <3>5. QED  BY <3>1, <3>2, <3>4, Zenon DEF TakeIrq
  <2>4. QED  BY <2>2, <2>3 DEF LaunchCoherent
<1>4. QED  BY <1>1, <1>2, <1>3, PipelineInvariant, PTL DEF Spec

-------------------------------------------------------------------------------
(* Dispatch *)

\* What is known of an instruction that went past its first state: a refused one
\* only goes on to the co-processor port, the others are of the state's kind.
DispatchInv ==
  /\ cpu_state = "ld_rs2" => ~ENABLE_REGS_DUALPORT /\ (instr_trap => WITH_PCPI)
  /\ cpu_state \in {"exec", "shift"} => ~instr_trap
  /\ cpu_state \in {"ld_rs2", "exec", "shift"} => dec1.op # "retirq"
  /\ cpu_state = "shift" => dec1.op \in {"slli", "sll"}

LEMMA OperandSteps ==
  ASSUME CoreInv, PipeInv, Step, cpu_state \in Operands
  PROVE  \/ LdRs1Read \/ LdRs1Retirq \/ LdRs1Maskirq \/ LdRs1Timer \/ LdRs1Illegal \/ LdRs1Load
         \/ LdRs1Shift \/ LdRs1Imm \/ LdRs1Default \/ LdRs2Dispatch \/ LdRs1Pcpi \/ LdRs2Pcpi
         \/ Shift
<1>1. ~(FetchIrq \/ FetchWaitirq \/ FetchJal \/ FetchWait \/ FetchLaunch \/ Trapped)
  <2>1. cpu_state # "fetch" /\ cpu_state # "trap"  BY DEF Operands
  <2>2. QED
    BY <2>1, Zenon DEF FetchIrq, FetchWaitirq, FetchJal, FetchWait, FetchLaunch, FetchCommon, InFetch, Trapped
<1>2. ~(ExecWait \/ ExecBranch \/ ExecAlu)
  <2>1. cpu_state # "exec"  BY DEF Operands
  <2>2. QED  BY <2>1, Zenon DEF ExecWait, ExecBranch, ExecAlu, InExec
<1>3. ~(StMem \/ LdMem)
  <2>1. cpu_state \notin InData  BY DEF Operands, InData
  <2>2. QED  BY <2>1, DataActions
<1>4. QED  BY <1>1, <1>2, <1>3 DEF Step

\* The arms an instruction may have, when both decode stages describe it.
LEMMA Arms ==
  ASSUME dec1 = dec2
  PROVE  /\ "trap" \in LdRs1Arms <=> instr_trap
         /\ "load" \in LdRs1Arms => is_load /\ ~instr_trap
         /\ "lui" \in LdRs1Arms \/ "imm" \in LdRs1Arms =>
              dec1.op \in {"lui", "jal", "jalr", "addi", "slli"} /\ ~instr_trap
         /\ "shift" \in LdRs1Arms => dec1.op = "slli" /\ ~instr_trap
         /\ "retirq" \in LdRs1Arms <=> dec1.op = "retirq"
         /\ \A a \in {"csr", "getq", "setq", "maskirq", "timer"} :
              a \in LdRs1Arms => dec1.op = a
         /\ LdRs2Arms \subseteq {"trap", "store", "shift"}
         /\ "trap" \in LdRs2Arms <=> WITH_PCPI /\ instr_trap
         /\ "store" \in LdRs2Arms <=> is_store
         /\ "shift" \in LdRs2Arms => dec1.op = "sll" /\ ~instr_trap
<1>1. /\ "trap" \in LdRs1Arms <=> instr_trap
      /\ "load" \in LdRs1Arms => is_load /\ ~instr_trap
      /\ "retirq" \in LdRs1Arms <=> dec1.op = "retirq"
      /\ \A a \in {"csr", "getq", "setq", "maskirq", "timer"} :
           a \in LdRs1Arms => dec1.op = a
  <2>1. "trap" \in LdRs1Arms <=> instr_trap
    BY SMT DEF LdRs1Arms
  <2>2. "load" \in LdRs1Arms => is_load /\ ~instr_trap
    BY SMT DEF LdRs1Arms, LoadArm
  <2>3. "retirq" \in LdRs1Arms <=> dec1.op = "retirq"
    <3>1. "retirq" \in LdRs1Arms <=> "retirq" \in {dec1.op} \cap {"retirq"}
      BY SMT DEF LdRs1Arms
    <3>2. QED  BY <3>1
  <2>4. \A a \in {"csr", "getq", "setq", "maskirq", "timer"} : a \in LdRs1Arms => dec1.op = a
    BY SMT DEF LdRs1Arms
  <2>5. QED  BY <2>1, <2>2, <2>3, <2>4
<1>2. /\ "lui" \in LdRs1Arms \/ "imm" \in LdRs1Arms =>
           dec1.op \in {"lui", "jal", "jalr", "addi", "slli"}
      /\ "shift" \in LdRs1Arms => dec1.op = "slli"
  BY SMT DEF LdRs1Arms
<1>3. /\ LdRs2Arms \subseteq {"trap", "store", "shift"}
      /\ "trap" \in LdRs2Arms <=> WITH_PCPI /\ instr_trap
      /\ "store" \in LdRs2Arms <=> is_store
      /\ "shift" \in LdRs2Arms => dec1.op = "sll"
  BY SMT DEF LdRs2Arms
<1>4. dec1.op \in {"lui", "jal", "jalr", "addi", "slli", "sll"} => ~instr_trap
  BY SMT DEF instr_trap, Stage1Ops, Stage2Ops
<1>5. QED  BY <1>1, <1>2, <1>3, <1>4, Zenon

LEMMA OperandDispatch ==
  ASSUME CoreInv, PipeInv, DispatchInv, Step, cpu_state \in Operands
  PROVE  DispatchInv'
<1> USE DEF Operands
<1>1. /\ dec1 = dec2 /\ dec1' = dec1 /\ dec2' = dec2 /\ config' = config
  <2>1. OperandMove
    BY OperandSteps, ReadMove, OtherMove, PcpiMove, ShiftMove
  <2>2. QED
    BY <2>1, OperandCycle DEF OperandMove, PipeInv, DecodeInv, Executing
<1>2. /\ instr_trap' <=> instr_trap
      /\ ENABLE_REGS_DUALPORT' <=> ENABLE_REGS_DUALPORT
      /\ WITH_PCPI' <=> WITH_PCPI
  BY <1>1, Zenon DEF instr_trap, ENABLE_REGS_DUALPORT, WITH_PCPI, CATCH_ILLINSN
<1>3. instr_trap => dec1.op # "retirq"
  BY SMT DEF instr_trap, Stage1Ops
<1>4. CASE LdRs1Read \/ LdRs1Retirq \/ LdRs1Maskirq \/ LdRs1Timer \/ LdRs1Illegal \/ LdRs1Load
  <2>1. Goto("fetch") \/ Goto("trap") \/ Goto("ldmem")
    BY <1>4, Zenon DEF LdRs1Read, LdRs1Retirq, LdRs1Maskirq, LdRs1Timer, LdRs1Illegal, Illegal, LdRs1Load
  <2>2. cpu_state' \in {"fetch", "trap", "ldmem"}  BY <2>1, GotoStep
  <2>3. QED  BY <2>2, SMT DEF DispatchInv
<1>5. CASE LdRs1Shift
  <2>1. Goto("shift") /\ "shift" \in LdRs1Arms
    BY <1>5, SMT DEF LdRs1Shift, InLdRs1
  <2>2. QED  BY <1>1, <1>2, <2>1, Arms, GotoStep, SMT DEF DispatchInv
<1>6. CASE LdRs1Imm
  <2>1. Goto("exec") /\ ("lui" \in LdRs1Arms \/ "imm" \in LdRs1Arms)
    BY <1>6, SMT DEF LdRs1Imm, InLdRs1
  <2>2. QED  BY <1>1, <1>2, <2>1, Arms, GotoStep, SMT DEF DispatchInv
<1>7. CASE LdRs1Default
  <2>1. cpu_state = "ld_rs1" /\ LdRs1Arms = {}
    BY <1>7, Zenon DEF LdRs1Default, InLdRs1
  <2>2. ~instr_trap /\ dec1.op # "retirq"
    BY <1>1, <2>1, Arms
  <2>3. \/ Goto("ld_rs2") /\ ~ENABLE_REGS_DUALPORT
        \/ Goto("stmem") \/ Goto("exec")
        \/ Goto("shift") /\ "shift" \in LdRs2Arms
    BY <1>7, Zenon DEF LdRs1Default, WithRs2
  <2>4. "shift" \in LdRs2Arms => dec1.op = "sll"
    BY <1>1, Arms
  <2>5. QED  BY <1>1, <1>2, <2>2, <2>3, <2>4, GotoStep, SMT DEF DispatchInv
<1>8. CASE LdRs2Dispatch
  <2>1. cpu_state = "ld_rs2" /\ LdRs2Arms # {"trap"}
    BY <1>8, Zenon DEF LdRs2Dispatch, InLdRs2
  <2>2. \/ Goto("stmem")
        \/ Goto("shift") /\ "shift" \in LdRs2Arms
        \/ Goto("exec") /\ LdRs2Arms \cap {"store", "shift"} = {}
    BY <1>8, Zenon DEF LdRs2Dispatch, WithRs2
  <2>3. /\ LdRs2Arms \subseteq {"trap", "store", "shift"}
        /\ "trap" \in LdRs2Arms <=> WITH_PCPI /\ instr_trap
        /\ "shift" \in LdRs2Arms => dec1.op = "sll" /\ ~instr_trap
    BY <1>1, Arms
  <2>4. LdRs2Arms \cap {"store", "shift"} = {} => ~instr_trap
    <3>1. LdRs2Arms \cap {"store", "shift"} = {} => "trap" \notin LdRs2Arms
      BY <2>1, <2>3, Zenon
    <3>2. QED  BY <2>1, <2>3, <3>1 DEF DispatchInv
  <2>5. QED  BY <1>1, <1>2, <2>1, <2>2, <2>3, <2>4, GotoStep, SMT DEF DispatchInv
<1>9. CASE LdRs1Pcpi
  <2>1. cpu_state = "ld_rs1" /\ "trap" \in LdRs1Arms /\ WITH_PCPI
    BY <1>9, SMT DEF LdRs1Pcpi, InLdRs1
  <2>2. Goto("fetch") \/ Goto("trap") \/ Goto("ld_rs1") \/ (Goto("ld_rs2") /\ ~ENABLE_REGS_DUALPORT)
    BY <1>9, Zenon DEF LdRs1Pcpi, Pcpi, Illegal
  <2>3. instr_trap  BY <1>1, <2>1, Arms
  <2>4. QED  BY <1>1, <1>2, <1>3, <2>1, <2>2, <2>3, GotoStep, SMT DEF DispatchInv
<1>10. CASE LdRs2Pcpi
  <2>1. cpu_state = "ld_rs2"  BY <1>10, Zenon DEF LdRs2Pcpi, InLdRs2
  <2>2. Goto("fetch") \/ Goto("trap") \/ Goto("ld_rs2")
    BY <1>10, Zenon DEF LdRs2Pcpi, Pcpi, Illegal
  <2>3. QED  BY <1>1, <1>2, <2>1, <2>2, GotoStep, SMT DEF DispatchInv
<1>11. CASE Shift
  <2>1. cpu_state = "shift" /\ (Goto("fetch") \/ Goto("shift"))
    BY <1>11, Zenon DEF Shift
  <2>2. QED  BY <1>1, <1>2, <2>1, GotoStep, SMT DEF DispatchInv
<1>12. QED
  BY <1>4, <1>5, <1>6, <1>7, <1>8, <1>9, <1>10, <1>11, OperandSteps

LEMMA DispatchKept ==
  ASSUME CoreInv, PipeInv, DispatchInv, [Next]_vars
  PROVE  DispatchInv'
<1>1. CASE cpu_state' \notin {"ld_rs2", "exec", "shift"}
  BY <1>1, SMT DEF DispatchInv
<1>2. CASE Step /\ cpu_state' \in {"ld_rs2", "exec", "shift"}
  <2>1. CASE cpu_state \in Operands  BY <1>2, <2>1, OperandDispatch
  <2>2. CASE cpu_state = "exec" /\ ExecMove
    <3>1. cpu_state' = "exec" /\ ~mem_done
      BY <1>2, <2>2, SMT DEF ExecMove
    <3>2. dec1' = dec1 /\ dec2' = dec2 /\ config' = config
      BY <2>2, <3>1, ExecCycle DEF ExecMove
    <3>3. instr_trap' <=> instr_trap
      BY <3>2, Zenon DEF instr_trap, WITH_PCPI, CATCH_ILLINSN
    <3>4. QED  BY <2>2, <3>1, <3>2, <3>3, SMT DEF DispatchInv
  <2>3. ~(FetchMove \/ FetchLaunch \/ Trapped \/ (cpu_state \in InData /\ DataMove))
    <3>1. FetchLaunch \/ Trapped => cpu_state' \in {"ld_rs1", "trap"}
      BY GotoStep, Zenon DEF FetchLaunch, Trapped
    <3>2. QED  BY <1>2, <3>1, SMT DEF FetchMove, DataMove, InData
  <2>4. QED  BY <1>2, <2>1, <2>2, <2>3, StepKind
<1>3. CASE Reset
  <2>1. cpu_state' \in {"fetch", "trap"}  BY <1>3, Zenon DEF Reset
  <2>2. QED  BY <1>1, <2>1
<1>4. CASE UNCHANGED vars
  <2>1. UNCHANGED decVars /\ UNCHANGED cpuVars /\ config' = config
    BY <1>4, Zenon DEF vars
  <2>2. QED
    BY <2>1, Zenon DEF decVars, cpuVars, DispatchInv, instr_trap, ENABLE_REGS_DUALPORT, WITH_PCPI, CATCH_ILLINSN
<1>5. QED  BY <1>1, <1>2, <1>3, <1>4 DEF Next

\* At most one arm of cpu_state_ld_rs1 applies to an instruction.
LEMMA OneArm ==
  ASSUME dec1 = dec2
  PROVE  \E a : LdRs1Arms \subseteq {a}
<1>1. CASE instr_trap
  <2>1. dec1.op \notin Stage1Ops \cup Stage2Ops
    BY <1>1, SMT DEF instr_trap
  <2>2. LdRs1Arms \subseteq {"trap"}
    BY <1>1, <2>1, SMT DEF LdRs1Arms, LoadArm, Stage1Ops, Stage2Ops
  <2>3. QED  BY <2>2
<1>2. CASE ~instr_trap /\ is_load
  <2>1. LdRs1Arms \subseteq {"load"}
    BY <1>2, SMT DEF LdRs1Arms, LoadArm, is_load
  <2>2. QED  BY <2>1
<1>3. CASE ~instr_trap /\ dec1.op \in {"lui", "jal"}
  <2>1. LdRs1Arms \subseteq {"lui"}
    BY <1>3, SMT DEF LdRs1Arms, LoadArm, is_load
  <2>2. QED  BY <2>1
<1>4. CASE ~instr_trap /\ dec1.op = "slli"
  <2>1. LdRs1Arms \subseteq {IF BARREL_SHIFTER THEN "imm" ELSE "shift"}
    BY <1>4, SMT DEF LdRs1Arms, LoadArm, is_load
  <2>2. QED  BY <2>1
<1>5. CASE ~instr_trap /\ dec1.op \in {"jalr", "addi"}
  <2>1. LdRs1Arms \subseteq {"imm"}
    BY <1>5, SMT DEF LdRs1Arms, LoadArm, is_load
  <2>2. QED  BY <2>1
<1>6. CASE ~instr_trap /\ ~is_load /\ dec1.op \notin {"lui", "jal", "slli", "jalr", "addi"}
  <2>1. LdRs1Arms \subseteq {dec1.op}
    BY <1>6, SMT DEF LdRs1Arms, LoadArm
  <2>2. QED  BY <2>1
<1>7. QED  BY <1>1, <1>2, <1>3, <1>4, <1>5, <1>6

LEMMA AtMostOne ==
  ASSUME NEW S, NEW a, S \subseteq {a}
  PROVE  Cardinality(S) <= 1
<1>1. CASE S = {}
  BY <1>1, FS_EmptySet, SMT
<1>2. CASE S = {a}
  BY <1>2, FS_Singleton, SMT
<1>3. QED  BY <1>1, <1>2

\* No setting with a co-processor port and one register port runs a program
\* with stores of illegal width: the instruction matches two arms there.
NoStoreTrap ==
  \A c \in Configs :
    "badstore" \in c.Ops /\ "WITH_PCPI" \in c.on => "ENABLE_REGS_DUALPORT" \in c.on

LEMMA NoTrappedStore ==
  ASSUME NoStoreTrap, CoreInv, PipeInv, DispatchInv, cpu_state = "ld_rs2", is_store
  PROVE  ~instr_trap
<1>1. dec1 = dec2 /\ dec1.op \in config.Ops
  BY DEF PipeInv, DecodeInv, Executing
<1>2. CASE dec1.op = "store"
  BY <1>1, <1>2, SMT DEF instr_trap, Stage2Ops
<1>3. CASE dec1.op = "badstore"
  <2>1. config \in Configs  BY DEF CoreInv, TInv, TypeOK
  <2>2. ~WITH_PCPI \/ ENABLE_REGS_DUALPORT
    BY <1>1, <1>3, <2>1, Zenon DEF NoStoreTrap, WITH_PCPI, ENABLE_REGS_DUALPORT
  <2>3. QED  BY <2>2 DEF DispatchInv
<1>4. QED  BY <1>2, <1>3, SMT DEF is_store

\* At most one arm of each of the three case statements applies, as their
\* attribute parallel_case tells the synthesiser.
THEOREM CasesAreParallel == NoStoreTrap => (Spec => []ParallelCase)
<1> SUFFICES ASSUME NoStoreTrap  PROVE  Spec => []ParallelCase
  OBVIOUS
<1>1. Init => DispatchInv
  <2>1. Init => cpu_state = "fetch"  BY Zenon DEF Init
  <2>2. QED  BY <2>1, SMT DEF DispatchInv
<1>2. CoreInv /\ PipeInv /\ DispatchInv /\ [Next]_vars => DispatchInv'
  BY DispatchKept
<1>3. CoreInv /\ PipeInv /\ DispatchInv => ParallelCase
  <2> SUFFICES ASSUME CoreInv, PipeInv, DispatchInv  PROVE  ParallelCase
    OBVIOUS
  <2>1. cpu_state = "fetch" /\ irq_state # 0 => ~latched_branch /\ ~latched_store
    BY DEF PipeInv, EntryInv
  <2>2. cpu_state \in Executing => dec1 = dec2
    BY DEF PipeInv, DecodeInv
  <2>3. cpu_state = "ld_rs1" => Cardinality(LdRs1Arms) <= 1
    BY <2>2, OneArm, AtMostOne DEF Executing
  <2>4. ASSUME cpu_state = "ld_rs2"
        PROVE  \E a : LdRs2Arms \subseteq {a}
    <3>1. dec1 = dec2  BY <2>2, <2>4 DEF Executing
    <3>2. /\ LdRs2Arms \subseteq {"trap", "store", "shift"}
          /\ "trap" \in LdRs2Arms => instr_trap
          /\ "store" \in LdRs2Arms => ~instr_trap /\ is_store
          /\ "shift" \in LdRs2Arms => dec1.op = "sll" /\ ~instr_trap
      BY <2>4, <3>1, Arms, NoTrappedStore
    <3>3. is_store => dec1.op # "sll"  BY SMT DEF is_store
    <3>4. \/ LdRs2Arms \subseteq {"trap"} \/ LdRs2Arms \subseteq {"store"}
          \/ LdRs2Arms \subseteq {"shift"}
      BY <3>2, <3>3, SMT
    <3>5. QED  BY <3>4
  <2>5. QED  BY <2>1, <2>3, <2>4, AtMostOne DEF ParallelCase
<1>4. QED  BY <1>1, <1>2, <1>3, PipelineInvariant, PTL DEF Spec

-------------------------------------------------------------------------------
(* The steps of ISA *)

AbsStep == [Abs!Next]_(Abs!isaVars)

\* What the mapping gives in the states it tells apart.
LEMMA MappedIr ==
  /\ cpu_state \in {"fetch", "trap"} => absIr = "none"
  /\ cpu_state = "ldmem" => absIr = "load"
  /\ cpu_state = "stmem" => absIr = "store"
  /\ cpu_state \in Executing => absIr = runsAs
  /\ cpu_state' \in {"fetch", "trap"} => absIr' = "none"
  /\ cpu_state' = "ldmem" => absIr' = "load"
  /\ cpu_state' = "stmem" => absIr' = "store"
  /\ cpu_state' \in Executing => absIr' = runsAs'
BY SMT DEF absIr, Executing

LEMMA MappedPc ==
  /\ cpu_state # "fetch" => absPc = reg_pc
  /\ cpu_state' # "fetch" => absPc' = reg_pc'
  /\ cpu_state' = "fetch" /\ ~(latched_branch' /\ latched_store') => absPc' = reg_next_pc'
  /\ cpu_state' = "fetch" /\ latched_branch' /\ latched_store' =>
       absPc' = IF latched_stalu' THEN alu_out_q' ELSE reg_out'
BY Zenon DEF absPc

LEMMA AbsStutter ==
  ASSUME absPc' = absPc, absIr' = absIr, irq_active' = irq_active, config' = config,
         (cpu_state' = "trap") <=> (cpu_state = "trap")
  PROVE  AbsStep
BY DEF AbsStep, Abs!isaVars

LEMMA AbsHalt ==
  ASSUME cpu_state # "trap", cpu_state' = "trap", Abs!Faulty,
         absPc' = absPc, irq_active' = irq_active, config' = config
  PROVE  AbsStep
<1>1. absIr' = "none"  BY MappedIr
<1>2. Abs!Halt  BY <1>1 DEF Abs!Halt, Abs!Idle
<1>3. QED  BY <1>2 DEF AbsStep, Abs!Next

LEMMA AbsFinish ==
  ASSUME cpu_state \in Busy, cpu_state' = "fetch", absIr \notin {"branch", "jalr", "retirq", "none"},
         absIr \in Abs!Undefined /\ CATCH_ILLINSN => WITH_PCPI \/ ENABLE_IRQ,
         absPc' = Plus4(absPc), irq_active' = irq_active, config' = config
  PROVE  AbsStep
<1>1. absIr' = "none"  BY MappedIr
<1>2. cpu_state # "trap"  BY SMT DEF Busy, Executing, InData
<1>3. Abs!Finish
  BY <1>1, <1>2, SMT DEF Abs!Finish, Abs!Idle, Abs!Transfers, CATCH_ILLINSN, WITH_PCPI, ENABLE_IRQ
<1>4. QED  BY <1>3 DEF AbsStep, Abs!Next

\* Where a jump may go to.
LEMMA MappedTargets == Possible(JumpTargets) = Abs!Targets
<1>1. \A a \in JumpTargets : ~Odd(a) <=> a % 2 = 0
  <2>1. JumpTargets \subseteq Int
    BY AddrAssumption, SMT DEF Addr
  <2>2. \A a \in Int : ~Odd(a) <=> a % 2 = 0  BY SMT DEF Odd
  <2>3. QED  BY <2>1, <2>2
<1>2. QED  BY <1>1, Zenon DEF Possible, Abs!Targets, Abs!strict, CATCH_MISALIGN

LEMMA AbsTransfer ==
  ASSUME cpu_state \in Busy, cpu_state' = "fetch", absIr \in {"branch", "jalr", "retirq"},
         absPc' \in Possible(JumpTargets) \/ (absIr = "branch" /\ absPc' = Plus4(absPc)),
         irq_active' <=> irq_active /\ absIr # "retirq", CoreInv, CoreInv', config' = config
  PROVE  AbsStep
<1>1. absIr' = "none"  BY MappedIr
<1>2. cpu_state # "trap"  BY SMT DEF Busy, Executing, InData
<1>3. Possible(JumpTargets) = Abs!Targets  BY MappedTargets
<1>4. irq_active' = (irq_active /\ absIr # "retirq")
  BY DEF CoreInv, TInv, TypeOK, IrqTypeOK
<1>5. Abs!Transfer
  BY <1>1, <1>2, <1>3, <1>4 DEF Abs!Transfer, Abs!Idle, Abs!Transfers
<1>6. QED  BY <1>5 DEF AbsStep, Abs!Next

-------------------------------------------------------------------------------
(* cpu_state_ld_rs1, cpu_state_ld_rs2, cpu_state_shift *)

\* What traps after the case statement.
LEMMA TrapCause ==
  ASSUME NEW s, s # "trap", Goto(s), cpu_state' = "trap"
  PROVE  EbreakDecoded \/ Misaligned
BY Zenon DEF Goto

\* A refused instruction is one that is not defined, and the only such one that
\* executes if CATCH_ILLINSN is set.
LEMMA RefusedIr ==
  ASSUME CoreInv, PipeInv, cpu_state \in Executing
  PROVE  /\ dec1 = dec2
         /\ instr_trap => absIr \in Abs!Undefined
         /\ ~instr_trap /\ absIr \in Abs!Undefined => ~CATCH_ILLINSN
         /\ dec2.op = "ebreak" => absIr = "ebreak"
         /\ dec1.op \notin {"badload", "badstore"} => absIr = dec1.op
<1>1. dec1 = dec2 /\ dec1.op \in AllOps \ {"jal", "waitirq"}
  <2>1. config \in Configs  BY DEF CoreInv, TInv, TypeOK
  <2>2. config.Ops \subseteq AllOps  BY <2>1, ConfigsAssumption
  <2>3. QED  BY <2>2 DEF PipeInv, DecodeInv
<1>2. absIr = runsAs  BY MappedIr
<1>3. instr_trap => runsAs = dec1.op /\ dec1.op \in Abs!Undefined
  BY <1>1, SMT DEF runsAs, instr_trap, Stage1Ops, Stage2Ops, AllOps, Abs!Undefined
<1>4. ~instr_trap /\ runsAs \in Abs!Undefined => ~CATCH_ILLINSN
  BY <1>1, SMT DEF runsAs, instr_trap, is_load, is_store, Stage1Ops, Stage2Ops, Abs!Undefined
<1>5. dec1.op \notin {"badload", "badstore"} => runsAs = dec1.op
  BY SMT DEF runsAs, is_load, is_store
<1>6. QED  BY <1>1, <1>2, <1>3, <1>4, <1>5

\* What the mapping sees of a step from one of these states.
LEMMA OperandView ==
  ASSUME CoreInv, PipeInv, Step, cpu_state \in Operands
  PROVE  /\ dec1 = dec2 /\ cpu_state \in Executing /\ cpu_state \in Busy /\ config' = config
         /\ absPc = reg_pc /\ reg_pc' = reg_pc /\ reg_next_pc' = Plus4(absPc)
         /\ ~latched_branch /\ ~latched_stalu
         /\ cpu_state' # "fetch" => absPc' = absPc
         /\ cpu_state' \in Executing => absIr' = absIr
         /\ ~Misaligned
<1>1. OperandMove
  BY OperandSteps, ReadMove, OtherMove, PcpiMove, ShiftMove
<1>2. /\ cpu_state \in Executing /\ cpu_state \in Busy /\ cpu_state # "fetch"
  BY SMT DEF Operands, Executing, Busy
<1>3. /\ dec1' = dec1 /\ dec2' = dec2 /\ config' = config
      /\ reg_pc' = reg_pc /\ reg_next_pc' = reg_next_pc /\ reg_next_pc = Plus4(reg_pc)
  BY <1>1, OperandCycle DEF OperandMove
<1>4. dec1 = dec2  BY <1>2 DEF PipeInv, DecodeInv
<1>5. ~latched_branch /\ ~latched_stalu
  BY SMT DEF CoreInv, TInv, PcInv, Operands
<1>6. ~Misaligned
  BY OperandQuiet DEF Misaligned, CoreInv
<1>7. runsAs' = runsAs
  BY <1>3, Zenon DEF runsAs, is_load, is_store, instr_trap, WITH_PCPI, CATCH_ILLINSN
<1>8. QED  BY <1>2, <1>3, <1>4, <1>5, <1>6, <1>7, MappedPc, MappedIr

\* An instruction that only reads a register, and retirq.
LEMMA IsaRead ==
  ASSUME CoreInv, CoreInv', PipeInv, Step, LdRs1Read \/ LdRs1Retirq \/ LdRs1Maskirq \/ LdRs1Timer
  PROVE  AbsStep
<1>1. /\ cpu_state = "ld_rs1" /\ Goto("fetch") /\ latched_stalu' = latched_stalu
      /\ LdRs1Retirq \/ (irq_active' = irq_active /\ latched_branch' = latched_branch)
  BY Zenon DEF LdRs1Read, LdRs1Retirq, LdRs1Maskirq, LdRs1Timer, InLdRs1, KeepIrq
<1>2. /\ dec1 = dec2 /\ cpu_state \in Executing /\ cpu_state \in Busy /\ config' = config
      /\ reg_next_pc' = Plus4(absPc)
      /\ ~latched_branch /\ ~latched_stalu
      /\ ~Misaligned
  BY <1>1, OperandView DEF Operands
<1>3. dec1.op \in {"csr", "getq", "setq", "retirq", "maskirq", "timer"}
      /\ (LdRs1Retirq <=> dec1.op = "retirq")
  <2>1. \/ LdRs1Retirq /\ "retirq" \in LdRs1Arms
        \/ \E a \in {"csr", "getq", "setq", "maskirq", "timer"} : a \in LdRs1Arms
    BY SMT DEF LdRs1Read, LdRs1Retirq, LdRs1Maskirq, LdRs1Timer, InLdRs1
  <2>2. LdRs1Retirq => "retirq" \in LdRs1Arms
    BY SMT DEF LdRs1Retirq, InLdRs1
  <2>3. QED  BY <1>2, <2>1, <2>2, Arms
<1>4. absIr = dec1.op
  BY <1>2, <1>3, RefusedIr
<1>5. cpu_state' = "fetch"
  <2>1. ~EbreakDecoded  BY <1>2, <1>3, SMT DEF EbreakDecoded
  <2>2. QED  BY <1>1, <1>2, <2>1, TrapCause, GotoStep
<1>6. CASE LdRs1Retirq
  <2>1. /\ irq_active' = FALSE /\ latched_branch' = TRUE /\ latched_store' = TRUE
        /\ reg_out' \in Possible(JumpTargets)
    BY <1>6, Zenon DEF LdRs1Retirq
  <2>2. absPc' = reg_out'
    BY <1>1, <1>2, <1>5, <2>1, MappedPc
  <2>3. QED  BY <1>2, <1>3, <1>4, <1>5, <1>6, <2>1, <2>2, AbsTransfer
<1>7. CASE ~LdRs1Retirq
  <2>1. absPc' = Plus4(absPc)
    BY <1>1, <1>2, <1>5, <1>7, MappedPc
  <2>2. absIr \notin {"branch", "jalr", "retirq", "none"} /\ absIr \notin Abs!Undefined
    BY <1>3, <1>4, <1>7, SMT DEF Abs!Undefined
  <2>3. QED  BY <1>1, <1>2, <1>5, <1>7, <2>1, <2>2, AbsFinish
<1>8. QED  BY <1>6, <1>7

\* An instruction the core refuses, with or without a co-processor port.
LEMMA IsaRefused ==
  ASSUME CoreInv, PipeInv, Step, LdRs1Pcpi \/ LdRs2Pcpi \/ LdRs1Illegal
  PROVE  AbsStep
<1>1. /\ cpu_state \in Operands
      /\ irq_active' = irq_active /\ latched_branch' = latched_branch
  BY Zenon DEF LdRs1Pcpi, LdRs2Pcpi, LdRs1Illegal, InLdRs1, InLdRs2, KeepIrq, KeepLatches, Operands
<1>2. /\ dec1 = dec2 /\ cpu_state \in Executing /\ cpu_state \in Busy /\ config' = config
      /\ reg_next_pc' = Plus4(absPc)
      /\ ~latched_branch
      /\ cpu_state' # "fetch" => absPc' = absPc
      /\ cpu_state' \in Executing => absIr' = absIr
  BY <1>1, OperandView
<1>3. instr_trap
  <2>1. "trap" \in LdRs1Arms \/ "trap" \in LdRs2Arms
    BY SMT DEF LdRs1Pcpi, LdRs2Pcpi, LdRs1Illegal, InLdRs1
  <2>2. QED  BY <1>2, <2>1, Arms
<1>4. absIr \in Abs!Undefined  BY <1>2, <1>3, RefusedIr
<1>5. cpu_state' \in {"fetch", "trap", "ld_rs1", "ld_rs2"}
  <2>1. Goto("fetch") \/ Goto("trap") \/ Goto("ld_rs1") \/ Goto("ld_rs2")
    BY Zenon DEF LdRs1Pcpi, LdRs2Pcpi, LdRs1Illegal, Pcpi, Illegal
  <2>2. QED  BY <2>1, GotoStep
<1>6. CASE cpu_state' \in {"ld_rs1", "ld_rs2"}
  <2>1. absPc' = absPc /\ absIr' = absIr  BY <1>2, <1>6 DEF Executing
  <2>2. (cpu_state' = "trap") <=> (cpu_state = "trap")
    BY <1>1, <1>6, SMT DEF Operands
  <2>3. QED  BY <1>1, <1>2, <2>1, <2>2, AbsStutter
<1>7. CASE cpu_state' = "trap"
  <2>1. absPc' = absPc /\ cpu_state # "trap"
    BY <1>1, <1>2, <1>7, SMT DEF Operands
  <2>2. Abs!Faulty  BY <1>4 DEF Abs!Faulty
  <2>3. QED  BY <1>1, <1>2, <1>7, <2>1, <2>2, AbsHalt
<1>8. CASE cpu_state' = "fetch"
  <2>1. absPc' = Plus4(absPc)
    BY <1>1, <1>2, <1>8, MappedPc
  <2>2. WITH_PCPI \/ ENABLE_IRQ
    <3>1. "trap" \in LdRs2Arms => WITH_PCPI  BY <1>2, Arms
    <3>2. CASE LdRs1Illegal
      <4>1. Raisable(irq_ebreak) \/ Goto("trap")
        BY <3>2, Zenon DEF LdRs1Illegal, Illegal
      <4>2. Raisable(irq_ebreak)  BY <1>8, <4>1, GotoStep
      <4>3. QED  BY <4>2 DEF Raisable
    <3>3. CASE LdRs1Pcpi \/ LdRs2Pcpi
      BY <3>1, <3>3, Zenon DEF LdRs1Pcpi, LdRs2Pcpi
    <3>4. QED  BY <3>2, <3>3
  <2>3. absIr \notin {"branch", "jalr", "retirq", "none"}
    BY <1>4, SMT DEF Abs!Undefined
  <2>4. QED  BY <1>1, <1>2, <1>8, <2>1, <2>2, <2>3, AbsFinish
<1>9. QED  BY <1>5, <1>6, <1>7, <1>8

\* An instruction on its way to the shifter, the ALU or the memory, and the end
\* of a shift.
LEMMA IsaOther ==
  ASSUME NoStoreTrap, CoreInv, PipeInv, DispatchInv, Step,
         LdRs1Load \/ LdRs1Shift \/ LdRs1Imm \/ LdRs1Default \/ LdRs2Dispatch \/ Shift
  PROVE  AbsStep
<1>1. /\ cpu_state \in Operands
      /\ irq_active' = irq_active /\ latched_branch' = latched_branch
  BY Zenon DEF LdRs1Load, LdRs1Shift, LdRs1Imm, LdRs1Default, LdRs2Dispatch, Shift, InLdRs1, InLdRs2, KeepIrq, KeepLatches, Operands
<1>2. /\ dec1 = dec2 /\ cpu_state \in Executing /\ cpu_state \in Busy /\ config' = config
      /\ reg_next_pc' = Plus4(absPc)
      /\ ~latched_branch /\ ~Misaligned
      /\ cpu_state' # "fetch" => absPc' = absPc
      /\ cpu_state' \in Executing => absIr' = absIr
  BY <1>1, OperandView
<1>3. cpu_state # "trap" /\ absIr = runsAs
  BY <1>1, <1>2, MappedIr, SMT DEF Operands
<1>4. \/ Goto("ldmem") /\ is_load /\ ~instr_trap
      \/ Goto("stmem") /\ is_store /\ ~instr_trap
      \/ \E s \in Executing : Goto(s)
      \/ Goto("fetch") /\ dec1.op \in {"slli", "sll"}
  <2>1. CASE LdRs1Load
    <3>1. "load" \in LdRs1Arms /\ Goto("ldmem")
      BY <2>1, SMT DEF LdRs1Load, InLdRs1
    <3>2. QED  BY <1>2, <3>1, Arms
  <2>2. CASE LdRs1Shift \/ LdRs1Imm
    <3>1. Goto("shift") \/ Goto("exec")
      BY <2>2, Zenon DEF LdRs1Shift, LdRs1Imm
    <3>2. QED  BY <3>1 DEF Executing
  <2>3. CASE LdRs1Default
    <3>1. ~instr_trap
      <4>1. LdRs1Arms = {}  BY <2>3, Zenon DEF LdRs1Default, InLdRs1
      <4>2. QED  BY <1>2, <4>1, Arms
    <3>2. \/ Goto("stmem") /\ "store" \in LdRs2Arms
          \/ Goto("shift") \/ Goto("exec") \/ Goto("ld_rs2")
      BY <2>3, Zenon DEF LdRs1Default, WithRs2
    <3>3. "store" \in LdRs2Arms => is_store  BY <1>2, Arms
    <3>4. QED  BY <3>1, <3>2, <3>3 DEF Executing
  <2>4. CASE LdRs2Dispatch
    <3>1. cpu_state = "ld_rs2"  BY <2>4, Zenon DEF LdRs2Dispatch, InLdRs2
    <3>2. \/ Goto("stmem") /\ "store" \in LdRs2Arms
          \/ Goto("shift") \/ Goto("exec")
      BY <2>4, Zenon DEF LdRs2Dispatch, WithRs2
    <3>3. "store" \in LdRs2Arms => is_store /\ ~instr_trap
      BY <1>2, <3>1, Arms, NoTrappedStore
    <3>4. QED  BY <3>2, <3>3 DEF Executing
  <2>5. CASE Shift
    <3>1. cpu_state = "shift" /\ (Goto("fetch") \/ Goto("shift"))
      BY <2>5, Zenon DEF Shift
    <3>2. dec1.op \in {"slli", "sll"}  BY <3>1 DEF DispatchInv
    <3>3. QED  BY <3>1, <3>2 DEF Executing
  <2>6. QED  BY <2>1, <2>2, <2>3, <2>4, <2>5
<1>5. CASE cpu_state' = "trap"
  <2>1. EbreakDecoded
    <3>1. PICK s : s # "trap" /\ Goto(s)
      BY <1>4, SMT DEF Executing
    <3>2. QED  BY <1>2, <1>5, <3>1, TrapCause
  <2>2. absIr = "ebreak"
    BY <1>2, <2>1, RefusedIr DEF EbreakDecoded
  <2>3. Abs!Faulty  BY <2>2 DEF Abs!Faulty, Abs!Undefined
  <2>4. QED  BY <1>1, <1>2, <1>3, <1>5, <2>3, AbsHalt
<1>6. CASE cpu_state' # "trap" /\ Goto("ldmem") /\ is_load /\ ~instr_trap
  <2>1. cpu_state' = "ldmem"  BY <1>6, GotoStep
  <2>2. absIr = "load"  BY <1>3, <1>6 DEF runsAs
  <2>3. QED  BY <1>1, <1>2, <1>3, <2>1, <2>2, MappedIr, AbsStutter
<1>7. CASE cpu_state' # "trap" /\ Goto("stmem") /\ is_store /\ ~instr_trap
  <2>1. cpu_state' = "stmem"  BY <1>7, GotoStep
  <2>2. ~is_load  BY <1>7, SMT DEF is_load, is_store
  <2>3. absIr = "store"  BY <1>3, <1>7, <2>2 DEF runsAs
  <2>4. QED  BY <1>1, <1>2, <1>3, <2>1, <2>3, MappedIr, AbsStutter
<1>8. CASE cpu_state' # "trap" /\ \E s \in Executing : Goto(s)
  <2>1. cpu_state' \in Executing  BY <1>8, GotoStep
  <2>2. cpu_state' # "fetch"  BY <2>1 DEF Executing
  <2>3. QED  BY <1>1, <1>2, <1>3, <1>8, <2>1, <2>2, AbsStutter
<1>9. CASE cpu_state' # "trap" /\ Goto("fetch") /\ dec1.op \in {"slli", "sll"}
  <2>1. cpu_state' = "fetch"  BY <1>9, GotoStep
  <2>2. absPc' = Plus4(absPc)  BY <1>1, <1>2, <2>1, MappedPc
  <2>3. absIr \in {"slli", "sll"}  BY <1>2, <1>9, RefusedIr
  <2>4. absIr \notin {"branch", "jalr", "retirq", "none"} /\ absIr \notin Abs!Undefined
    BY <2>3, SMT DEF Abs!Undefined
  <2>5. QED  BY <1>1, <1>2, <2>1, <2>2, <2>4, AbsFinish
<1>10. QED  BY <1>4, <1>5, <1>6, <1>7, <1>8, <1>9

-------------------------------------------------------------------------------
(* cpu_state_exec *)

LEMMA IsaExec ==
  ASSUME CoreInv, CoreInv', PipeInv, DispatchInv, Step, cpu_state = "exec"
  PROVE  AbsStep
<1>1. ExecMove /\ (ExecWait \/ ExecBranch \/ ExecAlu)
  BY ExecSteps, ExecActions
<1>2. /\ config' = config /\ reg_pc' = reg_pc /\ reg_next_pc' = Plus4(reg_pc)
      /\ dec2' = dec2 /\ (~mem_done => dec1' = dec1)
      /\ ~mem_do_rdata /\ ~mem_do_wdata
      /\ irq_active' = irq_active /\ cpu_state' \in {"exec", "fetch", "trap"}
      /\ cpu_state' = "exec" => ~mem_done
  BY <1>1, ExecCycle, SMT DEF ExecMove
<1>3. /\ cpu_state \in Executing /\ cpu_state \in Busy /\ cpu_state # "fetch" /\ cpu_state # "trap"
      /\ absPc = reg_pc /\ (cpu_state' # "fetch" => absPc' = absPc)
      /\ absIr = runsAs
  BY <1>2, MappedPc, MappedIr, SMT DEF Executing, Busy
<1>4. /\ dec1 = dec2
      /\ ~instr_trap /\ absIr \in Abs!Undefined => ~CATCH_ILLINSN
      /\ dec2.op = "ebreak" => absIr = "ebreak"
      /\ dec1.op \notin {"badload", "badstore"} => absIr = dec1.op
  BY <1>3, RefusedIr
<1>5. ~instr_trap /\ dec1.op # "retirq"  BY DEF DispatchInv
<1>6. \/ ExecWait /\ Goto("exec")
      \/ ExecBranch /\ (Goto("fetch") \/ Goto("exec"))
      \/ ExecAlu /\ Goto("fetch")
  BY <1>1, Zenon DEF ExecWait, ExecBranch, ExecAlu
<1>7. CASE cpu_state' = "exec"
  <2>1. dec1' = dec1 /\ ~mem_done  BY <1>2, <1>7
  <2>2. runsAs' = runsAs
    BY <1>2, <2>1, Zenon DEF runsAs, is_load, is_store, instr_trap, WITH_PCPI, CATCH_ILLINSN
  <2>3. absIr' = absIr  BY <1>3, <1>7, <2>2, MappedIr DEF Executing
  <2>4. QED  BY <1>2, <1>3, <1>7, <2>3, AbsStutter
<1>8. CASE cpu_state' = "trap"
  <2>1. EbreakDecoded \/ Misaligned
    BY <1>6, <1>8, TrapCause
  <2>2. CASE EbreakDecoded
    <3>1. absIr = "ebreak"  BY <1>4, <2>2 DEF EbreakDecoded
    <3>2. Abs!Faulty  BY <3>1 DEF Abs!Faulty, Abs!Undefined
    <3>3. QED  BY <1>2, <1>3, <1>8, <3>2, AbsHalt
  <2>3. CASE Misaligned
    <3>1. CATCH_MISALIGN /\ Odd(reg_pc)  BY <1>2, <2>3, Zenon DEF Misaligned
    <3>2. Abs!Faulty
      BY <1>3, <3>1, Zenon DEF Abs!Faulty, Abs!strict, CATCH_MISALIGN, Odd
    <3>3. QED  BY <1>2, <1>3, <1>8, <3>2, AbsHalt
  <2>4. QED  BY <2>1, <2>2, <2>3
<1>9. CASE cpu_state' = "fetch" /\ ExecBranch
  <2>1. dec1.op = "branch"  BY <1>9, Zenon DEF ExecBranch, is_branch
  <2>2. absIr = "branch"  BY <1>4, <2>1
  <2>3. /\ latched_store' = BranchTaken /\ latched_branch' = BranchTaken
        /\ reg_out' \in Possible(JumpTargets) /\ latched_stalu' = latched_stalu
    BY <1>9, Zenon DEF ExecBranch
  <2>4. ~latched_stalu  BY SMT DEF CoreInv, TInv, PcInv
  <2>5. CASE BranchTaken
    <3>1. latched_branch' /\ latched_store' /\ ~latched_stalu'  BY <2>3, <2>4, <2>5, Zenon
    <3>2. absPc' = reg_out'  BY <1>9, <3>1, MappedPc
    <3>3. QED  BY <1>2, <1>3, <1>9, <2>2, <2>3, <3>2, AbsTransfer
  <2>6. CASE ~BranchTaken
    <3>1. ~latched_branch'  BY <2>3, <2>6, Zenon
    <3>2. absPc' = Plus4(absPc)  BY <1>2, <1>3, <1>9, <3>1, MappedPc
    <3>3. QED  BY <1>2, <1>3, <1>9, <2>2, <3>2, AbsTransfer
  <2>7. QED  BY <2>5, <2>6
<1>10. CASE cpu_state' = "fetch" /\ ExecAlu
  <2>1. dec1.op # "branch"  BY <1>10, Zenon DEF ExecAlu, is_branch
  <2>2. /\ latched_branch' = (dec1.op = "jalr") /\ latched_store' = TRUE /\ latched_stalu' = TRUE
        /\ alu_out_q' \in IF dec1.op = "jalr" THEN Possible(JumpTargets) ELSE {X}
    BY <1>10, Zenon DEF ExecAlu
  <2>3. CASE dec1.op = "jalr"
    <3>1. latched_branch' /\ latched_store' /\ latched_stalu'  BY <2>2, <2>3, Zenon
    <3>2. absPc' = alu_out_q' /\ absPc' \in Possible(JumpTargets)
      BY <1>10, <2>2, <2>3, <3>1, MappedPc
    <3>3. absIr = "jalr"  BY <1>4, <2>3
    <3>4. QED  BY <1>2, <1>3, <1>10, <3>2, <3>3, AbsTransfer
  <2>4. CASE dec1.op # "jalr"
    <3>1. ~latched_branch'  BY <2>2, <2>4, Zenon
    <3>2. absPc' = Plus4(absPc)  BY <1>2, <1>3, <1>10, <3>1, MappedPc
    <3>3. absIr \notin {"branch", "jalr", "retirq", "none"}
      <4>1. dec1.op # "none"
        <5>1. config \in Configs  BY DEF CoreInv, TInv, TypeOK
        <5>2. dec1.op \in AllOps
          BY <1>3, <5>1, ConfigsAssumption DEF PipeInv, DecodeInv
        <5>3. QED  BY <5>2, SMT DEF AllOps
      <4>2. QED  BY <1>3, <1>5, <2>1, <2>4, <4>1, SMT DEF runsAs
    <3>4. absIr \in Abs!Undefined => ~CATCH_ILLINSN  BY <1>4, <1>5
    <3>5. QED  BY <1>2, <1>3, <1>10, <3>2, <3>3, <3>4, AbsFinish
  <2>5. QED  BY <2>3, <2>4
<1>11. cpu_state' = "fetch" => ExecBranch \/ ExecAlu
  <2>1. Goto("exec") => cpu_state' # "fetch"  BY GotoStep
  <2>2. QED  BY <1>6, <2>1
<1>12. QED  BY <1>2, <1>7, <1>8, <1>9, <1>10, <1>11

-------------------------------------------------------------------------------
(* cpu_state_stmem, cpu_state_ldmem *)

LEMMA IsaData ==
  ASSUME CoreInv, PipeInv, Step, cpu_state \in InData
  PROVE  AbsStep
<1>1. DataMove
  <2>1. cpu_state # "exec" /\ cpu_state \notin Operands /\ cpu_state # "fetch" /\ cpu_state # "trap"
    BY SMT DEF InData, Operands
  <2>2. ~(FetchMove \/ FetchLaunch \/ Trapped)
    BY <2>1, Zenon DEF FetchMove, FetchLaunch, FetchCommon, InFetch, Trapped
  <2>3. QED  BY <2>1, <2>2, StepKind
<1>2. /\ config' = config /\ reg_pc' = reg_pc /\ reg_next_pc' = Plus4(reg_pc)
      /\ ~latched_branch'
      /\ irq_active' = irq_active /\ cpu_state' \in {cpu_state, "fetch", "trap"}
  BY <1>1, DataCycle, Zenon DEF DataMove
<1>3. /\ cpu_state \in Busy /\ cpu_state # "fetch" /\ cpu_state # "trap"
      /\ absPc = reg_pc /\ (cpu_state' # "fetch" => absPc' = absPc)
      /\ absIr \in {"load", "store"}
  BY <1>2, MappedPc, MappedIr, SMT DEF InData, Busy
<1>4. CASE cpu_state' = cpu_state
  <2>1. absIr' = absIr  BY <1>4, MappedIr, SMT DEF InData
  <2>2. QED  BY <1>2, <1>3, <1>4, <2>1, AbsStutter
<1>5. CASE cpu_state' = "trap"
  <2>1. EbreakDecoded \/ Misaligned
    <3>1. PICK s : s # "trap" /\ Goto(s)
      <4>1. StMem \/ LdMem => Goto("stmem") \/ Goto("ldmem") \/ Goto("fetch")
        BY Zenon DEF StMem, LdMem, MemWaitFetch, MemRequest, MemWaitData, MemFinish
      <4>2. StMem \/ LdMem
        <5>1. ~(FetchIrq \/ FetchWaitirq \/ FetchJal \/ FetchWait \/ FetchLaunch \/ Trapped)
          BY <1>3, Zenon DEF FetchIrq, FetchWaitirq, FetchJal, FetchWait, FetchLaunch, FetchCommon, InFetch, Trapped
        <5>2. cpu_state # "exec" /\ cpu_state \notin Operands
          BY SMT DEF InData, Operands
        <5>3. QED  BY <5>1, <5>2, ReadMove, OtherMove, PcpiMove, ShiftMove, ExecActions DEF Step
      <4>3. QED  BY <4>1, <4>2
    <3>2. QED  BY <1>5, <3>1, TrapCause
  <2>2. Abs!Faulty
    BY <1>3, <2>1, Zenon DEF Abs!Faulty, Abs!strict, EbreakDecoded, Misaligned, CATCH_MISALIGN, CATCH_ILLINSN
  <2>3. QED  BY <1>2, <1>3, <1>5, <2>2, AbsHalt
<1>6. CASE cpu_state' = "fetch"
  <2>1. absPc' = Plus4(absPc)  BY <1>2, <1>3, <1>6, MappedPc
  <2>2. absIr \notin {"branch", "jalr", "retirq", "none"} /\ absIr \notin Abs!Undefined
    BY <1>3, SMT DEF Abs!Undefined
  <2>3. QED  BY <1>2, <1>3, <1>6, <2>1, <2>2, AbsFinish
<1>7. QED  BY <1>2, <1>4, <1>5, <1>6

-------------------------------------------------------------------------------
(* cpu_state_fetch *)

\* What the mapping sees of a step from this state; with an instruction at hand
\* nothing stops the core.
LEMMA FetchView ==
  ASSUME CoreInv, PipeInv, FetchCommon
  PROVE  /\ cpu_state = "fetch" /\ config' = config /\ reg_pc' = current_pc
         /\ absIr = "none" /\ (cpu_state' \in {"fetch", "trap"} => absIr' = "none")
         /\ irq_state # 1 => current_pc = absPc
         /\ cpu_state' # "fetch" => absPc' = current_pc
         /\ decoder_trigger \/ do_waitirq =>
              /\ ~EbreakDecoded /\ ~Misaligned
              /\ irq_state = 0 /\ current_pc = absPc /\ absPc = reg_next_pc
<1>1. /\ cpu_state = "fetch" /\ config' = config /\ reg_pc' = current_pc
      /\ decoder_trigger \/ do_waitirq => Silent /\ irq_state = 0 /\ current_pc = reg_next_pc
  BY FetchCycle
<1>2. absIr = "none" /\ (cpu_state' \in {"fetch", "trap"} => absIr' = "none")
  BY <1>1, MappedIr
<1>3. irq_state # 1 => current_pc = absPc
  BY <1>1, Zenon DEF current_pc, absPc
<1>4. cpu_state' # "fetch" => absPc' = current_pc
  BY <1>1, MappedPc
<1>5. ASSUME decoder_trigger \/ do_waitirq
      PROVE  ~EbreakDecoded /\ ~Misaligned
  <2>1. ~Misaligned  BY <1>1, <1>5, Zenon DEF Misaligned, Silent
  <2>2. decoder_trigger => ~decoder_trigger_q  BY <1>1 DEF PipeInv, TriggerInv
  <2>3. EbreakDecoded => irq_state = 1 \/ (~decoder_trigger /\ ~do_waitirq)
    BY <1>1, Zenon DEF PipeInv, StopInv, EbreakDecoded
  <2>4. irq_state # 1  BY <1>1, <1>5
  <2>5. QED  BY <1>5, <2>1, <2>3, <2>4
<1>6. decoder_trigger \/ do_waitirq => irq_state = 0 /\ current_pc = absPc /\ absPc = reg_next_pc
  BY <1>1, <1>3
<1>7. QED  BY <1>1, <1>2, <1>3, <1>4, <1>5, <1>6

\* What stops the core in this state.
LEMMA FetchStops ==
  ASSUME CoreInv, PipeInv, AlignInv, FetchCommon, Goto("fetch"), cpu_state' = "trap",
         irq_state # 1, irq_active' = irq_active
  PROVE  AbsStep
<1>1. /\ cpu_state = "fetch" /\ config' = config
      /\ absIr' = "none" /\ current_pc = absPc /\ absPc' = absPc
  BY FetchView
<1>2. EbreakDecoded \/ (Misaligned /\ ~Raisable(irq_buserror))
  BY Zenon DEF Goto
<1>3. CASE EbreakDecoded
  <2>1. /\ ~latched_branch /\ reg_next_pc = PROGADDR_RESET
        /\ ~irq_active /\ ~CATCH_ILLINSN
    BY <1>1, <1>3, Zenon DEF PipeInv, StopInv, EbreakDecoded
  <2>2. absPc' = PROGADDR_RESET  BY <1>1, <2>1 DEF absPc
  <2>3. irq_active' = FALSE
    BY <2>1 DEF CoreInv, TInv, TypeOK, IrqTypeOK
  <2>4. Abs!Restart
    BY <1>1, <2>1, <2>2, <2>3 DEF Abs!Restart, Abs!MayStop, Abs!Idle, CATCH_ILLINSN
  <2>5. QED  BY <2>4 DEF AbsStep, Abs!Next
<1>4. CASE Misaligned /\ ~Raisable(irq_buserror)
  <2>1. ~mem_do_rdata /\ ~mem_do_wdata  BY FetchCycle
  <2>2. CATCH_MISALIGN /\ mem_do_rinst /\ Odd(reg_pc)
    BY <1>4, <2>1, Zenon DEF Misaligned
  <2>3. Odd(absPc)  BY <1>1, <1>4, <2>2, Zenon DEF AlignInv
  <2>4. Abs!Faulty
    BY <2>2, <2>3, Zenon DEF Abs!Faulty, Abs!strict, CATCH_MISALIGN, Odd
  <2>5. QED  BY <1>1, <2>4, AbsHalt
<1>5. QED  BY <1>2, <1>3, <1>4

\* A launch, a jump and the end of waitirq.
LEMMA IsaLaunch ==
  ASSUME CoreInv, PipeInv, FetchLaunch \/ FetchJal \/ FetchWaitirq
  PROVE  AbsStep
<1>1. FetchCommon /\ UNCHANGED <<irq_active>>
      /\ (Goto("fetch") \/ Goto("ld_rs1"))
      /\ (decoder_trigger \/ do_waitirq)
  BY Zenon DEF FetchLaunch, FetchJal, FetchWaitirq, Launch, WaitIrq
<1>2. /\ cpu_state = "fetch" /\ config' = config /\ irq_active' = irq_active
      /\ absIr = "none" /\ (cpu_state' = "fetch" => absIr' = "none")
      /\ cpu_state' # "fetch" => absPc' = absPc
      /\ ~EbreakDecoded /\ ~Misaligned
      /\ current_pc = absPc
  BY <1>1, FetchView
<1>3. cpu_state' # "trap"  BY <1>1, <1>2, TrapCause
<1>4. CASE FetchLaunch
  <2>1. cpu_state' = "ld_rs1"
    <3>1. Goto("ld_rs1")  BY <1>4, Zenon DEF FetchLaunch
    <3>2. QED  BY <1>3, <3>1, GotoStep
  <2>2. dec1'.op \in AllOps \ {"jal", "waitirq"}
    <3>1. dec1' = dec1 /\ dec1.op \in config.Ops \ {"jal", "waitirq"}
      BY <1>4, FetchLaunchPipe
    <3>2. config \in Configs  BY DEF CoreInv, TInv, TypeOK
    <3>3. config.Ops \subseteq AllOps  BY <3>2, ConfigsAssumption
    <3>4. QED  BY <3>1, <3>3
  <2>3. absIr' = runsAs'  BY <2>1, MappedIr DEF Executing
  <2>4. runsAs' \in AllOps \ {"jal", "waitirq"}
    BY <2>2, SMT DEF runsAs, AllOps
  <2>5. Abs!Begin
    BY <1>2, <2>1, <2>3, <2>4, SMT DEF Abs!Begin, Abs!Idle
  <2>6. QED  BY <2>5 DEF AbsStep, Abs!Next
<1>5. CASE FetchJal
  <2>1. cpu_state' = "fetch"
    <3>1. Goto("fetch")  BY <1>5, Zenon DEF FetchJal
    <3>2. QED  BY <1>3, <3>1, GotoStep
  <2>2. reg_next_pc' \in Possible(JumpTargets) /\ latched_store' = FALSE
    BY <1>5, Zenon DEF FetchJal
  <2>3. absPc' = reg_next_pc'  BY <2>1, <2>2, MappedPc
  <2>4. Abs!Jump
    BY <1>2, <2>1, <2>2, <2>3, MappedTargets, SMT DEF Abs!Jump, Abs!Idle, AllOps
  <2>5. QED  BY <2>4 DEF AbsStep, Abs!Next
<1>6. CASE FetchWaitirq
  <2>1. cpu_state' = "fetch"
    <3>1. Goto("fetch")  BY <1>6, Zenon DEF FetchWaitirq
    <3>2. QED  BY <1>3, <3>1, GotoStep
  <2>2. /\ latched_branch' = FALSE
        /\ reg_next_pc' = IF irq_pending # {} THEN Plus4(current_pc) ELSE current_pc
    BY <1>6, Zenon DEF FetchWaitirq
  <2>3. absPc' = reg_next_pc'  BY <2>1, <2>2, MappedPc
  <2>4. CASE irq_pending = {}
    BY <1>2, <2>1, <2>2, <2>3, <2>4, AbsStutter
  <2>5. CASE irq_pending # {}
    <3>1. absPc' = Plus4(absPc)  BY <1>2, <2>2, <2>3, <2>5
    <3>2. Abs!Wait
      BY <1>2, <2>1, <3>1, SMT DEF Abs!Wait, Abs!Idle, AllOps
    <3>3. QED  BY <3>2 DEF AbsStep, Abs!Next
  <2>6. QED  BY <2>4, <2>5
<1>7. QED  BY <1>4, <1>5, <1>6

\* Waiting for the next instruction, and the interrupt sequence.
LEMMA IsaAwait ==
  ASSUME CoreInv, PipeInv, AlignInv, FetchWait \/ FetchIrq
  PROVE  AbsStep
<1>1. FetchCommon /\ Goto("fetch")
      /\ reg_next_pc' = current_pc /\ latched_branch' = FALSE
  BY Zenon DEF FetchWait, FetchIrq
<1>2. /\ cpu_state = "fetch" /\ config' = config
      /\ absIr = "none" /\ absIr' = "none"
      /\ irq_state # 1 => current_pc = absPc
      /\ cpu_state' \in {"fetch", "trap"}
  BY <1>1, FetchView, GotoStep
<1>3. absPc' = current_pc
  BY <1>1, <1>2, FetchView, MappedPc
<1>4. irq_state \in {0, 1, 2}  BY SMT DEF CoreInv, TInv, TypeOK, IrqTypeOK
<1>5. CASE irq_state # 1
  <2>1. irq_active' <=> irq_active
    <3>1. FetchWait => irq_active' = irq_active  BY Zenon DEF FetchWait
    <3>2. FetchIrq => (irq_active' <=> irq_active)
      BY <1>5, FetchIrqMove, Zenon DEF EntryMove
    <3>3. QED  BY <3>1, <3>2
  <2>2. irq_active' = irq_active
    <3>1. irq_active \in BOOLEAN  BY DEF CoreInv, TInv, TypeOK, IrqTypeOK
    <3>2. irq_active' \in BOOLEAN
      BY <3>1, Zenon DEF FetchWait, FetchIrq
    <3>3. QED  BY <2>1, <3>1, <3>2
  <2>3. CASE cpu_state' = "trap"
    BY <1>1, <1>5, <2>2, <2>3, FetchStops
  <2>4. CASE cpu_state' = "fetch"
    BY <1>2, <1>3, <1>5, <2>2, <2>4, AbsStutter
  <2>5. QED  BY <1>2, <2>3, <2>4
<1>6. CASE irq_state = 1
  <2>1. FetchIrq
    <3>1. ENABLE_IRQ  BY <1>6, SMT DEF PipeInv, EntryInv
    <3>2. TakeIrq  BY <1>6, <3>1, SMT DEF TakeIrq
    <3>3. QED  BY <3>2, Zenon DEF FetchWait
  <2>2. ~irq_active /\ Silent /\ ~latched_branch /\ ~latched_store
    BY <1>2, <1>6, SMT DEF PipeInv, EntryInv
  <2>3. IrqArm /\ current_pc = PROGADDR_IRQ
    <3>1. IrqArm  BY <1>6, <2>2, SMT DEF IrqArm
    <3>2. QED  BY <1>6, <2>2, <3>1, Zenon DEF current_pc
  <2>4. irq_active' = TRUE
    <3>1. irq_active' = (irq_active \/ (IrqArm /\ irq_state = 1))
      BY <2>1, Zenon DEF FetchIrq
    <3>2. QED  BY <1>6, <2>3, <3>1
  <2>5. cpu_state' = "trap" => ~CATCH_ILLINSN
    <3>1. ~Misaligned  BY <2>2, Zenon DEF Misaligned, Silent
    <3>2. QED  BY <1>1, <3>1, TrapCause, Zenon DEF EbreakDecoded
  <2>6. (cpu_state' = "trap") \in Abs!MayStop
    BY <2>5 DEF Abs!MayStop, CATCH_ILLINSN
  <2>7. Abs!Interrupt
    BY <1>2, <1>3, <2>2, <2>3, <2>4, <2>6 DEF Abs!Interrupt, Abs!Idle
  <2>8. QED  BY <2>7 DEF AbsStep, Abs!Next
<1>7. QED  BY <1>5, <1>6

-------------------------------------------------------------------------------
(* The refinement *)

LEMMA IsaStep ==
  ASSUME NoStoreTrap, CoreInv, CoreInv', PipeInv, AlignInv, DispatchInv, Step
  PROVE  AbsStep
<1>1. CASE cpu_state = "fetch"
  BY <1>1, FetchSteps, IsaLaunch, IsaAwait
<1>2. CASE cpu_state \in Operands
  BY <1>2, OperandSteps, IsaRead, IsaRefused, IsaOther
<1>3. CASE cpu_state = "exec"  BY <1>3, IsaExec
<1>4. CASE cpu_state \in InData  BY <1>4, IsaData
<1>5. CASE cpu_state = "trap"
  <2>1. Trapped  BY <1>5, TrappedSteps
  <2>2. /\ cpu_state' = "trap" /\ reg_pc' = reg_pc /\ irq_active' = irq_active
        /\ config' = config
    BY <2>1, GotoStep, Zenon DEF Trapped, KeepIrq, Every
  <2>3. absIr' = absIr /\ absPc' = absPc
    BY <1>5, <2>2, MappedIr, MappedPc
  <2>4. QED  BY <1>5, <2>2, <2>3, AbsStutter
<1>6. cpu_state \in {"fetch", "exec", "trap"} \cup Operands \cup InData
  BY SMT DEF CoreInv, TInv, TypeOK, CpuTypeOK, CpuStates, Operands, InData
<1>7. QED  BY <1>1, <1>2, <1>3, <1>4, <1>5, <1>6

LEMMA IsaReset ==
  ASSUME Reset
  PROVE  AbsStep
<1>1. /\ cpu_state' = (IF EbreakDecoded THEN "trap" ELSE "fetch")
      /\ reg_pc' = PROGADDR_RESET /\ reg_next_pc' = PROGADDR_RESET
      /\ latched_branch' = FALSE /\ irq_active' = FALSE /\ config' = config
  BY Zenon DEF Reset
<1>2. absPc' = PROGADDR_RESET /\ absIr' = "none"
  BY <1>1, MappedPc, MappedIr
<1>3. cpu_state' = "trap" => ~CATCH_ILLINSN
  BY <1>1, SMT DEF EbreakDecoded
<1>4. Abs!Restart
  BY <1>1, <1>2, <1>3 DEF Abs!Restart, Abs!MayStop, Abs!Idle, CATCH_ILLINSN
<1>5. QED  BY <1>4 DEF AbsStep, Abs!Next

LEMMA IsaStutter ==
  ASSUME UNCHANGED vars
  PROVE  AbsStep
<1>1. /\ UNCHANGED decVars /\ UNCHANGED cpuVars /\ UNCHANGED latVars /\ UNCHANGED aluVars
      /\ UNCHANGED irqVars /\ config' = config
  BY Zenon DEF vars
<1>2. cpu_state' = cpu_state /\ absPc' = absPc /\ irq_active' = irq_active
  BY <1>1, Zenon DEF cpuVars, latVars, aluVars, irqVars, absPc
<1>3. runsAs' = runsAs
  BY <1>1, Zenon DEF decVars, runsAs, is_load, is_store, instr_trap, WITH_PCPI, CATCH_ILLINSN
<1>4. absIr' = absIr
  BY <1>2, <1>3, SMT DEF absIr
<1>5. QED  BY <1>1, <1>2, <1>4, AbsStutter

LEMMA IsaInit ==
  ASSUME Init
  PROVE  Abs!Init
<1>1. /\ cpu_state = "fetch" /\ reg_next_pc = PROGADDR_RESET
      /\ latched_branch = FALSE /\ irq_active = FALSE /\ config \in Configs
  BY Zenon DEF Init
<1>2. absPc = PROGADDR_RESET  BY <1>1 DEF absPc
<1>3. absIr = "none"  BY <1>1, SMT DEF absIr
<1>4. config.on \subseteq Switches  BY <1>1, ConfigsAssumption
<1>5. QED  BY <1>1, <1>2, <1>3, <1>4 DEF Abs!Init, Abs!Idle

\* The core implements the instruction set ISA describes: for every setting,
\* program and memory timing its pipeline, its prefetches and the interrupt
\* sequence are invisible to the programmer.
THEOREM ImplementsInstructionSet == NoStoreTrap => (Spec => ImplementsISA)
<1> SUFFICES ASSUME NoStoreTrap  PROVE  Spec => ImplementsISA
  OBVIOUS
<1>1. Init => MaskInv /\ AlignInv /\ DispatchInv
  <2>1. Init => cpu_state = "fetch"  BY Zenon DEF Init
  <2>2. Init => DispatchInv  BY <2>1, SMT DEF DispatchInv
  <2>3. QED  BY <2>2, MaskInit, InitAlign
<1>2. CoreInv /\ PipeInv /\ MaskInv /\ AlignInv /\ DispatchInv /\ [Next]_vars
        => MaskInv' /\ AlignInv' /\ DispatchInv'
  BY MaskKept, AlignKept, DispatchKept
<1>3. Init => Abs!Init  BY IsaInit
<1>4. CoreInv /\ CoreInv' /\ PipeInv /\ AlignInv /\ DispatchInv /\ [Next]_vars => AbsStep
  BY IsaStep, IsaReset, IsaStutter DEF Next
<1>5. AbsStep => [Abs!Next]_(Abs!isaVars)  BY DEF AbsStep
<1>6. QED
  BY <1>1, <1>2, <1>3, <1>4, <1>5, PipelineInvariant, PTL DEF Spec, ImplementsISA, Abs!Spec

===============================================================================
