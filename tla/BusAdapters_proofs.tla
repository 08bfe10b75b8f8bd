-------------------------- MODULE BusAdapters_proofs --------------------------
(***************************************************************************)
(* Every top the core is built into keeps the promise of MemoryPort, for   *)
(* any addresses, data and address decoder: whatever the device takes      *)
(* first, however late it answers and whenever reset comes, each transfer  *)
(* is performed once and a read gets its own answer.                       *)
(***************************************************************************)
EXTENDS BusAdapters, Naturals, Sequences, TLAPS

-------------------------------------------------------------------------------
(* The promise, step by step *)

\* The transfer the core is at, and its entry in the record of what was performed.
Now == [write |-> mem_wstrb, addr |-> mem_addr, data |-> mem_addr]
Entry(answer) == <<[transfer |-> Now, answer |-> answer]>>
Answer(value) == IF mem_wstrb THEN {} ELSE {value}

Log == {<<>>} \cup {<<entry>> : entry \in [transfer : Port!Transfer, answer : SUBSET Data]}

LEMMA LogType ==
  ASSUME NEW log \in Log
  PROVE  log \in Seq([transfer : Port!Transfer, answer : SUBSET Data]) /\ Len(log) <= 1
<1>1. CASE log = <<>> BY <1>1
<1>2. CASE log # <<>>
  <2>1. PICK entry \in [transfer : Port!Transfer, answer : SUBSET Data] : log = <<entry>>
    BY <1>2 DEF Log
  <2>. QED BY <2>1
<1>. QED BY <1>1, <1>2

LEMMA NowType == MasterTypeOK => Now \in Port!Transfer
  BY DEF MasterTypeOK, Now, Port!Transfer

LEMMA EntryType ==
  ASSUME MasterTypeOK, NEW answer \in SUBSET Data
  PROVE  Entry(answer) \in Log /\ Entry(answer) # <<>> /\ Entry(answer)[1].answer = answer
<1>1. [transfer |-> Now, answer |-> answer] \in [transfer : Port!Transfer, answer : SUBSET Data]
  BY NowType
<1>. QED BY <1>1 DEF Entry, Log

LEMMA AnswerType ==
  ASSUME MasterTypeOK, NEW value \in Data
  PROVE  Answer(value) \in SUBSET Data /\ Answer(value) \in Port!Answers(Now)
  BY DEF MasterTypeOK, Answer, Now, Port!Answers

\* What a clock of the core is to the port.
LEMMA PortForget ==
  ASSUME ~mem_valid, ~mem_valid', performed' = <<>>, result' = result
  PROVE  Port!Next
  BY DEF pending, Port!Next, Port!Forget

LEMMA PortRequest ==
  ASSUME ~mem_valid, mem_valid', mem_addr' \in Addr, mem_wstrb' \in BOOLEAN, result' = result,
         \/ performed' = <<>>
         \/ \E value \in Data : performed' = (Entry(Answer(value)))'
  PROVE  Port!Next
<1>1. (Now)' \in Port!Transfer BY DEF Now, Port!Transfer
<1>2. pending = {} /\ pending' = {(Now)'} BY DEF pending, Now
<1>3. performed' \in {<<>>} \cup
        {<<[transfer |-> (Now)', answer |-> answer]>> : answer \in Port!Answers((Now)')}
  <2>1. CASE performed' = <<>> BY <2>1
  <2>2. ASSUME NEW value \in Data, performed' = (Entry(Answer(value)))'
        PROVE performed' \in
                {<<[transfer |-> (Now)', answer |-> answer]>> : answer \in Port!Answers((Now)')}
    <3>1. (Answer(value))' \in Port!Answers((Now)') BY DEF Answer, Now, Port!Answers
    <3>. QED BY <2>2, <3>1 DEF Entry
  <2>. QED BY <2>1, <2>2
<1>. QED BY <1>1, <1>2, <1>3 DEF Port!Next, Port!Request

LEMMA PortPerform ==
  ASSUME MasterTypeOK, mem_valid, UNCHANGED masterVars, result' = result,
         performed = <<>>, NEW value \in Data, performed' = Entry(Answer(value))
  PROVE  Port!Next
<1>1. pending = {Now} /\ pending' = pending BY DEF pending, Now, masterVars
<1>. QED BY <1>1, AnswerType DEF Entry, Port!Next, Port!Perform, Port!Performs

LEMMA PortReturn ==
  ASSUME MasterTypeOK, mem_valid, ~mem_valid', NEW value \in Data,
         performed' = Entry(Answer(value)), performed = <<>> \/ performed = Entry(Answer(value)),
         result' = IF mem_wstrb THEN result ELSE value
  PROVE  Port!Next
<1>1. pending = {Now} /\ pending' = {} BY DEF pending, Now
<1>2. performed'[1].answer = Answer(value) BY AnswerType, EntryType
<1>3. result' \in IF Answer(value) = {} THEN {result} ELSE Answer(value) BY DEF Answer
<1>4. Port!Performs \/ (performed # <<>> /\ performed' = performed)
  BY <1>1, AnswerType, EntryType DEF Port!Performs, Entry
<1>. QED BY <1>1, <1>2, <1>3, <1>4 DEF Port!Next, Port!Return

LEMMA PortAbandon ==
  ASSUME MasterTypeOK, mem_valid, ~mem_valid', result' = result,
         \/ performed' = performed
         \/ performed = <<>> /\ \E value \in Data : performed' = Entry(Answer(value))
  PROVE  Port!Next
<1>1. pending = {Now} /\ pending' = {} BY DEF pending, Now
<1>. QED BY <1>1, AnswerType DEF Entry, Port!Next, Port!Abandon, Port!Performs

LEMMA MasterTypes ==
  ASSUME MasterTypeOK, NEW ready, MasterStep(ready) \/ MasterReset
  PROVE  MasterTypeOK'
  BY DEF MasterTypeOK, MasterStep, Begin, Rest, Wait, Finish, MasterReset, masterVars

-------------------------------------------------------------------------------
(* picorv32_wb *)

\* The state machine follows the transfer of the core: a strobe is for the transfer it
\* is at, and the answer is on its way to it in the one cycle after.
WbInv ==
  /\ MasterTypeOK /\ performed \in Log /\ result \in Data
  /\ state \in {"IDLE", "WBSTART", "WBEND"} /\ wbm_adr_o \in Addr
  /\ wbm_we_o \in BOOLEAN /\ wbm_stb_o \in BOOLEAN /\ wbm_cyc_o \in BOOLEAN
  /\ mem_ready \in BOOLEAN /\ mem_rdata \in Data
  /\ wbm_ack_i \in BOOLEAN /\ wbm_dat_i \in Data
  /\ wbm_stb_o <=> state = "WBSTART"
  /\ wbm_cyc_o <=> state = "WBSTART"
  /\ wbm_ack_i => state = "WBSTART"
  /\ state = "IDLE" /\ mem_valid => ~mem_ready /\ performed = <<>>
  /\ state = "WBSTART" => /\ mem_valid /\ ~mem_ready /\ performed = <<>>
                          /\ wbm_adr_o = mem_addr /\ wbm_we_o = mem_wstrb
  /\ state = "WBEND" => /\ mem_valid /\ mem_ready /\ wbm_adr_o = mem_addr
                        /\ performed = Entry(Answer(mem_rdata))

\* An acknowledged strobe performs the transfer of the core.
LEMMA WbPerformed ==
  ASSUME WbInv, Wb!Strobe, wbm_ack_i, Wb!Perform
  PROVE  performed' = Entry(Answer(wbm_dat_i))
<1>1. mem_valid /\ performed = <<>> /\ wbm_adr_o = mem_addr /\ wbm_we_o = mem_wstrb
  BY DEF WbInv
<1>2. Wb!Performed = <<>> BY <1>1 DEF Wb!Performed
<1>3. performed' = Append(<<>>, [transfer |-> Now, answer |-> Answer(wbm_dat_i)])
  BY <1>1, <1>2 DEF Wb!Perform, Now, Answer
<1>. QED BY <1>3 DEF Entry

LEMMA WbSignals ==
  ASSUME Wb!Signals, wbm_stb_o' <=> state' = "WBSTART", wbm_cyc_o' <=> state' = "WBSTART"
  PROVE  wbm_ack_i' \in BOOLEAN /\ wbm_dat_i' \in Data /\ (wbm_ack_i' => state' = "WBSTART")
  BY DEF Wb!Signals, Wb!Strobe

LEMMA WbClockStep ==
  ASSUME WbInv, Wb!Clock
  PROVE  WbInv' /\ [Port!Next]_(Port!portVars) /\ Wb!CycleStays
<1> USE DEF WbInv
<1>1. MasterTypeOK'
  BY MasterTypes DEF Wb!Clock, Wb!MasterStep, Wb!Begin, Wb!Rest, Wb!Wait, Wb!Finish, MasterStep,
     Begin, Rest, Wait, Finish, Wb!masterVars, masterVars
<1>2. CASE Wb!IdleStart
  <2>1. /\ state = "IDLE" /\ mem_valid /\ ~mem_ready /\ performed = <<>>
        /\ state' = "WBSTART" /\ wbm_adr_o' = mem_addr /\ wbm_we_o' = mem_wstrb
        /\ wbm_stb_o' = TRUE /\ wbm_cyc_o' = TRUE
        /\ mem_ready' = mem_ready /\ mem_rdata' = mem_rdata
    BY <1>2 DEF Wb!IdleStart
  <2>2. UNCHANGED masterVars
    BY <2>1 DEF Wb!Clock, Wb!MasterStep, Wb!Begin, Wb!Rest, Wb!Wait, Wb!Finish, Wb!masterVars,
                masterVars
  <2>3. performed' = <<>> /\ result' = result
    BY <2>1 DEF Wb!Clock, Wb!Strobe, Wb!NoPerform, Wb!Performed
  <2>4. WbInv'
    BY <1>1, <2>1, <2>2, <2>3, WbSignals DEF Wb!Clock, masterVars, Log, MasterTypeOK
  <2>5. UNCHANGED Port!portVars BY <2>1, <2>2, <2>3 DEF masterVars, pending, Port!portVars
  <2>. QED BY <2>1, <2>4, <2>5 DEF Wb!CycleStays, Wb!Strobe
<1>3. CASE Wb!Idle
  <2>1. /\ state = "IDLE" /\ ~mem_valid /\ state' = "IDLE"
        /\ wbm_adr_o' = wbm_adr_o /\ wbm_we_o' = FALSE
        /\ wbm_stb_o' = FALSE /\ wbm_cyc_o' = FALSE
        /\ mem_ready' = FALSE /\ mem_rdata' = mem_rdata
    BY <1>3 DEF Wb!Idle
  <2>2. performed' = <<>> /\ result' = result
    BY <2>1 DEF Wb!Clock, Wb!Strobe, Wb!NoPerform, Wb!Performed
  <2>3. WbInv'
    BY <1>1, <2>1, <2>2, WbSignals DEF Wb!Clock, Log
  <2>4. Port!Next
    <3>1. CASE mem_valid' BY <1>1, <2>1, <2>2, <3>1, PortRequest DEF MasterTypeOK
    <3>2. CASE ~mem_valid' BY <2>1, <2>2, <3>2, PortForget
    <3>. QED BY <3>1, <3>2
  <2>. QED BY <2>1, <2>3, <2>4 DEF Wb!CycleStays, Wb!Strobe
<1>4. CASE Wb!WbWait
  <2>1. /\ state = "WBSTART" /\ ~wbm_ack_i /\ mem_valid /\ ~mem_ready /\ performed = <<>>
        /\ UNCHANGED <<state, wbm_adr_o, wbm_we_o, wbm_stb_o, wbm_cyc_o, mem_ready, mem_rdata>>
    BY <1>4 DEF Wb!WbWait, Wb!wbVars
  <2>2. UNCHANGED masterVars
    BY <2>1 DEF Wb!Clock, Wb!MasterStep, Wb!Begin, Wb!Rest, Wb!Wait, Wb!Finish, Wb!masterVars,
                masterVars
  <2>3. performed' = <<>> /\ result' = result
    BY <2>1 DEF Wb!Clock, Wb!Strobe, Wb!NoPerform, Wb!Performed
  <2>4. WbInv'
    BY <1>1, <2>1, <2>2, <2>3, WbSignals DEF Wb!Clock, masterVars, Log
  <2>5. UNCHANGED Port!portVars BY <2>1, <2>2, <2>3 DEF masterVars, pending, Port!portVars
  <2>. QED BY <2>1, <2>4, <2>5 DEF Wb!CycleStays, Wb!Strobe
<1>5. CASE Wb!WbAck
  <2>1. /\ state = "WBSTART" /\ wbm_ack_i /\ mem_valid /\ ~mem_ready /\ performed = <<>>
        /\ wbm_adr_o = mem_addr
        /\ state' = "WBEND" /\ wbm_adr_o' = wbm_adr_o /\ wbm_we_o' = FALSE
        /\ wbm_stb_o' = FALSE /\ wbm_cyc_o' = FALSE
        /\ mem_ready' = TRUE /\ mem_rdata' = wbm_dat_i
    BY <1>5 DEF Wb!WbAck
  <2>2. UNCHANGED masterVars
    BY <2>1 DEF Wb!Clock, Wb!MasterStep, Wb!Begin, Wb!Rest, Wb!Wait, Wb!Finish, Wb!masterVars,
                masterVars
  <2>3. Wb!Strobe BY <2>1 DEF Wb!Strobe
  <2>4. performed' = Entry(Answer(wbm_dat_i)) /\ result' = result
    BY <2>1, <2>3, WbPerformed DEF Wb!Clock
  <2>5. performed' \in Log BY <2>4, AnswerType, EntryType
  <2>6. performed' = (Entry(Answer(mem_rdata)))'
    BY <2>1, <2>2, <2>4 DEF Entry, Answer, Now, masterVars
  <2>7. WbInv'
    BY <1>1, <2>1, <2>2, <2>4, <2>5, <2>6, WbSignals DEF Wb!Clock, masterVars
  <2>8. Port!Next BY <2>1, <2>2, <2>4, PortPerform
  <2>. QED BY <2>1, <2>7, <2>8 DEF Wb!CycleStays, Wb!Strobe
<1>6. CASE Wb!WbEnd
  <2>1. /\ state = "WBEND" /\ mem_valid /\ mem_ready /\ performed = Entry(Answer(mem_rdata))
        /\ state' = "IDLE" /\ mem_ready' = FALSE
        /\ UNCHANGED <<wbm_adr_o, wbm_we_o, wbm_stb_o, wbm_cyc_o, mem_rdata>>
    BY <1>6 DEF Wb!WbEnd
  <2>2. ~mem_valid'
    BY <2>1 DEF Wb!Clock, Wb!MasterStep, Wb!Begin, Wb!Rest, Wb!Wait, Wb!Finish
  <2>3. performed' = performed /\ result' = IF mem_wstrb THEN result ELSE mem_rdata
    BY <2>1 DEF Wb!Clock, Wb!Strobe, Wb!NoPerform, Wb!Performed
  <2>4. result' \in Data BY <2>3
  <2>5. WbInv'
    BY <1>1, <2>1, <2>2, <2>3, <2>4, WbSignals DEF Wb!Clock
  <2>6. Port!Next BY <2>1, <2>2, <2>3, PortReturn
  <2>. QED BY <2>1, <2>5, <2>6 DEF Wb!CycleStays, Wb!Strobe
<1>. QED BY <1>2, <1>3, <1>4, <1>5, <1>6 DEF Wb!Clock, Wb!Adapter

LEMMA WbResetStep ==
  ASSUME WbInv, Wb!Reset
  PROVE  WbInv' /\ Port!Next
<1> USE DEF WbInv
<1>1. /\ ~mem_valid' /\ MasterTypeOK' /\ result' = result
      /\ state' = "IDLE" /\ wbm_adr_o' \in Addr /\ wbm_we_o' = FALSE
      /\ wbm_stb_o' = FALSE /\ wbm_cyc_o' = FALSE
      /\ mem_ready' = mem_ready /\ mem_rdata' = mem_rdata
  BY DEF Wb!Reset, Wb!MasterReset, Wb!AdapterReset, MasterTypeOK
<1>2. CASE Wb!Strobe /\ wbm_ack_i /\ Wb!Perform
  <2>1. mem_valid /\ performed = <<>> BY <1>2
  <2>2. performed' = Entry(Answer(wbm_dat_i)) BY <1>2, WbPerformed
  <2>3. performed' \in Log BY <2>2, AnswerType, EntryType
  <2>4. WbInv' BY <1>1, <2>3, WbSignals DEF Wb!Reset
  <2>5. Port!Next BY <1>1, <2>1, <2>2, PortAbandon
  <2>. QED BY <2>4, <2>5
<1>3. CASE Wb!NoPerform
  <2>1. performed' = IF mem_valid THEN performed ELSE <<>>
    BY <1>3 DEF Wb!NoPerform, Wb!Performed
  <2>2. WbInv' BY <1>1, <2>1, WbSignals DEF Wb!Reset, Log
  <2>3. Port!Next BY <1>1, <2>1, PortAbandon, PortForget
  <2>. QED BY <2>2, <2>3
<1>. QED BY <1>2, <1>3 DEF Wb!Reset

-------------------------------------------------------------------------------
(* system: the two memory paths of the SoC *)

\* On the fast path a transfer has been performed when it appears; on the slow path it
\* is waiting, or is a read whose sample is in the pipeline, or has been answered.
SysWaiting == performed = <<>> /\ ~sys_ready /\ ~m_read_en
SysSampled ==
  /\ ~sys_ready /\ m_read_en /\ ~mem_wstrb /\ mem_addr \in Ram
  /\ performed = Entry(Answer(m_read_data))
SysAnswered ==
  /\ sys_ready
  /\ \E value \in Data : performed = Entry(Answer(value)) /\ (~mem_wstrb => sys_rdata = value)
  /\ fast \/ Sys!Decoded(mem_wstrb, mem_addr)
SysInv ==
  /\ MasterTypeOK /\ performed \in Log /\ result \in Data
  /\ fast \in BOOLEAN /\ sys_ready \in BOOLEAN /\ sys_rdata \in Data
  /\ m_read_en \in BOOLEAN /\ m_read_data \in Data
  /\ mem_valid => SysAnswered \/ (~fast /\ (SysWaiting \/ SysSampled))

LEMMA SysPerformed == Sys!NoPerform => performed' = IF mem_valid THEN performed ELSE <<>>
  BY DEF Sys!NoPerform, Sys!Performed

\* The access of a transfer, with its answer.
LEMMA SysAccess ==
  ASSUME MasterTypeOK, Data # {}, NEW access \in Sys!Accesses(mem_wstrb, mem_addr)
  PROVE  \E value \in Data : access = [transfer |-> Now, answer |-> Answer(value)]
  BY DEF Sys!Accesses, Now, Answer

\* The clock of the fast path, with or without a transfer beginning.
LEMMA FastClockStep ==
  ASSUME SysInv, fast, Sys!Clock
  PROVE  SysInv' /\ Port!Next
<1> USE DEF SysInv
<1>1. MasterTypeOK' /\ fast' = fast
  BY DEF Sys!Clock, Sys!MasterStep, Sys!Begin, Sys!Rest, Sys!Wait, Sys!Finish, Sys!masterVars,
         MasterTypeOK
<1>2. Sys!FastStep BY DEF Sys!Clock
<1>3. sys_ready' = TRUE /\ m_read_en' = m_read_en /\ m_read_data' = m_read_data
  BY <1>2 DEF Sys!FastStep
<1>4. CASE Sys!Begin
  <2>1. ~mem_valid /\ mem_valid' BY <1>4 DEF Sys!Begin
  <2>2. result' = result BY <2>1 DEF Sys!Clock
  <2>3. Sys!FastAccess BY <1>2, <1>4 DEF Sys!FastStep
  <2>4. PICK access \in Sys!Accesses(mem_wstrb', mem_addr') :
          /\ performed' = <<access>>
          /\ sys_rdata' \in IF access.answer = {} THEN Data ELSE access.answer
    BY <2>3 DEF Sys!FastAccess
  <2>5. PICK value \in Data : access = [transfer |-> (Now)', answer |-> (Answer(value))']
    BY <2>4 DEF Sys!Accesses, Now, Answer
  <2>6. performed' = (Entry(Answer(value)))' BY <2>4, <2>5 DEF Entry
  <2>7. /\ ~mem_wstrb' => sys_rdata' = value
        /\ sys_rdata' \in Data
    BY <2>4, <2>5 DEF Answer
  <2>8. performed' \in Log
    <3>1. access \in [transfer : Port!Transfer, answer : SUBSET Data]
      BY <1>1, <2>5 DEF Now, Answer, Port!Transfer, MasterTypeOK
    <3>. QED BY <2>4, <3>1 DEF Log
  <2>9. SysAnswered' BY <1>1, <1>3, <2>6, <2>7 DEF SysAnswered
  <2>10. SysInv' BY <1>1, <1>3, <2>2, <2>7, <2>8, <2>9
  <2>11. Port!Next BY <1>1, <2>1, <2>2, <2>6, PortRequest DEF MasterTypeOK
  <2>. QED BY <2>10, <2>11
<1>5. CASE ~Sys!Begin
  <2>1. performed' = (IF mem_valid THEN performed ELSE <<>>) /\ sys_rdata' \in Data
    BY <1>2, <1>5, SysPerformed DEF Sys!FastStep
  <2>2. ~mem_valid'
    BY <1>5 DEF SysAnswered, Sys!Clock, Sys!MasterStep, Sys!Rest, Sys!Wait, Sys!Finish,
                Sys!masterVars
  <2>3. performed' \in Log /\ result' \in Data BY <2>1 DEF Log, Sys!Clock
  <2>4. SysInv' BY <1>1, <1>3, <2>1, <2>2, <2>3
  <2>5. CASE mem_valid
    <3>1. PICK value \in Data :
            performed = Entry(Answer(value)) /\ (~mem_wstrb => sys_rdata = value)
      BY <2>5 DEF SysAnswered
    <3>2. sys_ready BY <2>5 DEF SysAnswered
    <3>3. result' = IF mem_wstrb THEN result ELSE value
      BY <2>5, <3>1, <3>2 DEF Sys!Clock, MasterTypeOK
    <3>. QED BY <2>1, <2>2, <2>4, <2>5, <3>1, <3>3, PortReturn
  <2>6. CASE ~mem_valid
    <3>1. result' = result BY <2>6 DEF Sys!Clock
    <3>. QED BY <2>1, <2>2, <2>4, <2>6, <3>1, PortForget
  <2>. QED BY <2>5, <2>6
<1>. QED BY <1>4, <1>5

\* What the case statement of the slow path does to the transfer the core is at: it is
\* sampled, or answered, or nothing is performed.
LEMMA SlowPerforms ==
  ASSUME SysInv, ~fast, NEW ready \in BOOLEAN, NEW rdata \in Data,
         Sys!SlowCase([ready |-> ready, rdata |-> rdata])
  PROVE  /\ sys_ready' \in BOOLEAN /\ sys_rdata' \in Data
         /\ m_read_en' \in BOOLEAN /\ m_read_data' \in Data
         /\ \/ /\ performed' = IF mem_valid THEN performed ELSE <<>>
               /\ sys_ready' = ready /\ sys_rdata' = rdata
               /\ m_read_en' => Sys!RamRead /\ performed # <<>>
               /\ Sys!RamRead \/ ~(Sys!RegisterRead \/ Sys!Write)
            \/ /\ Sys!RamRead /\ performed = <<>>
               /\ performed' = Entry(Answer(m_read_data'))
               /\ sys_ready' = ready /\ m_read_en'
            \/ /\ Sys!RegisterRead \/ Sys!Write
               /\ sys_ready' /\ ~m_read_en'
               /\ \E value \in Data :
                    performed' = Entry(Answer(value)) /\ (~mem_wstrb => sys_rdata' = value)
               /\ performed = <<>>
<1> USE DEF SysInv
<1>1. Sys!RamRead => ~Sys!RegisterRead /\ ~Sys!Write
  BY DecoderAssumption DEF Sys!RamRead, Sys!RegisterRead, Sys!Write
<1>2. CASE Sys!RamRead /\ Sys!Sample
  <2>1. /\ m_read_en' = TRUE /\ sys_ready' = ready /\ sys_rdata' = rdata
    BY <1>1, <1>2 DEF Sys!SlowCase
  <2>2. ~mem_wstrb /\ mem_valid BY <1>2 DEF Sys!RamRead, Sys!Offered
  <2>3. PICK access \in Sys!Accesses(FALSE, mem_addr) :
          IF performed = <<>>
          THEN performed' = <<access>> /\ m_read_data' \in access.answer
          ELSE Sys!NoPerform /\ m_read_data' \in Data
    BY <1>2 DEF Sys!Sample
  <2>4. PICK value \in Data : access = [transfer |-> Now, answer |-> Answer(value)]
    BY <2>2, <2>3 DEF Sys!Accesses, Now, Answer, MasterTypeOK
  <2>5. CASE performed = <<>>
    <3>1. m_read_data' = value BY <2>2, <2>3, <2>4, <2>5 DEF Answer
    <3>2. performed' = Entry(Answer(value)) BY <2>3, <2>4, <2>5 DEF Entry
    <3>. QED BY <1>2, <2>1, <2>5, <3>1, <3>2
  <2>6. CASE performed # <<>>
    BY <1>2, <2>1, <2>3, <2>6, SysPerformed
  <2>. QED BY <2>5, <2>6
<1>3. CASE Sys!RegisterRead \/ Sys!Write
  <2>1. CASE ~Sys!RamRead
    <3>1. /\ Sys!Answer([ready |-> ready, rdata |-> rdata])
          /\ m_read_en' = FALSE /\ m_read_data' \in Data
      BY <1>3, <2>1 DEF Sys!SlowCase
    <3>2. PICK access \in Sys!Accesses(mem_wstrb, mem_addr) :
            /\ performed' = Append(performed, access)
            /\ sys_rdata' \in IF Sys!RegisterRead THEN access.answer ELSE {rdata}
      BY <3>1 DEF Sys!Answer
    <3>3. sys_ready' = TRUE BY <3>1 DEF Sys!Answer
    <3>4. PICK value \in Data : access = [transfer |-> Now, answer |-> Answer(value)]
      BY <3>2, SysAccess
    <3>5. performed = <<>>
      BY <1>3, <1>1 DEF Sys!RegisterRead, Sys!Write, Sys!Offered, SysAnswered, SysWaiting,
                        SysSampled, Sys!RamRead
    <3>6. performed' = Entry(Answer(value)) BY <3>2, <3>4, <3>5 DEF Entry
    <3>7. /\ ~mem_wstrb => sys_rdata' = value
          /\ sys_rdata' \in Data
      <4>1. CASE Sys!RegisterRead
        <5>1. ~mem_wstrb BY <4>1 DEF Sys!RegisterRead
        <5>. QED BY <3>2, <3>4, <4>1, <5>1 DEF Answer
      <4>2. CASE ~Sys!RegisterRead
        <5>1. mem_wstrb BY <1>3, <4>2 DEF Sys!Write
        <5>. QED BY <3>2, <4>2, <5>1
      <4>. QED BY <4>1, <4>2
    <3>. QED BY <1>3, <3>1, <3>3, <3>5, <3>6, <3>7
  <2>. QED BY <1>1, <1>3, <2>1
<1>4. CASE ~(Sys!RamRead \/ Sys!RegisterRead \/ Sys!Write)
  <2>1. /\ Sys!NoPerform /\ m_read_en' = FALSE /\ m_read_data' \in Data
        /\ sys_ready' = ready /\ sys_rdata' = rdata
    BY <1>4 DEF Sys!SlowCase
  <2>. QED BY <1>4, <2>1, SysPerformed
<1>. QED BY <1>2, <1>3, <1>4 DEF Sys!SlowCase

LEMMA SlowClockStep ==
  ASSUME SysInv, ~fast, Sys!Clock
  PROVE  SysInv' /\ [Port!Next]_(Port!portVars)
<1> USE DEF SysInv
<1>1. MasterTypeOK' /\ fast' = fast
  BY DEF Sys!Clock, Sys!MasterStep, Sys!Begin, Sys!Rest, Sys!Wait, Sys!Finish, Sys!masterVars,
         MasterTypeOK
<1>2. Sys!SlowCase([ready |-> Sys!Offered /\ m_read_en, rdata |-> m_read_data])
  BY DEF Sys!Clock, Sys!Pipeline
<1>3. (Sys!Offered /\ m_read_en) \in BOOLEAN OBVIOUS
<1>4. CASE ~mem_valid
  <2>1. ~Sys!Offered /\ ~Sys!RamRead /\ ~Sys!RegisterRead /\ ~Sys!Write
    BY <1>4 DEF Sys!Offered, Sys!RamRead, Sys!RegisterRead, Sys!Write
  <2>2. /\ performed' = <<>> /\ ~sys_ready' /\ ~m_read_en'
        /\ sys_ready' \in BOOLEAN /\ sys_rdata' \in Data
        /\ m_read_en' \in BOOLEAN /\ m_read_data' \in Data
    BY <1>2, <1>3, <1>4, <2>1, SlowPerforms
  <2>3. result' = result BY <1>4 DEF Sys!Clock
  <2>4. SysInv' BY <1>1, <2>2, <2>3 DEF SysWaiting, Log
  <2>5. Port!Next
    <3>1. CASE mem_valid' BY <1>1, <1>4, <2>2, <2>3, <3>1, PortRequest DEF MasterTypeOK
    <3>2. CASE ~mem_valid' BY <1>4, <2>2, <2>3, <3>2, PortForget
    <3>. QED BY <3>1, <3>2
  <2>. QED BY <2>4, <2>5
<1>5. CASE mem_valid /\ sys_ready
  <2>1. ~Sys!Offered /\ ~Sys!RamRead /\ ~Sys!RegisterRead /\ ~Sys!Write
    BY <1>5 DEF Sys!Offered, Sys!RamRead, Sys!RegisterRead, Sys!Write
  <2>2. /\ performed' = performed /\ sys_ready' \in BOOLEAN /\ sys_rdata' \in Data
        /\ m_read_en' \in BOOLEAN /\ m_read_data' \in Data
    BY <1>2, <1>3, <1>5, <2>1, SlowPerforms
  <2>3. ~mem_valid'
    BY <1>5 DEF Sys!Clock, Sys!MasterStep, Sys!Begin, Sys!Rest, Sys!Wait, Sys!Finish
  <2>4. PICK value \in Data :
          performed = Entry(Answer(value)) /\ (~mem_wstrb => sys_rdata = value)
    BY <1>5 DEF SysAnswered, SysWaiting, SysSampled
  <2>5. result' = IF mem_wstrb THEN result ELSE value
    BY <1>5, <2>4 DEF Sys!Clock, MasterTypeOK
  <2>6. SysInv' BY <1>1, <2>2, <2>3, <2>5
  <2>7. Port!Next BY <1>5, <2>2, <2>3, <2>4, <2>5, PortReturn
  <2>. QED BY <2>6, <2>7
<1>6. CASE mem_valid /\ ~sys_ready
  <2>1. UNCHANGED masterVars /\ result' = result
    BY <1>6 DEF Sys!Clock, Sys!MasterStep, Sys!Begin, Sys!Rest, Sys!Wait, Sys!Finish,
                Sys!masterVars, masterVars
  <2>2. Sys!Offered BY <1>6 DEF Sys!Offered
  <2>3. SysWaiting \/ SysSampled BY <1>6 DEF SysAnswered
  <2>4. /\ sys_ready' \in BOOLEAN /\ sys_rdata' \in Data
        /\ m_read_en' \in BOOLEAN /\ m_read_data' \in Data
    BY <1>2, <1>3, SlowPerforms
  <2>5. CASE SysWaiting /\ performed' = performed
    <3>1. ~sys_ready' /\ ~m_read_en'
      BY <1>2, <1>3, <1>6, <2>5, SlowPerforms, EntryType, AnswerType DEF SysWaiting
    <3>2. SysInv' BY <1>1, <2>1, <2>4, <2>5, <3>1 DEF SysWaiting
    <3>3. UNCHANGED Port!portVars BY <2>1, <2>5 DEF Port!portVars, pending, masterVars
    <3>. QED BY <3>2, <3>3
  <2>6. CASE SysWaiting /\ performed' # performed
    <3>1. PICK value \in Data : performed' = Entry(Answer(value))
      BY <1>2, <1>3, <1>6, <2>4, <2>6, SlowPerforms
    <3>2. SysSampled' \/ SysAnswered'
      <4>1. CASE Sys!RamRead
        <5>1. ~sys_ready' /\ m_read_en' /\ performed' = Entry(Answer(m_read_data'))
          BY <1>2, <1>3, <1>6, <2>6, <4>1, SlowPerforms, DecoderAssumption
          DEF SysWaiting, Sys!RamRead, Sys!RegisterRead, Sys!Write
        <5>. QED
          BY <2>1, <4>1, <5>1 DEF SysSampled, Sys!RamRead, masterVars, Entry, Answer, Now
      <4>2. CASE ~Sys!RamRead
        <5>1. /\ Sys!RegisterRead \/ Sys!Write
              /\ sys_ready'
              /\ \E v \in Data : performed' = Entry(Answer(v)) /\ (~mem_wstrb => sys_rdata' = v)
          BY <1>2, <1>3, <1>6, <2>6, <4>2, SlowPerforms
        <5>2. Sys!Decoded(mem_wstrb, mem_addr)
          BY <5>1 DEF Sys!Decoded, Sys!RegisterRead, Sys!Write
        <5>. QED
          BY <2>1, <5>1, <5>2
          DEF SysAnswered, Sys!Decoded, masterVars, Entry, Answer, Now
      <4>. QED BY <4>1, <4>2
    <3>3. performed' \in Log BY <3>1, AnswerType, EntryType
    <3>4. SysInv' BY <1>1, <2>1, <2>4, <3>2, <3>3
    <3>5. Port!Next BY <1>6, <2>1, <2>6, <3>1, PortPerform DEF SysWaiting
    <3>. QED BY <3>4, <3>5
  <2>7. CASE SysSampled
    <3>1. Sys!RamRead /\ performed # <<>>
      BY <1>6, <2>2, <2>7, EntryType, AnswerType DEF SysSampled, Sys!RamRead
    <3>2. performed' = performed /\ sys_ready' /\ sys_rdata' = m_read_data
      BY <1>2, <1>3, <1>6, <2>2, <2>7, <3>1, SlowPerforms DEF SysSampled
    <3>3. SysAnswered'
      BY <2>1, <2>7, <3>2 DEF SysAnswered, SysSampled, Sys!Decoded, masterVars, Entry, Answer, Now
    <3>4. SysInv' BY <1>1, <2>1, <2>4, <3>2, <3>3
    <3>5. UNCHANGED Port!portVars BY <2>1, <3>2 DEF Port!portVars, pending, masterVars
    <3>. QED BY <3>4, <3>5
  <2>. QED BY <2>3, <2>5, <2>6, <2>7
<1>. QED BY <1>4, <1>5, <1>6

LEMMA SysResetStep ==
  ASSUME SysInv, Sys!Reset
  PROVE  SysInv' /\ Port!Next
<1> USE DEF SysInv
<1>1. /\ ~mem_valid' /\ MasterTypeOK' /\ result' = result /\ fast' = fast
  BY DEF Sys!Reset, Sys!MasterReset, MasterTypeOK
<1>2. CASE fast
  <2>1. /\ sys_ready' = FALSE /\ Sys!NoPerform
        /\ UNCHANGED <<sys_rdata, m_read_en, m_read_data>>
    BY <1>2 DEF Sys!Reset, Sys!FastReset
  <2>2. performed' = IF mem_valid THEN performed ELSE <<>> BY <2>1, SysPerformed
  <2>3. SysInv' BY <1>1, <2>1, <2>2 DEF Log
  <2>4. Port!Next BY <1>1, <2>2, PortAbandon, PortForget
  <2>. QED BY <2>3, <2>4
<1>3. CASE ~fast
  <2>1. Sys!SlowCase([ready |-> FALSE, rdata |-> sys_rdata])
    BY <1>3 DEF Sys!Reset, Sys!ResetDefaults
  <2>2. /\ sys_ready' \in BOOLEAN /\ sys_rdata' \in Data
        /\ m_read_en' \in BOOLEAN /\ m_read_data' \in Data
    BY <1>3, <2>1, SlowPerforms
  <2>3. \/ performed' = IF mem_valid THEN performed ELSE <<>>
        \/ /\ mem_valid /\ performed = <<>>
           /\ \E value \in Data : performed' = Entry(Answer(value))
    BY <1>3, <2>1, <2>2, SlowPerforms
    DEF Sys!RamRead, Sys!RegisterRead, Sys!Write, Sys!Offered
  <2>4. performed' \in Log BY <2>3, AnswerType, EntryType DEF Log
  <2>5. SysInv' BY <1>1, <2>2, <2>4
  <2>6. Port!Next BY <1>1, <2>3, PortAbandon, PortForget
  <2>. QED BY <2>5, <2>6
<1>. QED BY <1>2, <1>3

-------------------------------------------------------------------------------
(* picorv32_axi *)

Owed(value) == [write |-> mem_wstrb, answer |-> Answer(value)]

\* The device holds what the adapter has a mark for, and nothing of the other direction.
AxiMarks ==
  IF mem_wstrb
  THEN /\ ~ack_arvalid /\ got_ar = {}
       /\ owed = {} => /\ got_aw = IF ack_awvalid THEN {mem_addr} ELSE {}
                      /\ got_w = IF ack_wvalid THEN {mem_addr} ELSE {}
       /\ owed # {} => ack_awvalid /\ ack_wvalid /\ got_aw = {} /\ got_w = {}
  ELSE /\ ~ack_awvalid /\ ~ack_wvalid /\ got_aw = {} /\ got_w = {}
       /\ owed = {} => got_ar = IF ack_arvalid THEN {mem_addr} ELSE {}
       /\ owed # {} => ack_arvalid /\ got_ar = {}

\* The device has performed the transfer of the core and owes its answer, or has not.
AxiOwes ==
  \/ performed = <<>> /\ owed = {}
  \/ \E value \in Data :
       /\ performed = Entry(Answer(value)) /\ owed = {Owed(value)}
       /\ mem_axi_rvalid => mem_axi_rdata = value

\* A response is on the wires only once its transfer is complete.
AxiResponse ==
  /\ mem_axi_bvalid => mem_wstrb /\ Axi!MayRespond(TRUE)
  /\ mem_axi_rvalid => ~mem_wstrb /\ Axi!MayRespond(FALSE)

AxiAtRest ==
  /\ got_aw = {} /\ got_w = {} /\ got_ar = {} /\ owed = {}
  /\ ~mem_axi_bvalid /\ ~mem_axi_rvalid

AxiTypes ==
  /\ MasterTypeOK /\ performed \in Log /\ result \in Data
  /\ ack_awvalid \in BOOLEAN /\ ack_arvalid \in BOOLEAN /\ ack_wvalid \in BOOLEAN
  /\ xfer_done \in BOOLEAN
  /\ mem_axi_awready \in BOOLEAN /\ mem_axi_wready \in BOOLEAN /\ mem_axi_arready \in BOOLEAN
  /\ mem_axi_bvalid \in BOOLEAN /\ mem_axi_rvalid \in BOOLEAN /\ mem_axi_rdata \in Data

AxiInv ==
  /\ AxiTypes
  /\ mem_valid => ~xfer_done /\ AxiMarks /\ AxiOwes /\ AxiResponse
  /\ ~mem_valid => AxiAtRest

\* The invariant says what is asked of the adapter and the device.
LEMMA AxiProperties == AxiInv => Axi!TypeOK /\ Axi!OneInFlight /\ Axi!ResponseTaken
<1> SUFFICES ASSUME AxiInv PROVE Axi!TypeOK /\ Axi!OneInFlight /\ Axi!ResponseTaken OBVIOUS
<1> USE DEF AxiInv
<1>1. got_aw \subseteq Addr /\ got_w \subseteq Addr /\ got_ar \subseteq Addr
  BY DEF AxiTypes, AxiMarks, AxiAtRest, MasterTypeOK
<1>2. owed \subseteq Axi!Response
  BY AnswerType DEF AxiTypes, AxiOwes, AxiAtRest, Owed, Axi!Response, MasterTypeOK
<1>3. performed \in Seq([transfer : Axi!Transfer, answer : SUBSET Data]) /\ Len(performed) <= 1
  <2>1. Axi!Transfer = Port!Transfer BY DEF Axi!Transfer, Port!Transfer
  <2>. QED BY <2>1, LogType DEF AxiTypes
<1>4. Axi!TypeOK
  BY <1>1, <1>2, <1>3 DEF AxiTypes, Axi!TypeOK, Axi!MasterTypeOK, MasterTypeOK
<1>5. Axi!OneInFlight
  <2>1. CASE ~mem_valid
    BY <2>1 DEF AxiAtRest, Axi!OneInFlight, Axi!mem_axi_awvalid, Axi!mem_axi_wvalid,
                Axi!mem_axi_arvalid
  <2>2. CASE mem_valid
    <3>1. \A response \in owed : response.write = mem_wstrb
      BY <2>2 DEF AxiOwes, Owed
    <3>. QED
      BY <2>2, <3>1 DEF AxiMarks, AxiTypes, MasterTypeOK, Axi!OneInFlight, Axi!mem_axi_awvalid,
                        Axi!mem_axi_wvalid, Axi!mem_axi_arvalid
  <2>. QED BY <2>1, <2>2
<1>6. Axi!ResponseTaken
  BY DEF AxiResponse, AxiAtRest, Axi!ResponseTaken, Axi!mem_axi_bready, Axi!mem_axi_rready
<1>. QED BY <1>4, <1>5, <1>6

LEMMA ReadIsNow ==
  ASSUME mem_wstrb = FALSE,
         NEW transfer \in {[write |-> FALSE, addr |-> a, data |-> a] : a \in {mem_addr}}
  PROVE  transfer = Now
<1>1. transfer = [write |-> FALSE, addr |-> mem_addr, data |-> mem_addr] OBVIOUS
<1>. QED BY <1>1 DEF Now

\* What the device holds at the end of a cycle can only be the transfer of the core.
LEMMA AxiComplete ==
  ASSUME AxiInv, NEW transfer \in Axi!Complete, owed = {}
  PROVE  mem_valid /\ transfer = Now
<1> USE DEF AxiInv, Axi!Complete, Axi!AwNow, Axi!WNow, Axi!ArNow, Axi!AwTaken, Axi!WTaken,
            Axi!ArTaken, Axi!mem_axi_awvalid, Axi!mem_axi_wvalid, Axi!mem_axi_arvalid
<1>1. CASE ~mem_valid BY <1>1 DEF AxiAtRest
<1>2. CASE mem_valid /\ mem_wstrb
  <2>1. Axi!AwNow \subseteq {mem_addr} /\ Axi!WNow \subseteq {mem_addr} /\ Axi!ArNow = {}
    BY <1>2 DEF AxiMarks
  <2>2. mem_wstrb = TRUE BY <1>2 DEF AxiTypes, MasterTypeOK
  <2>. QED BY <1>2, <2>1, <2>2 DEF Now
<1>3. CASE mem_valid /\ ~mem_wstrb
  <2>1. Axi!AwNow = {} /\ Axi!WNow = {} /\ Axi!ArNow \subseteq {mem_addr}
    BY <1>3 DEF AxiMarks
  <2>2. mem_wstrb = FALSE BY <1>3 DEF AxiTypes, MasterTypeOK
  <2>3. transfer \in {[write |-> FALSE, addr |-> a, data |-> a] : a \in {mem_addr}}
    BY <2>1
  <2>. HIDE DEF AxiInv, Axi!Complete, Axi!AwNow, Axi!WNow, Axi!ArNow, Axi!AwTaken, Axi!WTaken,
                Axi!ArTaken, Axi!mem_axi_awvalid, Axi!mem_axi_wvalid, Axi!mem_axi_arvalid
  <2>4. transfer = Now BY <2>2, <2>3, ReadIsNow, Zenon
  <2>5. mem_valid BY <1>3
  <2>. QED BY <2>4, <2>5
<1>. QED BY <1>1, <1>2, <1>3

\* Only the direction of the transfer can be responded to, and only while there is one.
AxiOwesOne == owed = {} \/ \E value \in Data : owed = {Owed(value)}
AxiNothingHeld == got_aw = {} /\ got_w = {} /\ got_ar = {} /\ owed = {}
AxiDirection ==
  /\ mem_valid /\ AxiMarks /\ AxiOwesOne
       => (Axi!MayRespond(TRUE) => mem_wstrb) /\ (Axi!MayRespond(FALSE) => ~mem_wstrb)
  /\ ~mem_valid /\ AxiNothingHeld => ~Axi!MayRespond(TRUE) /\ ~Axi!MayRespond(FALSE)

LEMMA AxiDirectionHolds == AxiDirection
<1> USE DEF Axi!MayRespond, Axi!AwNow, Axi!WNow, Axi!ArNow, Axi!AwTaken, Axi!WTaken, Axi!ArTaken,
            Axi!mem_axi_awvalid, Axi!mem_axi_wvalid, Axi!mem_axi_arvalid
<1>1. ASSUME mem_valid, AxiMarks, AxiOwesOne
      PROVE  (Axi!MayRespond(TRUE) => mem_wstrb) /\ (Axi!MayRespond(FALSE) => ~mem_wstrb)
  <2>1. CASE owed = {} BY <1>1, <2>1 DEF AxiMarks
  <2>2. CASE owed # {}
    <3>1. \A response \in owed : response.write = mem_wstrb BY <1>1, <2>2 DEF AxiOwesOne, Owed
    <3>. QED BY <2>2, <3>1
  <2>. QED BY <2>1, <2>2
<1>2. ASSUME ~mem_valid, AxiNothingHeld
      PROVE  ~Axi!MayRespond(TRUE) /\ ~Axi!MayRespond(FALSE)
  BY <1>2 DEF AxiNothingHeld
<1>. QED BY <1>1, <1>2 DEF AxiDirection

LEMMA AxiDirectionNext == AxiDirection'
  BY AxiDirectionHolds, PTL

\* The wires of the next cycle follow from what the device holds then.
LEMMA AxiSignals ==
  ASSUME AxiInv, Axi!Signals,
         \/ mem_valid' /\ AxiMarks' /\ AxiOwesOne'
         \/ ~mem_valid' /\ AxiNothingHeld'
  PROVE  /\ mem_axi_awready' \in BOOLEAN /\ mem_axi_wready' \in BOOLEAN
         /\ mem_axi_arready' \in BOOLEAN
         /\ mem_axi_bvalid' \in BOOLEAN /\ mem_axi_rvalid' \in BOOLEAN /\ mem_axi_rdata' \in Data
         /\ mem_valid' => AxiResponse'
         /\ ~mem_valid' => ~mem_axi_bvalid' /\ ~mem_axi_rvalid'
         /\ \A value \in Data :
              owed' = {(Owed(value))'} /\ mem_axi_rvalid' => mem_axi_rdata' = value
<1>1. (mem_axi_bvalid => Axi!mem_axi_bready) /\ (mem_axi_rvalid => Axi!mem_axi_rready)
  BY AxiProperties DEF Axi!ResponseTaken
<1>2. Axi!MayRespond(TRUE)' \in BOOLEAN /\ Axi!MayRespond(FALSE)' \in BOOLEAN
  BY DEF Axi!MayRespond
<1>3. /\ mem_axi_bvalid' \in {FALSE, Axi!MayRespond(TRUE)'}
      /\ mem_axi_rvalid' \in {FALSE, Axi!MayRespond(FALSE)'}
  BY <1>1 DEF Axi!Signals, AxiInv, AxiTypes
<1>4. mem_axi_bvalid' \in BOOLEAN /\ mem_axi_rvalid' \in BOOLEAN
  BY <1>2, <1>3
<1>5. (mem_axi_bvalid' => Axi!MayRespond(TRUE)') /\ (mem_axi_rvalid' => Axi!MayRespond(FALSE)')
  BY <1>2, <1>3
<1>6. /\ mem_valid' => AxiResponse'
      /\ ~mem_valid' => ~mem_axi_bvalid' /\ ~mem_axi_rvalid'
  BY <1>5, AxiDirectionNext DEF AxiDirection, AxiResponse
<1>7. ASSUME NEW value \in Data, owed' = {(Owed(value))'}, mem_axi_rvalid'
      PROVE  mem_axi_rdata' = value
  <2>1. ~mem_wstrb' BY <1>6, <1>7 DEF AxiResponse
  <2>2. mem_axi_rdata' \in UNION {response.answer : response \in owed'}
    BY <1>7 DEF Axi!Signals
  <2>. QED BY <1>7, <2>1, <2>2 DEF Owed, Answer
<1>8. mem_axi_rdata' \in Data
  <2>1. CASE ~mem_axi_rvalid' BY <2>1 DEF Axi!Signals, AxiInv, AxiTypes
  <2>2. CASE mem_axi_rvalid' /\ owed' = {} BY <2>2 DEF Axi!Signals
  <2>3. CASE mem_axi_rvalid' /\ owed' # {}
    <3>1. PICK value \in Data : owed' = {(Owed(value))'}
      BY <1>6, <2>3 DEF AxiOwesOne, AxiNothingHeld
    <3>. QED BY <1>7, <2>3, <3>1
  <2>. QED BY <2>1, <2>2, <2>3
<1>9. /\ mem_axi_awready' \in BOOLEAN /\ mem_axi_wready' \in BOOLEAN
      /\ mem_axi_arready' \in BOOLEAN
  BY DEF Axi!Signals
<1>. QED BY <1>4, <1>6, <1>7, <1>8, <1>9

\* One clock while the core waits for nothing: the marks are cleared.
LEMMA AxiRestStep ==
  ASSUME AxiInv, Axi!Clock, ~mem_valid
  PROVE  AxiInv' /\ Port!Next /\ Axi!OffersStay
<1>1. MasterTypeOK' /\ result' = result
  <2>1. MasterTypeOK'
    BY DEF AxiInv, AxiTypes, Axi!Clock, Axi!MasterStep, Axi!Begin, Axi!Rest, Axi!Wait, Axi!Finish,
           Axi!masterVars, MasterTypeOK
  <2>. QED BY <2>1 DEF Axi!Clock, Axi!Read
<1>2. owed = {} /\ Axi!Complete = {} BY AxiComplete DEF AxiInv, AxiAtRest
<1>3. Axi!Keep /\ owed' = {}
  BY <1>2 DEF Axi!Clock, Axi!Respond, Axi!Work
<1>4. performed' = <<>> BY <1>3 DEF Axi!Keep, Axi!Performed
<1>5. AxiNothingHeld'
  BY <1>3 DEF AxiInv, AxiAtRest, AxiNothingHeld, Axi!Keep, Axi!AwNow, Axi!WNow, Axi!ArNow,
              Axi!AwTaken, Axi!WTaken, Axi!ArTaken, Axi!mem_axi_awvalid, Axi!mem_axi_wvalid,
              Axi!mem_axi_arvalid
<1>6. ack_awvalid' = FALSE /\ ack_arvalid' = FALSE /\ ack_wvalid' = FALSE /\ xfer_done' = FALSE
  BY DEF Axi!Clock, Axi!Adapter, Axi!Clear
<1>7. AxiMarks' /\ AxiOwesOne'
  BY <1>1, <1>5, <1>6 DEF AxiMarks, AxiNothingHeld, AxiOwesOne, MasterTypeOK
<1>8. Axi!Signals BY DEF Axi!Clock
<1>9. AxiInv'
  <2>1. mem_valid' \in BOOLEAN /\ performed' \in Log /\ result' \in Data
    BY <1>1, <1>4 DEF AxiInv, AxiTypes, MasterTypeOK, Log
  <2>2. AxiTypes' /\ (mem_valid' => AxiResponse')
             /\ (~mem_valid' => ~mem_axi_bvalid' /\ ~mem_axi_rvalid')
    BY <1>1, <1>5, <1>6, <1>7, <1>8, <2>1, AxiSignals DEF AxiTypes
  <2>3. AxiOwes' BY <1>4, <1>5 DEF AxiOwes, AxiNothingHeld
  <2>. QED BY <1>5, <1>6, <1>7, <2>2, <2>3 DEF AxiInv, AxiAtRest, AxiNothingHeld
<1>10. Port!Next
  <2>1. CASE mem_valid' BY <1>1, <1>4, <2>1, PortRequest DEF MasterTypeOK
  <2>2. CASE ~mem_valid' BY <1>1, <1>4, <2>2, PortForget
  <2>. QED BY <2>1, <2>2
<1>11. Axi!OffersStay
  BY DEF Axi!OffersStay, Axi!mem_axi_awvalid, Axi!mem_axi_wvalid, Axi!mem_axi_arvalid
<1>. QED BY <1>9, <1>10, <1>11

\* The clock in which the core takes the response.
LEMMA AxiFinishStep ==
  ASSUME AxiInv, Axi!Clock, mem_valid, Axi!mem_ready
  PROVE  AxiInv' /\ Port!Next /\ Axi!OffersStay
<1>1. AxiTypes /\ ~xfer_done /\ AxiMarks /\ AxiOwes /\ AxiResponse BY DEF AxiInv
<1>2. mem_wstrb \in BOOLEAN /\ MasterTypeOK BY <1>1 DEF AxiTypes, MasterTypeOK
<1>3. ~mem_valid' /\ MasterTypeOK'
  BY <1>2 DEF Axi!Clock, Axi!MasterStep, Axi!Begin, Axi!Rest, Axi!Wait, Axi!Finish, MasterTypeOK
<1>4. IF mem_wstrb THEN mem_axi_bvalid /\ ~mem_axi_rvalid ELSE mem_axi_rvalid /\ ~mem_axi_bvalid
  BY <1>1 DEF AxiResponse, Axi!mem_ready
<1>5. result' = IF mem_wstrb THEN result ELSE mem_axi_rdata
  BY <1>2 DEF Axi!Clock, Axi!Read, Axi!mem_rdata
<1>6. Axi!Respond
  BY <1>2, <1>4 DEF Axi!Clock, Axi!Work, Axi!Responds, Axi!mem_axi_bready, Axi!mem_axi_rready
<1>7. \E value \in Data :
        /\ performed' = Entry(Answer(value))
        /\ performed = <<>> \/ performed = Entry(Answer(value))
        /\ result' = IF mem_wstrb THEN result ELSE value
  <2>1. CASE owed = {}
    <3>1. performed = <<>> BY <1>1, <2>1 DEF AxiOwes
    <3>2. PICK transfer \in Axi!Complete :
            Axi!Perform(transfer, IF transfer.write THEN {} ELSE {mem_axi_rdata})
      BY <1>6, <2>1 DEF Axi!Respond
    <3>3. transfer = Now BY <2>1, AxiComplete
    <3>4. transfer.write = mem_wstrb BY <3>3 DEF Now
    <3>5. performed' = Append(<<>>, [transfer |-> Now, answer |-> Answer(mem_axi_rdata)])
      BY <3>1, <3>2, <3>3, <3>4 DEF Axi!Perform, Axi!Performs, Axi!Performed, Answer
    <3>6. performed' = Entry(Answer(mem_axi_rdata)) BY <3>5 DEF Entry
    <3>. QED BY <1>1, <1>5, <3>1, <3>6 DEF AxiTypes
  <2>2. CASE owed # {}
    <3>1. PICK value \in Data :
            performed = Entry(Answer(value)) /\ (mem_axi_rvalid => mem_axi_rdata = value)
      BY <1>1, <2>2 DEF AxiOwes
    <3>2. performed' = performed
      BY <1>6, <2>2 DEF Axi!Respond, Axi!Keep, Axi!Performed
    <3>. QED BY <1>4, <1>5, <3>1, <3>2
  <2>. QED BY <2>1, <2>2
<1>8. AxiNothingHeld'
  <2>1. owed' = {} BY <1>6 DEF Axi!Respond
  <2>2. CASE owed = {}
    <3>1. PICK transfer \in Axi!Complete :
            Axi!Perform(transfer, IF transfer.write THEN {} ELSE {mem_axi_rdata})
      BY <1>6, <2>2 DEF Axi!Respond
    <3>2. transfer.write = mem_wstrb
      <4>1. transfer = Now BY <2>2, AxiComplete
      <4>. QED BY <4>1 DEF Now
    <3>. QED
      BY <1>1, <1>2, <2>1, <2>2, <3>1, <3>2
      DEF AxiMarks, AxiNothingHeld, Axi!Perform, Axi!AwNow, Axi!WNow, Axi!ArNow, Axi!AwTaken,
          Axi!WTaken, Axi!ArTaken, Axi!mem_axi_awvalid, Axi!mem_axi_wvalid, Axi!mem_axi_arvalid
  <2>3. CASE owed # {}
    <3>1. Axi!Keep BY <1>6, <2>3 DEF Axi!Respond
    <3>. QED
      BY <1>1, <1>2, <2>1, <2>3, <3>1
      DEF AxiMarks, AxiNothingHeld, Axi!Keep, Axi!AwNow, Axi!WNow, Axi!ArNow, Axi!AwTaken,
          Axi!WTaken, Axi!ArTaken, Axi!mem_axi_awvalid, Axi!mem_axi_wvalid, Axi!mem_axi_arvalid
  <2>. QED BY <2>2, <2>3
<1>9. AxiInv'
  <2>1. performed' \in Log BY <1>2, <1>7, AnswerType, EntryType
  <2>2. result' \in Data BY <1>1, <1>7 DEF AxiTypes
  <2>3. /\ ack_awvalid' \in BOOLEAN /\ ack_arvalid' \in BOOLEAN /\ ack_wvalid' \in BOOLEAN
        /\ xfer_done' \in BOOLEAN
    BY DEF Axi!Clock, Axi!Adapter
  <2>4. Axi!Signals BY DEF Axi!Clock
  <2>. QED
    BY <1>3, <1>8, <2>1, <2>2, <2>3, <2>4, AxiSignals
    DEF AxiInv, AxiTypes, AxiAtRest, AxiNothingHeld
<1>10. Port!Next BY <1>2, <1>3, <1>7, PortReturn
<1>11. Axi!OffersStay
  <2>1. CASE owed # {}
    BY <1>1, <1>2, <2>1
    DEF AxiMarks, Axi!OffersStay, Axi!mem_axi_awvalid, Axi!mem_axi_wvalid, Axi!mem_axi_arvalid
  <2>2. CASE owed = {}
    <3>1. IF mem_wstrb THEN Axi!AwNow # {} /\ Axi!WNow # {} ELSE Axi!ArNow # {}
      BY <1>1, <1>4, <2>2 DEF AxiResponse, Axi!MayRespond
    <3>. QED
      BY <1>1, <1>2, <2>2, <3>1
      DEF AxiMarks, Axi!OffersStay, Axi!mem_axi_awvalid, Axi!mem_axi_wvalid, Axi!mem_axi_arvalid,
          Axi!AwNow, Axi!WNow, Axi!ArNow, Axi!AwTaken, Axi!WTaken, Axi!ArTaken
  <2>. QED BY <2>1, <2>2
<1>. QED BY <1>9, <1>10, <1>11

\* While the core waits, its transfer goes on or is performed.
LEMMA AxiWaitMarks ==
  ASSUME AxiInv, Axi!Adapter, UNCHANGED masterVars, mem_valid, Axi!Keep, UNCHANGED owed
  PROVE  AxiMarks'
<1>1. ~xfer_done /\ AxiMarks /\ mem_wstrb \in BOOLEAN
  BY DEF AxiInv, AxiTypes, MasterTypeOK
<1>. QED
  BY <1>1
  DEF AxiMarks, Axi!Keep, Axi!AwNow, Axi!WNow, Axi!ArNow, Axi!AwTaken, Axi!WTaken, Axi!ArTaken,
      Axi!mem_axi_awvalid, Axi!mem_axi_wvalid, Axi!mem_axi_arvalid, Axi!Adapter, Axi!Clear,
      masterVars

LEMMA AxiPerformMarks ==
  ASSUME AxiInv, Axi!Adapter, UNCHANGED masterVars, mem_valid, owed = {}, owed' # {},
         NEW transfer \in Axi!Complete, NEW answer, Axi!Perform(transfer, answer)
  PROVE  AxiMarks'
<1>1. ~xfer_done /\ AxiMarks /\ mem_wstrb \in BOOLEAN
  BY DEF AxiInv, AxiTypes, MasterTypeOK
<1>2. transfer.write = mem_wstrb
  <2>1. transfer = Now BY AxiComplete
  <2>. QED BY <2>1 DEF Now
<1>3. IF mem_wstrb THEN Axi!AwNow # {} /\ Axi!WNow # {} ELSE Axi!ArNow # {}
  <2>1. CASE mem_wstrb
    BY <1>1, <2>1
    DEF AxiMarks, Axi!Complete, Axi!ArNow, Axi!ArTaken, Axi!mem_axi_arvalid
  <2>2. CASE ~mem_wstrb
    BY <1>1, <2>2
    DEF AxiMarks, Axi!Complete, Axi!AwNow, Axi!WNow, Axi!AwTaken, Axi!WTaken,
        Axi!mem_axi_awvalid, Axi!mem_axi_wvalid
  <2>. QED BY <2>1, <2>2
<1>. QED
  BY <1>1, <1>2, <1>3
  DEF AxiMarks, Axi!Perform, Axi!AwNow, Axi!WNow, Axi!ArNow, Axi!AwTaken, Axi!WTaken, Axi!ArTaken,
      Axi!mem_axi_awvalid, Axi!mem_axi_wvalid, Axi!mem_axi_arvalid, Axi!Adapter, Axi!Clear,
      masterVars

\* The answer a device may give is that of some value.
LEMMA AxiAnswers ==
  ASSUME AxiInv, NEW transfer, transfer = Now, NEW answer \in Axi!Answers(transfer)
  PROVE  \E value \in Data : answer = Answer(value)
<1>1. result \in Data BY DEF AxiInv, AxiTypes
<1>. QED BY <1>1 DEF Axi!Answers, Answer, Now

LEMMA AxiWaitStep ==
  ASSUME AxiInv, Axi!Clock, mem_valid, ~Axi!mem_ready
  PROVE  AxiInv' /\ [Port!Next]_(Port!portVars) /\ Axi!OffersStay
<1>1. AxiTypes /\ ~xfer_done /\ AxiMarks /\ AxiOwes /\ AxiResponse BY DEF AxiInv
<1>2. MasterTypeOK BY <1>1 DEF AxiTypes
<1>3. UNCHANGED masterVars /\ result' = result
  BY DEF Axi!Clock, Axi!MasterStep, Axi!Begin, Axi!Rest, Axi!Wait, Axi!Finish, Axi!Read,
         Axi!masterVars, masterVars
<1>4. mem_valid' /\ MasterTypeOK' /\ (Now)' = Now /\ \A value : (Answer(value))' = Answer(value)
  BY <1>2, <1>3 DEF masterVars, MasterTypeOK, Now, Answer
<1>5. Axi!Adapter /\ Axi!Signals /\ Axi!Work
  BY DEF Axi!Clock, Axi!Respond, Axi!Responds, Axi!mem_ready
<1>6. /\ ack_awvalid' \in BOOLEAN /\ ack_arvalid' \in BOOLEAN /\ ack_wvalid' \in BOOLEAN
      /\ xfer_done' = FALSE
  BY <1>5 DEF Axi!Adapter, Axi!mem_ready
<1>7. Axi!OffersStay
  BY <1>1, <1>3, <1>5
  DEF Axi!OffersStay, Axi!Adapter, Axi!Clear, Axi!AwTaken, Axi!WTaken, Axi!ArTaken,
      Axi!mem_axi_awvalid, Axi!mem_axi_wvalid, Axi!mem_axi_arvalid, masterVars
<1>8. CASE Axi!Keep /\ UNCHANGED owed
  <2>1. AxiMarks' BY <1>3, <1>5, <1>8, AxiWaitMarks
  <2>2. performed' = performed BY <1>8 DEF Axi!Keep, Axi!Performed
  <2>3. AxiOwesOne' BY <1>1, <1>3, <1>8 DEF AxiOwes, AxiOwesOne, Owed, Answer, masterVars
  <2>4. /\ AxiResponse'
        /\ \A value \in Data :
             owed' = {(Owed(value))'} /\ mem_axi_rvalid' => mem_axi_rdata' = value
    BY <1>4, <1>5, <2>1, <2>3, AxiSignals
  <2>5. AxiOwes'
    <3>1. CASE performed = <<>> /\ owed = {} BY <1>8, <2>2, <3>1 DEF AxiOwes
    <3>2. ASSUME NEW value \in Data, performed = Entry(Answer(value)), owed = {Owed(value)}
          PROVE  AxiOwes'
      <4>1. performed' = (Entry(Answer(value)))' BY <1>4, <2>2, <3>2 DEF Entry
      <4>2. owed' = {(Owed(value))'} BY <1>3, <1>8, <3>2 DEF Owed, Answer, masterVars
      <4>. QED BY <2>4, <4>1, <4>2 DEF AxiOwes
    <3>. QED BY <1>1, <3>1, <3>2 DEF AxiOwes
  <2>6. AxiTypes'
    BY <1>1, <1>3, <1>4, <1>5, <1>6, <2>1, <2>2, <2>3, AxiSignals DEF AxiTypes
  <2>7. UNCHANGED Port!portVars BY <1>3, <2>2 DEF Port!portVars, pending, masterVars
  <2>. QED BY <1>4, <1>6, <1>7, <2>1, <2>4, <2>5, <2>6, <2>7 DEF AxiInv
<1>9. CASE ~(Axi!Keep /\ UNCHANGED owed)
  <2>1. PICK transfer \in Axi!Complete : \E answer \in Axi!Answers(transfer) :
          /\ owed = {} /\ Axi!Perform(transfer, answer)
          /\ owed' = {[write |-> transfer.write, answer |-> answer]}
    BY <1>5, <1>9 DEF Axi!Work
  <2>2. PICK answer \in Axi!Answers(transfer) :
          /\ owed = {} /\ Axi!Perform(transfer, answer)
          /\ owed' = {[write |-> transfer.write, answer |-> answer]}
    BY <2>1
  <2>3. transfer = Now BY <2>2, AxiComplete
  <2>4. PICK value \in Data : answer = Answer(value) BY <2>3, AxiAnswers
  <2>5. performed = <<>> BY <1>1, <2>2 DEF AxiOwes
  <2>6. performed' = Append(<<>>, [transfer |-> Now, answer |-> Answer(value)])
    BY <2>2, <2>3, <2>4, <2>5 DEF Axi!Perform, Axi!Performs, Axi!Performed
  <2>7. performed' = Entry(Answer(value)) BY <2>6 DEF Entry
  <2>8. owed' = {Owed(value)}
    <3>1. transfer.write = mem_wstrb BY <2>3 DEF Now
    <3>. QED BY <2>2, <2>4, <3>1 DEF Owed
  <2>9. performed' = (Entry(Answer(value)))' /\ owed' = {(Owed(value))'}
    BY <1>3, <1>4, <2>7, <2>8 DEF Entry, Owed, masterVars
  <2>10. AxiMarks' BY <1>3, <1>5, <2>2, <2>8, AxiPerformMarks
  <2>11. AxiOwesOne' BY <2>9 DEF AxiOwesOne
  <2>12. /\ AxiResponse'
         /\ \A v \in Data :
              owed' = {(Owed(v))'} /\ mem_axi_rvalid' => mem_axi_rdata' = v
    BY <1>4, <1>5, <2>10, <2>11, AxiSignals
  <2>13. AxiOwes' BY <2>9, <2>12 DEF AxiOwes
  <2>14. performed' \in Log BY <1>2, <2>7, AnswerType, EntryType
  <2>15. AxiTypes'
    BY <1>1, <1>3, <1>4, <1>5, <1>6, <2>10, <2>11, <2>14, AxiSignals DEF AxiTypes
  <2>16. Port!Next BY <1>2, <1>3, <2>5, <2>7, PortPerform
  <2>. QED BY <1>4, <1>6, <1>7, <2>10, <2>12, <2>13, <2>15, <2>16 DEF AxiInv
<1>. QED BY <1>8, <1>9

LEMMA AxiClockStep ==
  ASSUME AxiInv, Axi!Clock
  PROVE  AxiInv' /\ [Port!Next]_(Port!portVars) /\ Axi!OffersStay
<1>1. CASE ~mem_valid BY <1>1, AxiRestStep
<1>2. CASE mem_valid /\ Axi!mem_ready BY <1>2, AxiFinishStep
<1>3. CASE mem_valid /\ ~Axi!mem_ready BY <1>3, AxiWaitStep
<1>. QED BY <1>1, <1>2, <1>3

LEMMA AxiResetStep ==
  ASSUME AxiInv, Axi!Reset
  PROVE  AxiInv' /\ Port!Next
<1>1. AxiTypes /\ MasterTypeOK BY DEF AxiInv, AxiTypes
<1>2. ~mem_valid' /\ MasterTypeOK' /\ result' = result
  BY <1>1 DEF Axi!Reset, Axi!MasterReset, MasterTypeOK
<1>3. AxiNothingHeld' /\ Axi!Signals BY DEF Axi!Reset, Axi!DeviceReset, AxiNothingHeld
<1>4. \/ performed' = IF mem_valid THEN performed ELSE <<>>
      \/ /\ mem_valid /\ performed = <<>>
         /\ \E value \in Data : performed' = Entry(Answer(value))
  <2>1. CASE performed' = Axi!Performed BY <2>1 DEF Axi!Performed
  <2>2. CASE performed' # Axi!Performed
    <3>1. PICK transfer \in Axi!Complete : \E answer \in Axi!Answers(transfer) :
            owed = {} /\ Axi!Performs(transfer, answer)
      BY <2>2 DEF Axi!Reset, Axi!DeviceReset
    <3>2. PICK answer \in Axi!Answers(transfer) : owed = {} /\ Axi!Performs(transfer, answer)
      BY <3>1
    <3>3. mem_valid /\ transfer = Now BY <3>2, AxiComplete
    <3>4. PICK value \in Data : answer = Answer(value) BY <3>3, AxiAnswers
    <3>5. performed = <<>> BY <3>2, <3>3 DEF AxiInv, AxiOwes
    <3>6. performed' = Append(<<>>, [transfer |-> Now, answer |-> Answer(value)])
      BY <3>2, <3>3, <3>4, <3>5 DEF Axi!Performs, Axi!Performed
    <3>7. performed' = Entry(Answer(value)) BY <3>6 DEF Entry
    <3>. QED BY <3>3, <3>5, <3>7
  <2>. QED BY <2>1, <2>2
<1>5. performed' \in Log BY <1>1, <1>4, AnswerType, EntryType DEF AxiTypes, Log
<1>6. AxiInv'
  <2>1. /\ ack_awvalid' \in BOOLEAN /\ ack_arvalid' \in BOOLEAN /\ ack_wvalid' \in BOOLEAN
        /\ xfer_done' \in BOOLEAN
    BY <1>1 DEF Axi!Reset, Axi!AdapterReset, AxiTypes
  <2>. QED
    BY <1>1, <1>2, <1>3, <1>5, <2>1, AxiSignals
    DEF AxiInv, AxiTypes, AxiAtRest, AxiNothingHeld
<1>7. Port!Next
  <2>1. CASE mem_valid BY <1>1, <1>2, <1>4, <2>1, PortAbandon
  <2>2. CASE ~mem_valid BY <1>2, <1>4, <2>2, PortForget
  <2>. QED BY <2>1, <2>2
<1>. QED BY <1>6, <1>7

-------------------------------------------------------------------------------
(* Every top *)

AllInv ==
  /\ top \in {"picorv32_axi", "picorv32_wb", "system"}
  /\ AxiTop => AxiInv
  /\ WbTop => WbInv
  /\ SysTop => SysInv

LEMMA InitInv == Init => AllInv /\ Port!Init
<1>1. ASSUME top = "picorv32_axi", Axi!Init PROVE AllInv /\ Port!Init
  <2>1. AxiInv
    BY <1>1 DEF Axi!Init, Axi!MasterInit, Axi!MasterTypeOK, MasterTypeOK, AxiInv, AxiTypes,
                AxiAtRest, Log
  <2>2. Port!Init
    BY <1>1 DEF Axi!Init, Axi!MasterInit, Port!Init, pending
  <2>. QED BY <1>1, <2>1, <2>2 DEF AllInv, AxiTop, WbTop, SysTop
<1>2. ASSUME top = "picorv32_wb", Wb!Init PROVE AllInv /\ Port!Init
  <2>1. WbInv
    BY <1>2 DEF Wb!Init, Wb!MasterInit, Wb!MasterTypeOK, MasterTypeOK, WbInv, Log
  <2>2. Port!Init
    BY <1>2 DEF Wb!Init, Wb!MasterInit, Port!Init, pending
  <2>. QED BY <1>2, <2>1, <2>2 DEF AllInv, AxiTop, WbTop, SysTop
<1>3. ASSUME top = "system", Sys!Init PROVE AllInv /\ Port!Init
  <2>1. SysInv
    BY <1>3 DEF Sys!Init, Sys!MasterInit, Sys!MasterTypeOK, MasterTypeOK, SysInv, Log
  <2>2. Port!Init
    BY <1>3 DEF Sys!Init, Sys!MasterInit, Port!Init, pending
  <2>. QED BY <1>3, <2>1, <2>2 DEF AllInv, AxiTop, WbTop, SysTop
<1>. QED BY <1>1, <1>2, <1>3 DEF Init

\* A step in which nothing changes.
LEMMA StutterInv ==
  ASSUME AllInv, UNCHANGED vars
  PROVE  AllInv' /\ UNCHANGED Port!portVars
<1>1. AxiInv => AxiInv'
  <2>1. AxiTypes => AxiTypes' BY DEF vars, masterVars, axiVars, AxiTypes, MasterTypeOK
  <2>2. AxiMarks => AxiMarks' BY DEF vars, masterVars, axiVars, AxiMarks
  <2>3. AxiOwes => AxiOwes'
    BY DEF vars, masterVars, axiVars, AxiOwes, Entry, Answer, Now, Owed
  <2>4. AxiResponse => AxiResponse'
    BY DEF vars, masterVars, axiVars, AxiResponse, Axi!MayRespond, Axi!AwNow, Axi!WNow, Axi!ArNow,
           Axi!AwTaken, Axi!WTaken, Axi!ArTaken, Axi!mem_axi_awvalid, Axi!mem_axi_wvalid,
           Axi!mem_axi_arvalid
  <2>5. AxiAtRest => AxiAtRest' BY DEF vars, axiVars, AxiAtRest
  <2>. QED
    BY <2>1, <2>2, <2>3, <2>4, <2>5 DEF AxiInv, vars, masterVars, axiVars
<1>2. WbInv => WbInv'
  BY DEF vars, masterVars, wbVars, WbInv, MasterTypeOK, Entry, Answer, Now
<1>3. SysInv => SysInv'
  BY DEF vars, masterVars, sysVars, SysInv, SysAnswered, SysWaiting, SysSampled, Sys!Decoded,
         MasterTypeOK, Entry, Answer, Now
<1>4. UNCHANGED Port!portVars BY DEF vars, masterVars, Port!portVars, pending
<1>. QED BY <1>1, <1>2, <1>3, <1>4 DEF AllInv, AxiTop, WbTop, SysTop, vars

LEMMA StepInv ==
  ASSUME AllInv, [Next]_vars
  PROVE  /\ AllInv' /\ [Port!Next]_(Port!portVars)
         /\ AxiClock => Axi!OffersStay
         /\ WbClock => Wb!CycleStays
<1>1. CASE AxiClock
  BY <1>1, AxiClockStep DEF AllInv, AxiClock, WbClock, AxiTop, WbTop, SysTop
<1>2. CASE AxiReset
  <2>1. AllInv' /\ Port!Next
    BY <1>2, AxiResetStep DEF AllInv, AxiReset, AxiTop, WbTop, SysTop
  <2>2. ~mem_valid' /\ UNCHANGED <<mem_wstrb, mem_addr, top>> /\ AxiTop
    BY <1>2 DEF AxiReset, Axi!Reset, Axi!MasterReset
  <2>3. AxiClock => Axi!OffersStay BY <1>2, AxiClockStep DEF AllInv, AxiClock
  <2>. QED BY <2>1, <2>2, <2>3 DEF WbClock, AxiTop, WbTop
<1>3. CASE WbClock
  BY <1>3, WbClockStep DEF AllInv, AxiClock, WbClock, AxiTop, WbTop, SysTop
<1>4. CASE WbReset
  <2>1. AllInv' /\ Port!Next
    BY <1>4, WbResetStep DEF AllInv, WbReset, AxiTop, WbTop, SysTop
  <2>2. WbClock => Wb!CycleStays BY <1>4, WbClockStep DEF AllInv, WbClock
  <2>. QED BY <1>4, <2>1, <2>2 DEF WbReset, AxiClock, AxiTop, WbTop
<1>5. CASE SysClock
  <2>1. SysInv' /\ [Port!Next]_(Port!portVars)
    BY <1>5, FastClockStep, SlowClockStep DEF AllInv, SysClock
  <2>. QED BY <1>5, <2>1 DEF AllInv, SysClock, AxiClock, WbClock, AxiTop, WbTop, SysTop
<1>6. CASE SysReset
  <2>1. SysInv' /\ Port!Next
    BY <1>6, SysResetStep DEF AllInv, SysReset
  <2>. QED BY <1>6, <2>1 DEF AllInv, SysReset, AxiClock, WbClock, AxiTop, WbTop, SysTop
<1>7. CASE UNCHANGED vars
  <2>1. AllInv' /\ UNCHANGED Port!portVars BY <1>7, StutterInv
  <2>2. AxiClock => Axi!OffersStay BY AxiClockStep DEF AllInv, AxiClock
  <2>3. WbClock => Wb!CycleStays BY WbClockStep DEF AllInv, WbClock
  <2>. QED BY <2>1, <2>2, <2>3
<1>. QED BY <1>1, <1>2, <1>3, <1>4, <1>5, <1>6, <1>7 DEF Next, Reset

\* The invariant of every top, for any addresses, data and address decoder: how far the
\* adapter, the device and the record of what was performed are with the transfer of the
\* core (picorv32.v's picorv32_axi_adapter and picorv32_wb, system.v's memory paths).
THEOREM Invariant == Spec => []AllInv
<1>1. AllInv /\ [Next]_vars => AllInv' BY StepInv
<1>. QED BY InitInv, <1>1, PTL DEF Spec

\* One transfer at a time, each response to its own transfer, in every top.
THEOREM KeepsOneAtATime == Spec => []OneAtATime
<1>1. AllInv => OneAtATime
  <2>1. WbInv => Wb!TypeOK /\ Wb!ReadyMeetsTransfer
    <3> SUFFICES ASSUME WbInv PROVE Wb!TypeOK /\ Wb!ReadyMeetsTransfer OBVIOUS
    <3>1. performed \in Seq([transfer : Wb!Transfer, answer : SUBSET Data]) /\ Len(performed) <= 1
      <4>1. Wb!Transfer = Port!Transfer BY DEF Wb!Transfer, Port!Transfer
      <4>. QED BY <4>1, LogType DEF WbInv
    <3>2. Wb!TypeOK BY <3>1 DEF WbInv, Wb!TypeOK, Wb!MasterTypeOK, MasterTypeOK
    <3>3. state = "WBEND" => performed # <<>>
      BY EntryType, AnswerType DEF WbInv
    <3>. QED BY <3>2, <3>3 DEF WbInv, Wb!ReadyMeetsTransfer
  <2>2. SysInv => Sys!TypeOK /\ Sys!ReadyMeetsTransfer
    <3> SUFFICES ASSUME SysInv PROVE Sys!TypeOK /\ Sys!ReadyMeetsTransfer OBVIOUS
    <3>1. Len(performed) <= 1 BY LogType DEF SysInv
    <3>2. Sys!TypeOK BY <3>1 DEF SysInv, Sys!TypeOK, Sys!MasterTypeOK, MasterTypeOK
    <3>3. SysAnswered => performed # <<>>
      BY EntryType, AnswerType DEF SysInv, SysAnswered
    <3>. QED
      BY <3>2, <3>3 DEF SysInv, SysAnswered, SysWaiting, SysSampled, Sys!ReadyMeetsTransfer
  <2>. QED BY AxiProperties, <2>1, <2>2 DEF AllInv, OneAtATime
<1>. QED BY Invariant, <1>1, PTL

\* What is offered on the AXI and Wishbone buses stays, payload included, until taken.
THEOREM OffersAreKept == Spec => OffersStay
<1>1. AllInv /\ [Next]_vars => [KeepsOffer]_vars BY StepInv DEF KeepsOffer
<1>. QED BY Invariant, <1>1, PTL DEF Spec, OffersStay

\* Every top implements MemoryPort: whatever the device takes first, however late it
\* answers and whenever reset comes, a transfer is performed once and a read returns the
\* answer to its own address.
THEOREM KeepsPromise == Spec => ImplementsPort
<1>1. AllInv /\ [Next]_vars => [Port!Next]_(Port!portVars) BY StepInv
<1>. QED BY Invariant, InitInv, <1>1, PTL DEF Spec, ImplementsPort, Port!Spec
===============================================================================
