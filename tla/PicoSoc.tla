-------------------------------- MODULE PicoSoc --------------------------------
(***************************************************************************)
(* The demo firmware of the PicoSoC (picosoc/firmware.c, start.s) on the   *)
(* flash controller it runs from.  Each function is the sequence of its    *)
(* operations; an operation runs once the instruction for it has been      *)
(* fetched from the flash, from any word of it.  Only flashio_worker runs  *)
(* in RAM, because it takes the controller off the flash.                  *)
(*                                                                         *)
(* LED patterns, the UART divider and fixed texts change nothing else and  *)
(* are operations without an effect (Show).                                *)
(***************************************************************************)
EXTENDS SpiMemIo, Sequences, FiniteSetsExt

CONSTANTS
  LATENCY,      \* 8, the latency after reset, and the first of the benchmarks
  REPS,         \* 10 prompts before the menu is shown again
  CYC_COUNT,    \* 5 rounds of the memory test
  LOOPS         \* 20 rounds of the benchmark

ASSUME CountAssumption == LATENCY \in 1 .. 15 /\ {REPS, CYC_COUNT, LOOPS} \subseteq Nat \ {0}

VARIABLES
  doing, pc,    \* the command that runs, and its next operation
  worker,       \* where flashio_worker is
  rep,
  reply,        \* what flashio left in its buffer: "none", "read" or "garbage"
  said,         \* the last thing printed that was not a fixed text
  bad_ram       \* the kinds of access the RAM fails

fwVars == <<doing, pc, worker, rep, reply, said, bad_ram>>
vars == <<memVars, fwVars>>

-------------------------------------------------------------------------------
(* Operations *)

Op(name, arg) == <<[do |-> name, arg |-> arg]>>
\* Rounds of the same length, one after the other.
Rounds(rounds) ==
  LET length == Len(rounds[1])
  IN  [j \in 1 .. Len(rounds) * length |-> rounds[1 + (j - 1) \div length][1 + ((j - 1) % length)]]
Repeat(s, n) == Rounds([i \in 1 .. n |-> s])
\* for (int i = 8; i > 0; i--)
Down(f(_)) == Rounds([i \in 1 .. LATENCY |-> f(LATENCY + 1 - i)])

Show == Op("show", "")
Set(fields) == Op("set", fields)
Mode(ddr, qspi, cont) == [ddr |-> ddr, qspi |-> qspi, cont |-> cont]

\* A command by hand: its length, a write enable first or not, and its effect.
\* Reading any register of the one chip takes the dummy clocks of its latency.
flashio(kind, n, effect) == Op("flashio", [kind |-> kind, n |-> n, effect |-> effect])
Nothing == <<>>

-------------------------------------------------------------------------------
(* Printing *)

Digit(n) == <<n>>
print_dec_KeepsHundreds(v) ==
  IF v >= 1000 THEN <<">=1000">>
  ELSE (IF v >= 100 THEN Digit(v \div 100) ELSE <<>>)
       \o (IF v >= 10 THEN Digit(v \div 10) ELSE <<>>) \o Digit(v % 10)
\* A tens digit is printed for a rest of ten or more: 105 comes out as 15.
print_dec(v) ==
  IF v >= 1000 THEN <<">=1000">>
  ELSE (IF v >= 100 THEN Digit(v \div 100) ELSE <<>>)
       \o (IF v % 100 >= 10 THEN Digit((v % 100) \div 10) ELSE <<>>) \o Digit(v % 10)

\* v is a word of eight hexadecimal digits, the lowest first: from the first one
\* that is not 0, or that has to be printed.
print_hex(v, digits) ==
  LET first == Max({digits} \cup {i \in 1 .. 8 : v[i] # 0})
  IN [k \in 1 .. first |-> v[first + 1 - k]]

Dec(v) == Op("dec", v)
\* What is printed so is data: any of some words.
Hex(digits) == Op("hex", digits)
Zeros == [i \in 1 .. 8 |-> 0]
SomeWords ==
  {Zeros, [Zeros EXCEPT ![1] = 10], [Zeros EXCEPT ![3] = 1], [Zeros EXCEPT ![8] = 15, ![2] = 7]}

MEM_TOTAL == [hx8k |-> 512, ice |-> 131072]
cmd_print_spi_state ==
  Show \o Op("latency", "") \o Op("flag", "ddr") \o Op("flag", "qspi") \o Op("flag", "cont")

-------------------------------------------------------------------------------
(* The flash *)

set_flash_latency_KeepsMode(value) ==
  Set([dummy |-> value % 16]) \o flashio("write", 5, [latency |-> value])
\* Writing the latency also returns to single reads.
set_flash_latency(value) ==
  Set([ddr |-> FALSE, qspi |-> FALSE, cont |-> FALSE, dummy |-> value % 16])
  \o flashio("write", 5, [latency |-> value])

\* One board leaves the latency alone, the other sets the one its chip needs.
set_flash_mode(b, ddr, qspi) ==
  LET latency == CASE ~qspi -> 0 [] qspi /\ ddr -> 7 [] OTHER -> 4
  IN  Set(IF b = "hx8k" THEN Mode(ddr, qspi, FALSE)
          ELSE [ddr |-> ddr, qspi |-> qspi, cont |-> FALSE, dummy |-> latency])
set_flash_mode_spi(b) == set_flash_mode(b, FALSE, FALSE)
set_flash_mode_dual(b) == set_flash_mode(b, TRUE, FALSE)
set_flash_mode_quad(b) == set_flash_mode(b, FALSE, TRUE)
set_flash_mode_qddr(b) == set_flash_mode(b, TRUE, TRUE)
enable_flash_crm == Set([cont |-> TRUE])

\* Read a register, and write it back with the quad flag set.
set_flash_qspi_flag_hx8k == flashio("any", 6, Nothing) \o flashio("write", 5, [qe |-> TRUE])
set_flash_qspi_flag_ice == flashio("read", 2, Nothing) \o flashio("write", 2, [qe |-> TRUE])

cmd_read_flash_id == flashio("read", 17, Nothing) \o Repeat(Hex(2), 2) \o Show

cmd_read_flash_regs_print == set_flash_latency(LATENCY) \o flashio("any", 6, Nothing) \o Hex(2)
cmd_read_flash_reg == flashio("read", 2, Nothing)
print_reg_bit == Show
cmd_read_flash_regs_hx8k == Show \o Repeat(cmd_read_flash_regs_print, 6)
cmd_read_flash_regs_ice == Show \o Repeat(cmd_read_flash_reg, 3) \o Repeat(print_reg_bit, 3)

-------------------------------------------------------------------------------
(* Memory test, benchmarks and main *)

\* The pattern is a sequence without repetition; two seeds give two of them.
xorshift32(x32) == [x32 EXCEPT !.n = @ + 1]
Pattern(i, word) == xorshift32([seed |-> i, n |-> word])
\* Every 256th word, which on the small board is the first one only.
TestWords == 0 .. (MEM_TOTAL[board] \div 4 - 1) \div 256

\* What a word, or a byte, holds once all have been written: a RAM may read
\* nothing but zeros, ignore its address, or write whole words only.
WordRead(i, word) ==
  CASE bad_ram = "zeros" -> [seed |-> 0, n |-> 0]
    [] bad_ram = "address" -> Pattern(i, Max(TestWords))
    [] OTHER -> Pattern(i, word)
ByteRead(byte) ==
  CASE bad_ram = "zeros" -> 0
    [] bad_ram = "address" -> 127
    [] bad_ram = "words" -> (byte \div 4) * 4 + 3
    [] OTHER -> byte
WordsPass(i) == \A word \in TestWords : WordRead(i, word) = Pattern(i, word)
BytesPass == \A byte \in 0 .. 127 : ByteRead(byte) = byte

cmd_memtest ==
  Show \o Rounds([i \in 1 .. CYC_COUNT |-> Op("words", i)])
  \o Op("bytes", "") \o Op("passed", "")

cmd_benchmark(verbose) ==
  Repeat(Show, LOOPS) \o IF verbose THEN Repeat(Hex(8), 3) ELSE <<>>

Measured(setting) == Show \o setting \o cmd_benchmark(FALSE) \o Hex(8)
AtEachLatency(mode) ==
  Down(LAMBDA i : Dec(i) \o Measured(set_flash_latency(i) \o Set(mode)))

cmd_benchmark_all_hx8k ==
  Measured(Set(Mode(FALSE, FALSE, FALSE)))
  \o AtEachLatency(Mode(TRUE, FALSE, FALSE)) \o AtEachLatency(Mode(TRUE, FALSE, TRUE))
  \o AtEachLatency(Mode(FALSE, TRUE, FALSE)) \o AtEachLatency(Mode(FALSE, TRUE, TRUE))
  \o AtEachLatency(Mode(TRUE, TRUE, FALSE)) \o AtEachLatency(Mode(TRUE, TRUE, TRUE))
  \o Hex(8)
\* Continuous reading on two lines is commented out here.
cmd_benchmark_all_ice ==
  Measured(set_flash_mode_spi("ice")) \o Measured(set_flash_mode_dual("ice"))
  \o Measured(set_flash_mode_quad("ice")) \o Measured(enable_flash_crm)
  \o Measured(set_flash_mode_qddr("ice")) \o Measured(enable_flash_crm)

cmd_echo == Show \o Op("echo", "")

boot(b) ==
  Repeat(Show, 4)
  \o (IF b = "hx8k" THEN set_flash_qspi_flag_hx8k ELSE set_flash_qspi_flag_ice)
  \o Show \o Op("enter", "")
  \o Show \o Dec(MEM_TOTAL[b] \div 1024) \o Show \o cmd_print_spi_state
menu == Show \o Op("prompt", "")

Commands == {"1", "2", "3", "4", "5", "6", "7", "9", "0", "M", "S", "e"}
Program ==
  [b \in {"hx8k", "ice"} |->
     [c \in {"boot", "menu"} \cup Commands |->
        CASE c = "boot" -> boot(b)
          [] c = "menu" -> menu
          [] c = "1" -> cmd_read_flash_id
          [] c = "2" -> IF b = "hx8k" THEN cmd_read_flash_regs_hx8k ELSE cmd_read_flash_regs_ice
          [] c = "3" -> set_flash_mode_spi(b)
          [] c = "4" -> set_flash_mode_dual(b)
          [] c = "5" -> set_flash_mode_quad(b)
          [] c = "6" -> set_flash_mode_qddr(b)
          [] c = "7" -> Op("toggle", "")
          [] c = "9" -> cmd_benchmark(TRUE)
          [] c = "0" -> IF b = "hx8k" THEN cmd_benchmark_all_hx8k ELSE cmd_benchmark_all_ice
          [] c = "M" -> cmd_memtest
          [] c = "S" -> cmd_print_spi_state
          [] c = "e" -> cmd_echo]]

-------------------------------------------------------------------------------
(* Running it *)

op == Program[board][doing][pc]
Doing(names) == worker = "off" /\ op.do \in names

\* After the last operation of a command the menu is shown again.
Finish == doing' = "menu" /\ pc' = 1 /\ rep' = REPS /\ reply' = "none"
Advance ==
  IF pc < Len(Program[board][doing]) THEN pc' = pc + 1 /\ UNCHANGED <<doing, rep, reply>>
  ELSE Finish

\* The operation runs in the instruction that was just fetched.  A word that is not
\* the one at its address is no longer this program: what the processor would do
\* with it is not modelled, and the model stops there.
Fetched ==
  Take /\ rdata = valid
  /\ UNCHANGED <<cfg, state, rd_valid, rd_addr, rd_inc, rdata, flash, board, dual_ends>>
Silent == said' = [what |-> "nothing"]

ShowNext ==
  /\ Doing({"show", "dec", "latency", "hex", "flag"}) /\ Fetched /\ Advance
  /\ \/ op.do = "show" /\ Silent
     \/ op.do = "dec" /\ said' = [what |-> "number", text |-> print_dec(op.arg), v |-> op.arg]
     \/ op.do = "latency" /\ said' = [what |-> "latency", text |-> print_dec(cfg.dummy)]
     \/ op.do = "flag" /\ said' = [what |-> "flag", text |-> IF cfg[op.arg] THEN "ON" ELSE "OFF"]
     \/ op.do = "hex" /\ \E v \in SomeWords :
                          said' = [what |-> "word", text |-> print_hex(v, op.arg), v |-> v]
  /\ UNCHANGED <<worker, bad_ram>>

\* A write of reg_spictrl.
Spictrl ==
  /\ Doing({"set", "toggle"}) /\ Take /\ rdata = valid
  /\ Configure(IF op.do = "set" THEN op.arg ELSE [cont |-> ~cfg.cont])
  /\ Advance /\ Silent /\ UNCHANGED <<worker, bad_ram>>

\* flashio copies its worker to the stack and calls it; the worker takes the
\* controller off, long before that has sent the FF of the first of its two writes.
CallWorker ==
  /\ Doing({"flashio"}) /\ Fetched /\ worker' = "take"
  /\ Silent /\ UNCHANGED <<doing, pc, rep, reply, bad_ram>>
TakeFlash ==
  /\ worker = "take" /\ Configure([en |-> FALSE])
  /\ worker' = IF op.arg.kind = "write" THEN "wren" ELSE "transfer"
  /\ UNCHANGED <<valid, rd_wait, doing, pc, rep, reply, said, bad_ram>>
busVars == <<cfg, state, readVars, valid, board, dual_ends>>
WriteEnable ==
  /\ worker = "wren" /\ worker' = "transfer"
  /\ BitBang(1, FALSE, [wel |-> TRUE])
  /\ UNCHANGED <<busVars, doing, pc, rep, reply, said, bad_ram>>
Transfer ==
  /\ worker = "transfer" /\ worker' = "give back"
  /\ BitBang(op.arg.n, op.arg.kind = "write", op.arg.effect)
  /\ reply' = IF Heard /\ (op.arg.kind = "any" => flash.latency = LATENCY)
              THEN "read" ELSE "garbage"
  /\ UNCHANGED <<busVars, doing, pc, rep, said, bad_ram>>
GiveBack_StaysOff ==
  /\ worker = "give back" /\ worker' = "off"
  /\ Configure([en |-> FALSE]) /\ Advance
  /\ UNCHANGED <<valid, rd_wait, said, bad_ram>>
GiveBack ==
  /\ worker = "give back" /\ worker' = "off"
  /\ Configure([en |-> TRUE]) /\ Advance
  /\ UNCHANGED <<valid, rd_wait, said, bad_ram>>

Memtest ==
  /\ Doing({"words", "bytes", "passed"}) /\ Fetched
  /\ \/ op.do = "words" /\ WordsPass(op.arg) /\ Advance /\ Silent
     \/ op.do = "words" /\ ~WordsPass(op.arg) /\ Finish /\ said' = [what |-> "failed"]
     \/ op.do = "bytes" /\ BytesPass /\ Advance /\ Silent
     \/ op.do = "bytes" /\ ~BytesPass /\ Finish /\ said' = [what |-> "failed"]
     \/ op.do = "passed" /\ Advance /\ said' = [what |-> "passed"]
  /\ UNCHANGED <<worker, bad_ram>>

\* One poll of the receiver: nothing yet (and perhaps the prompt again), or a key.
getchar ==
  /\ Doing({"enter", "prompt", "echo"}) /\ Fetched /\ Silent
  /\ \/ UNCHANGED <<doing, pc, rep, reply>>
     \/ op.do # "prompt" /\ Advance                         \* ENTER, or '!'
     \/ /\ op.do = "prompt" /\ UNCHANGED reply
        /\ \/ \E c \in Commands : doing' = c /\ pc' = 1 /\ UNCHANGED rep
           \/ rep > 1 /\ rep' = rep - 1 /\ UNCHANGED <<doing, pc>>
           \/ rep = 1 /\ rep' = REPS /\ pc' = 1 /\ UNCHANGED doing
  /\ UNCHANGED <<worker, bad_ram>>

Operations ==
  \/ ShowNext \/ Spictrl \/ CallWorker \/ TakeFlash \/ WriteEnable \/ Transfer \/ GiveBack
  \/ Memtest
Firmware == Operations \/ getchar
Fetch == worker = "off" /\ Ask /\ UNCHANGED fwVars
Memory == Controller /\ UNCHANGED fwVars

Init ==
  /\ MemInit(LATENCY)
  /\ doing = "boot" /\ pc = 1 /\ worker = "off" /\ rep = REPS /\ reply = "none"
  /\ said = [what |-> "nothing"] /\ bad_ram \in {"none", "zeros", "address", "words"}
Next == Firmware \/ Fetch \/ Memory
\* The processor and the controller run; whoever is at the terminal may type, and
\* any key in any mode.
Spec == Init /\ [][Next]_vars /\ WF_vars(Firmware) /\ WF_vars(Fetch) /\ WF_vars(Memory)

-------------------------------------------------------------------------------
(* Whoever is at the terminal *)

\* The code takes every key in every mode, and on some key strokes the properties
\* below fail.  What is assumed of the terminal where they are said to hold is
\* stated here, as a restriction of Spec and not in getchar.
\* At the prompt, and the command of key c begins.
Typed(c) == Doing({"prompt"}) /\ doing # c /\ doing' = c

\* The keys on which the firmware fails: continuous reading on one line, which
\* README.md does not list as valid, and on two with a chip that one FF does not take
\* out of it; and commands to a chip in continuous read mode, which it does list and
\* in which the chip does not hear them.
Avoided(c) ==
  \/ c = "7" /\ ~cfg.qspi /\ (~cfg.ddr \/ ~dual_ends)
  \/ c = "0" /\ board = "hx8k" /\ ~dual_ends
  \/ c = "1" /\ cfg.cont
  \/ c = "2" /\ board = "ice" /\ cfg.cont
AdmittedKeys == \A c \in Commands : Typed(c) => ~Avoided(c)

CarefulFirmware == Operations \/ (getchar /\ AdmittedKeys)
CarefulNext == CarefulFirmware \/ Fetch \/ Memory
CarefulSpec ==
  Init /\ [][CarefulNext]_vars /\ WF_vars(CarefulFirmware) /\ WF_vars(Fetch) /\ WF_vars(Memory)

-------------------------------------------------------------------------------
(* Properties *)

TypeOK ==
  /\ MemTypeOK
  /\ pc \in 1 .. Len(Program[board][doing]) /\ rep \in 1 .. REPS
  /\ worker \in {"off", "take", "wren", "transfer", "give back"}
  /\ reply \in {"none", "read", "garbage"}

\* Every command sent by hand is heard by the chip, and what is read is its answer.
CommandsHeard == reply # "garbage"

\* The program can be read: controller and chip agree on command, width, mode byte
\* and dummy clocks after every change of them, so every word the processor takes
\* is the word at its address; and every command sent by hand is heard.  It holds
\* for the keys Avoided admits, and not for all the code takes.
FlashAnswers ==
  /\ TypeOK
  /\ Ready => rdata = valid
  /\ CommandsHeard

\* Of up to three decimal digits.
Value(digits) ==
  CASE Len(digits) = 1 -> digits[1]
    [] Len(digits) = 2 -> 10 * digits[1] + digits[2]
    [] Len(digits) = 3 -> 100 * digits[1] + 10 * digits[2] + digits[3]

\* What is printed is true: numbers read back as what they stand for, the latency
\* is the one in force, and the memory test fails exactly where it can see a fault
\* (on the small board it writes one word, which has no other to clash with).
ReportsTrue ==
  /\ said.what = "number" => Value(said.text) = said.v
  /\ said.what = "latency" => Value(said.text) = cfg.dummy
  /\ said.what = "word" =>
       \A i \in 1 .. 8 :
         said.v[i] = IF i <= Len(said.text) THEN said.text[Len(said.text) + 1 - i] ELSE 0
  /\ said.what = "passed" => bad_ram = "none"
  /\ said.what = "failed" => bad_ram # "none"

\* The firmware always comes back to a prompt and waits for a key, whichever of the
\* keys Avoided admits was typed: it keeps reading its program, whose loss would
\* stop it, and always gives the controller back.
BackToPrompt == []<>Doing({"enter", "prompt", "echo"})
================================================================================
