# TLA+ models of PicoRV32 and its SoC

The repository is a RISC-V core (`picorv32.v`), two small systems around it
(the reference PicoSoC in `picosoc/`, and the board in `scripts/vivado/system.v`
with three authenticated-encryption accelerators, a UART and an SD card), and
the firmware of both. These modules model the parts whose correctness depends on
the order of things: state machines that share a clock but not a pace,
handshakes, polling, time-outs, resets. What a register computes is left to
simulation; *when* it is loaded, by whom, and who relies on it is what is
modelled here.

Contents: [Inventory](#inventory), [Modules](#modules), [Runs](#runs),
[Fairness](#fairness), [Proofs](#proofs), [Findings](#findings),
[Not modelled](#not-modelled), [Plan](#plan).

## Inventory

### PicoRV32 core (`picorv32.v:62-2180`)
State: the memory interface (`mem_state`, `mem_valid`, the four `mem_do_*`
requests), two decode stages, `cpu_state` and the latches that carry a result
into the next instruction (`latched_*`, `reg_out`, `alu_out_q`), the interrupt
registers, the co-processor time-out.
Operations: one clock edge, which is at once a step of the memory interface, of
the decoder, of the main state machine and of the interrupt controller; reset.
Interaction: native memory bus with a look-ahead port, PCPI, `irq`/`eoi`.
Hard: the next instruction is fetched while the current one runs, so three
copies of "the instruction" coexist; memory answers after any delay; interrupts,
traps and misaligned addresses arrive in the middle; nine configuration switches
change the pipeline.
Correct when: requests are exclusive and live as long as their transfer, the bus
is stable, each data transfer happens once, both decode stages describe the
instruction that uses them, results go to their own register, interrupts fall
between instructions and save the right address, every instruction ends.

### Co-processors (`picorv32.v:2181-2515`)
Multiplier (serial and fast) and divider behind PCPI: start, iterate, present
the result for one cycle. Hard: `pcpi_wait` has to come before the time-out;
the operands may change once `pcpi_valid` falls; a unit that a reset cut off
keeps what it had. Correct when: an instruction gets one answer, its own.

### AXI4-Lite and Wishbone adapters (`picorv32.v:2517-3049`)
State: three acknowledgement bits and `xfer_done`; a three-state machine with
registered outputs. Operations: one clock, reset. Interaction: the core's native
bus on one side, a device on the other. Hard: channels accepted in any order,
answers of any delay, bookkeeping cleared a cycle late and only partly reset.
Correct when: each transfer of the core is performed exactly once, and a read
returns the answer to its own address.

### SPI master and SD registers (`picosoc/simple_spi_master.v`, `system.v:140-178`, `bootloader.c:89-105`)
State: shift registers, clock divider, bit position, the sticky `done` flag and
the received byte; the polling loop of `spi_xfer`. Interaction: a register write
starts a transfer, a one-cycle pulse ends it, software polls at its own pace.
Hard: the pulse is shorter than a poll; the flag of the previous transfer is
still up just after the next one was started; chip select and divider can be
written at any time. Correct when: one call is one byte exchanged in each
direction, in SPI mode 0 as the card sees it.

### SD bootloader (`firmware/bootloader.c`, `boot_crt0.S`, `bootloader.ld`)
State: progress through card initialisation, the sector buffer, bytes written,
the application memory, the card. Hard: every answer of the card can be late,
wrong or missing; the image is copied into the memory that also holds the
bootloader's own data and stack; sizes that are not a multiple of a sector or
of four. Correct when: control is passed only to a complete image, the
bootloader never overwrites itself, and it always ends.

### UART (`picosoc/simpleuart.v`, `system.v:104-134, 323-375, 424-437`)
State: transmit and receive shifters with their bit clocks, `tx_busy` with its
countdown, the registered read and write strobes. Hard: the countdown stands for
a wait signal that is left open; the receive buffer is cleared a clock after it
was read; an idle frame after reset during which writes are ignored. Correct
when: a byte written when the status says ready is sent, and received as sent.

### SoC bus (`system.v:180-746`)
Fast path (answers every access in the next cycle through the look-ahead port)
and slow path; registers of all devices, the sticky `done` flags of the
accelerators. Hard: one-cycle start pulses, reads of a result while it changes,
addresses the slow path never answers. Correct when: a transfer is performed
once and answered with its own result, and each strobe is seen exactly once.

### Accelerators (`picosoc/tinyjambu`, `picosoc/GIFT_COFB`, `picosoc/Xoodyak_old`) and their firmware (`firmware/firmware.c`)
Block sequencing of three AEAD modes, each with its own handshake (level, start
pulse, request and acknowledge), driven by polling loops. Hard: inputs that are
not latched, acknowledgements outside the state that waits for them, the last
block and its padding, a tag compared before it is complete. Correct when: no
strobe is lost or seen twice, a result is read only when it is complete, and the
verdict on the LEDs is true.

### SD card test (`firmware/firmware.c:718-968`)
A second driver for the same card, run after the bootloader has left it in some
state. State: the command under way, poll and retry counters, the capacity it
believes the card has. Hard: ten ways out, one of them for old cards on which a
lost answer also ends. Correct when: the card is addressed in its own unit, runs
at full speed only when it is ready for it, and is deselected at the end.

### PicoSoC (`picosoc/picosoc.v`, `spimemio.v`, `spiflash.v`, `start.s`, `firmware.c`)
Memory-mapped serial flash with sequential read-ahead; a menu of commands that
change how it is read while the program runs from it. State: the configuration
register, the burst under way and the word read ahead, the mode the chip is in.
Hard: controller and chip have to agree after every change; a chip in continuous
read mode takes a command for an address; while `flashio` has the controller no
instruction can be fetched. Correct when: each word taken is the one at its
address, commands sent by hand are heard, and the prompt comes back.

### Test program (`firmware/start.S`, `irq.c`, `sieve.c`, `multest.c`, `tests/*.S`, `testbench.v`)
Instruction tests, a prime sieve, a comparison of the multiplier and the divider
with the compiler's arithmetic, and an interrupt handler that saves and restores
all registers through q registers. Hard: the handler can be entered after any
instruction, without end; it needs registers to restore registers. Correct when:
the handler is invisible, and the core stops with the right verdict.

## Modules

| module | models | kind |
| --- | --- | --- |
| `PicoRV32` | the control of the core | state machine, one step per clock |
| `ISA` | what the core promises a programmer | abstract specification |
| `PicoRV32Props` | properties of the core, its refinements of `ISA` and `NativeMaster` | properties |
| `MCPicoRV32` | the settings of the core that are model-checked | model values |
| `PicoRV32_proofs` | types, the memory interface, the core as a `NativeMaster`; the instruction in the decode stages is the one at the program counter; transfers, comparisons, time-outs and interrupts belong to their instructions; alignment, dispatch, and the refinement of `ISA` | theorems |
| `NativeMaster` | the core as a bus adapter sees it | abstract master |
| `MemoryPort` | one request, performed once, answered | abstract specification |
| `AxiAdapter` | `picorv32_axi_adapter` between `NativeMaster` and an AXI4-Lite device | component |
| `WbAdapter` | the state machine of `picorv32_wb` between `NativeMaster` and a Wishbone device | component |
| `SystemBus` | the fast and the slow memory path of `system.v` behind `NativeMaster` | component |
| `BusAdapters` | the three tops, AXI, Wishbone and the SoC, against `MemoryPort` | composition |
| `BusAdapters_proofs` | each top implements `MemoryPort` | theorems |
| `SimpleSpiMaster` | `simple_spi_master.v` | component |
| `SdSpi` | master, SD registers of `system.v`, `spi_xfer`, a card | composition |
| `SpiExchange` | one call, one byte each way | abstract specification |
| `SdSpi_proofs` | both ends of the byte exchange stay in step, mode 0, and the refinement of `SpiExchange` | theorems |
| `MCSdSpi` | the bytes `SdSpi` is checked with | model values |
| `Bootloader` | the bootloader, the card and the application memory | state machine, one step per poll |
| `Bootloader_proofs` | no command over an unanswered one; the load stays in range; only complete images run, if the whole window is memory | theorems |
| `SocUart` | `simpleuart.v`, its registers in `system.v`, polling software | composition |
| `SocUart_proofs` | the countdown outlasts the frame; bytes arrive as sent | theorems |
| `AeadCores` | control of the three accelerators, their registers and strobes | component, one step per clock |
| `AeadTests` | `test_tinyjambu`, `test_xoodyak`, `test_giftcofb`, access by access | composition with `AeadCores` |
| `SdTest` | `sd_send_cmd` to `test_sdcard`, with a card | component, one step per poll |
| `SocFirmware` | `main` of `firmware.c` | composition |
| `SelfTest` | what the self-test promises | abstract specification |
| `SocFirmware_proofs` | no strobe lost and no result taken for another; the rules of the SD card; the refinement of `SelfTest` | theorems |
| `SpiMemIo` | `spimemio.v` and the flash chip | component, one step per phase of a burst |
| `PicoSoc` | the demo firmware, running from that flash | composition |
| `PicoSoc_proofs` | for the keys `Avoided` admits the program can be read from the flash it reconfigures; for all keys what it reports is true | theorems |
| `MulDiv` | `picorv32_pcpi_mul`, `_fast_mul`, `_div`, the port and its time-out | component, one step per clock |
| `TestProgram` | `start.S`, `irq.c`, `sieve.c`, `multest.c`, the verdict of `testbench.v` | composition with `MulDiv` |
| `TestProgram_proofs` | every instruction of multiplier and divider gets its own answer; the interrupt handler is invisible | theorems |

### PicoRV32
One step is one rising clock edge, so every step is the conjunction of what the
four `always` blocks do (`Every`, and one action per arm of the main `case`) or
`Reset`. Registers keep their Verilog names, wires are operators, last-assignment
order in the source becomes the precedence of the conjuncts (`Request`, `Goto`,
`IrqPending`). Abstractions:

- an instruction word is its class and the address it came from; a decode stage
  holds such a pair. This is what makes "the decoder describes the wrong
  instruction" visible. Stage 2 combines the class stage 1 found with the word
  it latches itself, as the source does;
- register values are dropped except addresses of jumps and data, the result of
  a comparison, and the shift count; each is a choice from a small set when the
  source reads a register;
- addresses count halfwords; an odd one stands for an address its access size
  forbids (`CATCH_MISALIGN`);
- the memory answers when it likes; a look-ahead port user sees `mem_la_*`;
- `COMPRESSED_ISA`, `LATCHED_MEM_RDATA`, `ENABLE_TRACE` and RVFI are off.

The parameters of the Verilog module are one variable, `config`, that no step
changes: the switches that are on (`ENABLE_IRQ`, `CATCH_MISALIGN`, ... are
operators on it) and the kinds of instruction the program contains. The constant
`Configs` is the set of settings, so that one run covers several builds and a
theorem covers all.

`ISA` runs one instruction at a time. `absPc`, `absIr` in `PicoRV32Props` map the
pipeline to it: the program counter is that of the executing instruction, or the
one the latched results will produce.

### Bus adapters
`NativeMaster` is the core reduced to its bus: `Begin`, `Wait`, `Finish` and at
least one cycle between two transfers. `PicoRV32Props!ImplementsMaster` shows
the core is one, so that the adapters, checked with any such master, are checked
with the core. The devices are external: the AXI one takes each channel when it
likes, performs a transfer once it has the whole of it, at the earliest in the
cycle that completes it, and answers then or later; the Wishbone one
acknowledges a strobe in any cycle. `SystemBus` is the third top: the fast path
of `system.v` acts on the look-ahead cycle and answers every clock, the slow path
acts on the registered address and answers what its decoder knows, a read of the
block RAM two clocks later than the rest. The decoder is three sets of addresses:
`Ram`, `Readable` and `Writable` registers. `BusAdapters` chooses one of the
three and checks it against `MemoryPort`: a transfer is performed exactly once while the
core waits for it, or abandoned by a reset. A write carries the address as data, which suffices to see a mix-up. Reset may hit
in any cycle, and the registers the code does not reset keep their values.

### SPI and bootloader
`SimpleSpiMaster` is one `always` block. `SdSpi` composes it with the sticky
flag, the registers and the polling software (a poll is one access, at most every
other clock, otherwise at any pace) and with a card in SPI mode 0. Its refinement
of `SpiExchange` is what lets `Bootloader` treat a byte as one atomic exchange.
`Bootloader` names each byte of the image by its offset, so that a byte at the
wrong address shows. Its state is the C program's variables and the position in
it; `step` is the position inside `sd_cmd` and the token loop. The card answers
late, wrong or never, and carries images of any of a set of sizes.

### UART
`SocUart` is cycle by cycle. The transmit line is looped back to the receiver.
Two ghosts: `sent`, the bytes on the line, and `warm`, the idle frame after
reset has ended. Software either polls and writes, as `pc` of `firmware.c` and
`uart_putc` do, or reads the data register at any time; no firmware writes the
divider, which keeps its reset value, any of a set.

### Accelerators and self-test
In `AeadCores` a hardware step is one clock: the strobes that a register write
raised, the state machines, and the sticky flags, in the order the clock edge
gives them. A value of up to 128 bits is a name, spread over `Words` words, so
that a word of another value or of another block shows; what a core computes is
known for the published test vectors, and anything else gives `Junk`. A
permutation takes any time up to `MaxRun`. Some chips are defective (`fault`), so
that a test which passes everything is wrong too. `AeadTests` is the driver: in a
clock the processor makes one access or none, two at least `MinGap` apart.

`SdTest` has the same form as `Bootloader`, since the code is a sibling of it.
Loops and retries are counters with their limits as constants. `SocFirmware` runs
the parts one after the other, as `main` does. A reset clears all registers and
starts `main` again, and the card may be in any state at the start: a restart is
an initial state. `SelfTest` is the promise it is checked against: the units are
tested in order, each passes if and only if it is sound (a card may also stay
silent), and the LEDs end on 0xFF exactly if all have passed.

### PicoSoC
`SpiMemIo` has a step per phase of a burst: wake-up, release, command, address,
data. The chip takes a phase as its own state has it, so a command in continuous
read mode becomes an address, and words read out of step with the chip are
`Junk`. In `PicoSoc` every function of `firmware.c` is the sequence of its
operations, and an operation runs once the word it is in has been read through
the controller. `flashio_worker` runs in RAM and takes the controller away
meanwhile. Fixed texts are operations without an effect; numbers are digits.
An operation whose word was read wrongly is not carried out: what a processor does
with such a word is anything, so the model stops there, and `BackToPrompt` fails.

`getchar` takes every key in every mode, as the code does, and `Spec` is the code.
On some keys the program is then lost or prints garbage ([Findings](#findings)), so
what is claimed of it needs an assumption about whoever is at the terminal, which is
stated apart from the code: `AdmittedKeys` says that none of the keys `Avoided` names
is typed, and `CarefulSpec` is `Spec` restricted to it. `Avoided` are
`7` (continuous reading) on one line, and on two unless the chip leaves continuous mode
after one byte of FF (`dual_ends`); `0` on the larger board for the same reason; and
`1` (on the smaller board `2` too) while continuous reading is on.

### Multiplier, divider and test program
`MulDiv` is clock by clock, on registers of `W` bits. Registers that a resting
unit reloads before it reads them are 0 while it rests. `TestProgram` puts the
program around it: a step is a stretch of instructions between which nothing
depends on an interrupt, or one clock of an instruction offered to a unit; the
handler is executed instruction by instruction on a register file in which
register `i` of the program holds the name `i`. The instruction tests pass or
fail as the core is sound or not (`defect`), and the products are compared with
ordinary arithmetic (`Soft`), as the source does with the compiler's. A reset
lasts two clocks at least and leaves the memory, the sieve's bitmap among it, as
it was.

## Runs

| run | instance | what it shows |
| --- | --- | --- |
| `Core` | seven settings of `MCPicoRV32`, resets at any time | see below |
| `CoreProgress` | two settings, under fairness | instructions end, the next one arrives (`InstructionFinishes`), pending interrupts are served (`InterruptServed`) |
| `Adapters` | either adapter with any device, either memory path of the SoC; two addresses, two answers | one transfer at a time, offers and cycles stay still, each transfer is performed exactly once (`ImplementsPort`) and ends, but for an address the slow path does not decode (`Hangs`) |
| `SdSpi` | three bits, dividers 0 and 1 | one call of `spi_xfer` is one byte each way and returns; mode 0 on the wires |
| `Boot` | sector of 4 bytes, images of 0 to 9 bytes, memory behind the whole window | only a complete image is started; the bootloader keeps its own data; no command is sent over an unanswered one; the boot ends, unless the card stays idle for ever |
| `Uart` | 2 data bits, dividers 1 to 4 | nothing dropped once the idle frame is over; bytes arrive as sent; polling ends |
| `Firmware` | two words a value, all vectors of `firmware.c`, one defect or none, any card | no strobe lost (`StrobesLand`), no result taken too early (`TakesOwnResult`), the card treated by its rules (`CardRules`), the verdict true (`ImplementsSelfTest`) and reached (`VerdictReached`) |
| `PicoSoc` | both boards, two kinds of chip, every sequence of the keys `Avoided` admits (`CarefulSpec`) | every word fetched and every command sent is understood (`FlashAnswers`), printed values are true (`ReportsTrue`), the prompt comes back (`BackToPrompt`) |
| `Program` | registers of 2 bits, both multipliers, six cores of which one is sound | the handler is invisible (`Transparent`), an instruction of the units gets its own answer (`OwnAnswers`), the core stops with the right verdict (`EndsWithVerdict`) |
| `PicoSocAnyKey` | the same with every key (`Spec`) | violates `FlashAnswers`, see [Findings](#findings) |
| `BootSmallMemory`, `UartReadRace` | | disagreements, see [Findings](#findings) |

What `Core` checks: the assertions of the memory interface (`InterfaceState`),
the rules of the bus (`ImplementsMaster`, `LookAhead`, `DataOnce`), that the
decode stages describe the instruction that uses them (`LaunchCoherent`,
`ExecuteCoherent`) and nothing misaligned is launched, the `parallel_case`
attributes (`ParallelCase`), that a branch uses its own comparison
(`CompareSettled`), that interrupts find work, do not nest and save the right
address (`HandlerHasWork`, `ReturnAddress`), that every co-processor instruction
gets the whole time-out (`PcpiBudget`), and that all of it looks like `ISA`
(`ImplementsISA`). Its settings:

| setting | pipeline | instructions |
| --- | --- | --- |
| `Plain` | dual-port registers, serial shifter | all classes without interrupts |
| `Slow` | one port, two-cycle ALU and comparison, barrel shifter, misaligned addresses trap | arithmetic, jumps, loads and stores |
| `Pcpis` | co-processor port, one register port | co-processor instructions, EBREAK |
| `Interrupts` | interrupts from a line, EBREAK and bus errors | `retirq`, `maskirq`, `waitirq`, jumps, loads |
| `Timer` | interrupts and the timer | the interrupt instructions |
| `Stops` | `CATCH_ILLINSN` off: EBREAK stops the core when it is decoded | illegal ones included |
| `Uncaught` | the same with interrupts | EBREAK, loads and stores of illegal width |

Bounds and why they are enough:

- *Core.* `NHalf` is the number of halfword addresses: 6 gives three words, so
  that an instruction, its successor and a jump target are all different, and a
  stale fetch address cannot pass for the right one. Two jump targets make a
  taken and a repeated jump distinguishable. `MaxTimeout` 3 stands for 15: the
  property compares with the full value, so only "full", "less" and "zero"
  matter. `MaxTimer` is large enough for the timer to be rewritten before, at
  and after 1. `MaxShift` 4 takes both the step of 4 and the step of 1 of the
  serial shifter. The settings are the combinations that add a pipeline
  stage, a kind of instruction or an exit; the theorems hold for all of them.
- *Adapters.* Two addresses tell two consecutive transfers apart; more add
  nothing since at most one is in flight (`OneAtATime`). One is RAM, the other a
  register that can be read and not written, so that both kinds of read and an
  address the decoder does not know occur.
- *SPI.* Three bits have a first, a middle and a last; dividers 0 and 1 have
  and lack the wait state; three one-hot bytes detect any lost or shifted bit.
- *Bootloader.* A sector of 4 bytes with a header of 1: images end before, at and
  after a sector boundary, at the maximum and above it. Two polls stand for 1000
  and 100000: a last one and one before it. All retries are taken.
- *UART.* Two data bits with the start and stop bit give frames of four bits; the
  idle frame (6) is longer than a frame, as 15 is longer than 10; `HOLD` is the
  least the assumption `UartAssumption` allows, tighter than 9000 for 8700.
  Dividers up to 4 cover even and odd halves. Divider 0 is excluded: the
  receiver then samples one bit late, which TLC shows at once.
- *Self-test.* Two words have a first and a last; a permutation takes one or two
  clocks, less than, and as long as, a driver needs between two accesses.
  `MinGap` 3: between two data accesses the core fetches at least one
  instruction, and each takes more than one clock. The proofs need no more than 2,
  the two clocks of a fetch (`GapAssumption`). All poll and retry limits are
  2, a last one and one before it (50000, 10, 5, 20000, 200000 in the source).
- *PicoSoC.* Three words give a next one, a jump and a wrap. The latency has its
  real range. Loops run twice: once more, and the end.
- *Program.* Two bits have the lowest number, -1, 0 and 1, hence all combinations
  of signs, the overflow of the division and the division by zero; `MaxTimeout`
  keeps its value, 15. Five rounds of multest are its four fixed kinds of
  operands and one with any. Two instruction tests are a first and a last one. A
  bitmap of six bits holds 9, a composite that only the smallest step marks.

Deadlock is checked in every run: reset, the clock or the endless loop at the end
of `main` keep all of these models running.

Every property has a mutant: a definition of the model changed as a plausible
bug would (`<definition>_<Variant>`, just above the definition). With the
variant in its place the run must fail; they are not part of the specifications.

## Fairness

- Core: weak fairness of the clock, of a memory that answers each transfer
  (`Answered`) and of a co-processor that does not hold `pcpi_wait` for ever
  (so it is `PcpiBudget`, not `InstructionFinishes`, that watches the time-out);
  reset stays high in this run (`FairSpec`). Memories of this repository answer within a bounded number of
  cycles. `InterruptServed` excepts a program that is one endless run of
  `waitirq`: that instruction does not end `irq_delay`.
- Adapters (reset at any time; a reset ends a transfer too): the clock, a device that accepts each channel and answers each
  transfer. Each is a separate condition since AXI lets the device delay them
  separately.
- SPI: the clock and the processor's next access.
- Bootloader: the card leaves its idle state some time (`LeavesIdle`). The code does
  not ensure it: `sd_acmd41` retries without a limit, and with a card that stays idle
  the boot does not end. `BootEnds` leaves that loop out and covers the others, which
  the code counts down itself. `BootEnds`
  speaks of behaviours in which the reset button is eventually left alone.
- UART: the clock, and software that is polling goes on polling.
- Self-test: the hardware clock, the processor's next access (without it the
  model could let the clock run for ever between two accesses), and the next poll
  of the card test. Nothing is asked of the card.
- PicoSoC: the firmware, the fetch and the memory each go on. Nothing is asked of
  whoever types.
- Program: the core goes on, reset is released, and line 4 rises again and again,
  which a counter in `testbench.v:85` sees to; the program waits for it at its
  start. That the program goes on *between* interrupts is not assumed: it follows
  from `irq_delay`. `EndsWithVerdict` speaks of behaviours in which reset is left
  alone some time.

## Proofs

### Core: memory interface (`PicoRV32_proofs`, first part)
Everything about the core is proved for every configuration, every set of
instructions, every number of addresses and every timing of the memory, from the
assumptions in `PicoRV32`. Three theorems carry a hypothesis on the constants, which
is stated below with the reason for it.

`TypeCorrect` (`Spec => []TypeOK`), `RequestsAreExclusive`
(`Spec => []RequestExclusive`), `InterfaceMatchesRequests`
(`Spec => []InterfaceState`), `TransfersAreStable` (`Spec => Stable`),
`CoreIsMaster` (`Spec => ImplementsMaster`), `LookAheadAnnounces`
(`Spec => LookAhead`).

Exclusive requests and the state of the interface are the `assert`s of the source
(`picorv32.v:532-563, 596-631`), and `Stable` is the stability the bus relies on. None is inductive alone: the core must not start a
data transfer while a fetch is out, and whether a fetch is out depends on how it
got into its current state. The inductive invariant `IInv` adds to them, state by
state of `cpu_state`, which requests may be up: nothing is requested at a
`decoder_trigger` (`FetchInv`), an operand state holds at most the prefetch of
the instructions that prefetch (`OperandInv`), a data request only in its own
state or in the trap (`DataInv`). The step is split as the code is: lemma
`BusStep` shows the memory interface keeps its half whenever the main state
machine only withdraws requests of finished transfers (`Kept`) and keeps them
exclusive; one lemma per group of states of the main machine shows that it does,
and that its half of the invariant is kept. `Stable` is a consequence of the
invariant in each arm of `mem_state`.

`TypeOK` is not inductive either. The program counter is loaded from `reg_out` or
`alu_out_q` when a branch is latched, and these hold no address most of the
time. `PcInv` says why that is safe: `latched_branch` and `latched_stalu` are
clear in every state that reads operands or waits for memory, so only `jalr`,
`retirq` and a taken branch can leave a target behind, and each has just written
it where the next `cpu_state_fetch` looks. The proof has one lemma per action.

`CoreIsMaster` is the step of the argument that lets the adapters be checked
without the core. It needs both invariants above and one more fact, `TrapQuiet`:
`mem_la_read` and `mem_la_write` are not gated by `trap`, so an announcement
without a transfer is excluded only because the step that raises `trap` either
starts the transfer still requested or finishes the one outstanding.

### Core: pipeline (`PicoRV32_proofs`, second part)
`PipelineInvariant` (`Spec => [](CoreInv /\ PipeInv)`) is the invariant that ties
both decode stages to the fetch in progress. Its parts, each a conjunct of
`PipeInv`: the interface fetches or holds the word at `reg_next_pc` and nothing
else (`FlowInv`); `reg_next_pc` follows `reg_pc` while an instruction executes,
and a jump still on its way finds nothing fetched (`TargetInv`); what each stage
holds in each state (`DecodeInv`); when an instruction may be reported decoded
(`TriggerInv`); what an interrupt entry finds (`EntryInv`); whose destination
register is latched (`DestInv`); and where an EBREAK decoded a clock ago can still
be seen (`StopInv`). The proof computes once, per state of the main machine, what a
clock edge does (`FetchCycle`, `OperandCycle`, `ExecCycle`, `DataCycle`), then
describes each action by what the invariant needs of it (`FetchMove`, ...).
From it follow

- `ExecutesCoherently` (`Spec => []ExecuteCoherent`) and `ReturnsToNext`
  (`Spec => []ReturnAddress`);
- `DataIsTransferredOnce` (`Spec => DataOnce`), with `WriteInv`: a write is never
  marked as a fetch;
- `BranchesCompareTheirOperands` (`Spec => CompareSettled`), with `CompareInv`: the
  waits counted by `alu_wait` are those the comparison still needs;
- `PcpiTimeoutIsWhole` (`Spec => []PcpiBudget`), with `PcpiInv`: the two clocks
  between two instructions are enough to reload the counter;
- `HandlersHaveWork` (`AllLatched => (Spec => []HandlerHasWork)`), with `WorkInv`.
  `AllLatched` is `LATCHED_IRQ = Irqs`, the default of the source
  (`picorv32.v:85`). It is needed: a line that is not latched may fall between the
  clock that accepts the interrupt and the one that acknowledges it, and the
  handler is then entered with nothing to do (TLC finds it with
  `LATCHED_IRQ = {2}`).

### Core: instruction set (`PicoRV32_proofs`, third part)
- `LaunchesCoherently` (`BusErrorLatched => (Spec => []LaunchCoherent)`): no
  instruction is begun at an address its size forbids, except right behind the
  handler, where the bus error has to wait. `AlignInv` says that such
  an address has raised the bus error or could, `LateInv` that the error is
  pending by the time the instruction could be launched. The hypothesis is
  needed: the bus error is raised in the one clock in which the fetch ends, and
  unless it is latched it is gone when the core looks (`LATCHED_IRQ = {2}` again);
  the core then executes the misaligned instruction.
- `CasesAreParallel` (`NoStoreTrap => (Spec => []ParallelCase)`), with
  `DispatchInv`: which instructions reach which state. `NoStoreTrap` excludes the
  one combination that does match two arms, a store of illegal width with
  `WITH_PCPI` and one register port.
- `ImplementsInstructionSet` (`NoStoreTrap => (Spec => ImplementsISA)`): the core
  implements `ISA`. Every clock edge is a step of `ISA` under `absPc`, `absIr` or
  leaves them alone; there is one lemma for each state of the main machine
  (`IsaRead`, `IsaRefused`, `IsaOther`, `IsaExec`, `IsaData`, `IsaLaunch`,
  `IsaAwait`), and one for each way to end a step (`AbsFinish`, `AbsTransfer`,
  `AbsHalt`, `AbsStutter`).

The attempt to prove the refinement corrected `ISA` itself, which the six settings
checked until then agreed with: without `CATCH_ILLINSN` the EBREAK that an
interrupt pushes back stops the core at the door of the handler (`MayStop` in
`Interrupt`), a reset of one or two clocks can meet an EBREAK already decoded, and
a load or store of illegal width that nothing catches runs as a load or store
(`runsAs`). The setting `Uncaught` now shows the first and the last to TLC.

### Bus adapters (`BusAdapters_proofs`)
For any addresses, data, devices and address decoder: `KeepsOneAtATime`,
`OffersAreKept`, and `KeepsPromise`, which is `Spec => ImplementsPort`, the
refinement itself. The invariant `AllInv` has a part for each top. It relates
three records of one transfer that the code keeps apart: what the core has on its
bus, what the acknowledgement bits say, and what the device holds or has
performed. The AXI part says, for each channel, that offered, taken and answered
exclude each other and together account for the transfer. Reset is the hard case:
three of four registers keep the state of the transfer it cut off, and what saves
the next one is that the core is off the bus for a cycle, in which they clear.

### SPI (`SdSpi_proofs`)
For bytes of any width and any divider: `EndsInStep`, `WiresKeepMode0`, and
`ExchangesOneByte`, which is `Spec => ImplementsExchange`, the refinement of
`SpiExchange`. The invariant of the first two is `Handshake` (a transfer runs only
while `spi_xfer` waits for it, and the sticky flag is down until it ends) with
`BitsAgree` (card and master are at the same bit). `Handshake` is what makes the
registers safe to write: nothing in the hardware keeps software from changing the
divider in the middle of a byte. The refinement adds `Carried` (`DataInvariant`):
the byte sent is at every moment spread over two shift registers, what the card has
gathered and what the master has still to send, and so is the answer; with every
half period one bit changes sides. Master and card read the line on opposite edges,
so for half a period one of them is a bit ahead, and `Gathers` and `Answers` say in
which phase of the clock which one it is.

### Bootloader (`Bootloader_proofs`)
For sectors, headers, images and poll limits of any size, and whatever memory is
behind the window, `NothingIsOwed` (from `ControlInv`) and `LoadStaysInRange`
(`Spec => []LoadInRange`, from `RangeInv`): polls stay within their limits, a sector is
asked for only if the firmware reaches it, the buffer holds the one asked for, and what
has been copied is the number of bytes before it (`ProgressInv`), never more than
`MAX_FW_BYTES`.

Where the copy ends up depends on the memory. `LoadsImage` and `BootDataSafe` assume
`APP_SIZE = WINDOW`, memory behind the whole window: 64 KB as `bootloader.c:6`, both
linker scripts and the address decoder (`system.v:306`) have it. The default of
`system.v:73` is 16 KB and does not meet the assumption; the run `BootSmallMemory` shows
that the second theorem then fails. Their invariant `IInv` adds to `RangeInv` that the
bytes copied are in their places (`LoadInv`) and the bootloader's own data is untouched.

### UART (`SocUart_proofs`)
For any frame, divider and hold time that meet `UartAssumption`:
`DropsAreAfterReset`, `TypeCorrect`, and `BytesArriveAsSent`, which is
`Spec => Delivered`. The invariant `Margin` of the first compares two
counters that never see each other: from the clock in which a byte is taken over,
the countdown of `system.v` is at least the number of clocks left in the frame of
`simpleuart.v`. `LineInv` compares two more, the bit counts of the two directions:
the receiver starts a clock after the frame, ends the start bit at `Half`, and from
then on is at the same distance from the shifter in every bit. Since `Half` is at
most the divider, unless that is 0, the clock in which it samples lies inside the
cell of the bit, and the last one inside the stop bit, so that the receiver is at
rest again before the next frame.

### Self-test (`SocFirmware_proofs`)
`CardIsTreatedWell` (`Spec => []CardRules`) for any poll and retry limits.
`KnowledgeInv` is what the driver has learnt of the card by each command: a
high-capacity card is ready only for a host that announced it could handle one,
so the path for old cards cannot end with such a card.

`StrobesAreNotLost` (`Spec => []StrobesLand`) and `ResultsAreItsOwn`
(`Spec => []TakesOwnResult`), for values of any number of words, permutations of any
length, any defect, and any time between two accesses that leaves room for a fetch.
Driver and cores never wait for each other but through STATUS, and the
invariant `CoresInv` says how much of the other side each may conclude from it:
- `DoneInv`, `RestInv`: done is shown only by a core at rest, and kept by the sticky
  register only until the next start; so from the sight of done to the next start
  all cores rest.
- `RequestInv`: a request line outlives its request by one clock, in which the driver
  has just acknowledged it. This is where the distance of two accesses enters: the
  next poll must come later. With `MinGap` 1 the invariant is false, as is
  `StrobesLand`; `mem_ready` is registered (`system.v:558`), so that the fetch in
  between alone takes two clocks.
- `BlockInv`: which words of the second block are written, item by item, since the
  acknowledgement is for the whole block.
- `TakenInv`: what the core was told at its start, and in each of its states how many
  blocks of each kind it has taken in.
There is one lemma per core for what a clock does to it (`JbMoves`, `XdMoves`,
`GcMoves`), one for where each access takes the driver (`DriverMoves`), and one per
part of the invariant (`StepPlace` to `StepTold`).

`SelfTestKeepsItsPromise` (`Spec => ImplementsSelfTest`) is the refinement of
`SelfTest`. `CoresInv` says when something is read and written; the verdict depends on
what. `ValuesInv` (`ValuesAreRight`) follows every value on its way from the driver
through a core and back:
- `RegsInv`: what the registers of the request's core hold, word by word while they are
  loaded, as long as the core has not taken it in;
- `FedInv`, `ResultInv`: what a sound core has taken in, and which output and tag it
  shows in which of its states, since it overwrites the one with the next;
- `ReadInv`: what the driver has read, word by word, and the first block of two also
  after the core has gone on;
- `GotInv`: before it decrypts, the driver holds the ciphertext and the tag of the
  encryption before, which is why the plan has to have them in pairs (`PlanPairs`);
- `BrokenInv`, `ValidInv`: what a defective core shows instead, and the valid bit from
  core to register to driver;
- `JudgedInv`: only the defective core is among the failed ones, and it is as soon as
  one of its requests must have shown the defect; `OverInv` is the order of the parts.
`SoundPasses` and `DefectFails` draw the conclusion for one request, from the values in
`got` at the time of `Judge`. A word is found in a list by its number, `Words` to an
entry (`ListGoesOn`, `PlaceIsUnique`), so the proof is for any width.

The rest is the refinement mapping. How many units have been tested is a cardinality in
the mapping and a place in the plan in the code (`HowManyEnded`); when a core's tests
are over it has failed exactly if it is the defective one (`EndedVerdict`), so that both
are functions of `at` and `fault` (`WhatIsSeen`). A judgement of the last request of a
core is then the test of that unit, and any other one a stutter (`AeadSeen`); the step
that ends the card's test is the test of the card (`SdSeen`), which passes only by the
signature (`CardVerdict`) and ends once (`OverIsOver`).

### PicoSoc (`PicoSoc_proofs`)
For a flash of any size, any latency after reset the register can hold, any number of
rounds, both boards and both kinds of chip. `FlashAlwaysAnswers`
(`Spec /\ [][AdmittedKeys]_vars => []FlashAnswers`), `PicoTypes` and `PicoInvariant`
assume that none of the keys `Avoided` names is typed; without that the first is false
(`PicoSocAnyKey`). `CarefulFlashAnswers` is the same of `CarefulSpec`, which the run
`PicoSoc` checks: a command begins in `getchar` only (`CarefulSteps`).
`AlwaysReportsTrue` (`Spec => []ReportsTrue`) holds whichever keys are typed, from an
invariant that asks nothing of controller and chip (`StepsInv`). The argument for the
others has three parts.

*What the programs are.* Every command is a sequence put together from pieces. The
lemmas `Script...` say which operations occur in it, and, for each, what stands
before and behind it (`Placed`): the latency is set at both ends by two operations
with nothing between them; registers are read by hand right after that, at the
latency the code counts on; continuous reading is turned on by itself only after a
width of four lines; a memory test has passed only after its last part. `Long...`
and `Made...` carry this to loops, whose rounds are pieces of the same length
(`RoundsPieces`), and `Programs`, `OpFacts`, `PlacedFacts` state it for whatever
command is running.

*The invariant* `PicoInv`. Chip and controller are in the same mode, and the word on
its way is read in the mode in which the chip sends it (`WakeInv`, `ContInv`,
`BurstInv`, `WordsInv`). Both count the same dummy clocks, except between the
operation that changes them in the controller and the next, which changes them in
the chip (`DummyInv`): that one runs from RAM and ends before the flash is
read again. While `flashio` has the controller the chip is awake and listening
(`WorkerInv`). The quad flag is set before the menu is reached (`BootInv`), commands
by hand are sent only while nothing is read continuously (`HandInv`), continuous
reading finds a width it works with (`WidthInv`), and success is reported only for
memory that has passed (`PassedInv`). There is one lemma per action of controller, chip and
firmware; what an operation leaves for the next one (`Left`) is carried over by
`AfterOperation`.

*Reports.* From the invariant and from what `print_hex` and `print_dec` do to the
numbers that occur.

### Multiplier and divider, interrupt handler (`TestProgram_proofs`)
`AnswersTheirOwn` (`Spec => []OwnAnswers`) for registers of any width from two bits,
both multipliers, any defect of the core, and resets and interrupts at any time. The
assumption `MaxTimeout >= 4` (15 in the source) leaves a unit the clocks it takes to
say that it is at work; with less the time-out strikes first.

The invariant `UnitsReady` (`UnitsInvariant`) has a part for each unit
(`SerialInv` or `FastInv`, `DivInv`), one for the port (`PortInv`) and one for the
time-out (`TimeInv`). The part of a unit says where it stands with the instruction
offered: decoding, iterating, ending or answering, and at rest if it is not asked.
At rest is more than idle (`AtRest`): what was decoded for the last instruction may
still be in its registers, but `wait` has then been up long enough not to rise again,
except in a reset. While a unit iterates, arithmetic ties its registers to the operands.
For the serial multiplier that is `Summing`: after `j` steps the sum and the product of
what is left of the operands make the product wanted, up to a multiple of four to the
power of `W`. For the divider it is `Dividing`: dividend left and quotient times divisor
make the dividend, and what is left is below the divisor times the weight of the bits
still to be found; a divisor of 0 fits every time and leaves all bits set, which is the
quotient the instruction set asks for. `TimeInv` counts the clocks a unit takes before
it is waited for or answers. The handler runs only while nothing is offered.

The prover cannot instantiate an induction scheme, whose parameter is an operator, but
can use the fact behind it, that every non-empty set of naturals has a least element
(`Smallest`). With a set in the place of the predicate that is enough (`Induction`):
`Pow2` is defined by recursion, so it has to be shown to exist (`Pow2Exists`), to be
unique, and to obey its laws, before anything can be said about `Word`.

`HandlerIsTransparent` (`Spec => Transparent`) rests on the invariant `HandlerInv`
(`HandlerInvariant`): outside of the handler the registers are the program's; when it
is entered they still are, and q0 holds the return address (`Entered`); when it is left
the saved copies are all there, and a0 still points to them (`Saved`). What remains is
what the code does, and that is computed: `SaveCode` and `RestoreCode` say which
instruction stands where among the 41 and the 38, a lemma for each instruction says what
it changes (`Setq`, `Getq`, `La`, `Mv`, `Lw`, `Sw`, `Sw2`), and `SaveRuns` and
`RestoreRuns` follow the registers from one to the next; the 29 loads or stores in a row
are an induction. `RunTrace` justifies that: it turns the recursive function `Run` into
the sequence of the machine's states. The proof uses `UnitsReady`, since an interrupt
while an instruction waits for a unit would let that instruction finish in the handler.

### Model-checked only
Every safety property, action property and refinement of the passing runs is also a
theorem, those of `PicoSoc` and `Bootloader` under the assumptions named above. What must eventually happen is out of the prover's reach, since it has no rules
for fairness and ENABLED: `InstructionFinishes`, `InterruptServed`, `CallReturns`,
`BootEnds`, `TransferEnds`, `ByteArrives`, `VerdictReached`, `BackToPrompt` and
`EndsWithVerdict` hold on the instances of the runs.

## Findings

- `UartReadRace` (`system.v:373`): a read that finds the buffer empty clears it
  a clock later, and with it the byte that arrived with that clock.
- `BootSmallMemory`: `bootloader.c:6-8` and `bootloader.ld` put the bootloader's
  data at 0xF000 of a 64 KB memory; the memory map in `system.v:5` names 16 KB,
  where that address folds onto the application.
- `PicoSocAnyKey` (`picosoc/firmware.c:746`): `7` toggles continuous reading in any
  mode. Typed at the first prompt, on a single line, it sets a combination that
  `picosoc/README.md:86-96` does not list as valid; the next burst has no mode byte the
  chip could stay in, the controller counts on it, and the program is lost.

Smaller observations, without a run: with `WITH_PCPI` a store of illegal width
matches two arms of the case at `picorv32.v:1766`, declared `parallel_case`; a bit
on the UART lasts the divider plus two clocks (`simpleuart.v:130`), 870 where
`system.v:25` says 868; a failed card initialisation shows 0xE1 on the LEDs
(`bootloader.c:364`), where the header comment says 0xFF. A `timer` instruction
executed while the timer stands at 1 raises the interrupt although the count is
replaced (`picorv32.v:1917`). `picorv32_pcpi_mul` does not gate `pcpi_wait` by
reset, as the divider does: a reset of a single clock that falls between decoding
a multiplication and its start would let it start anyway; `Program` resets for two
clocks or more. On the slow memory path of the SoC an access to an unmapped
address is never answered: the model has that hang, and `TransferEnds` says of every
other transfer that it ends; nothing checked says that it should not happen.

After reset the status of the UART says ready (`system.v:119`) while `simpleuart` is
in its idle frame of 15 bits, and what is written then is lost, although `system.v:8`
calls the bit `tx_ready`; with the countdown of 9000 clocks these are the first two
characters of a program that prints at once. `DropsOnlyAfterReset` says that nothing is
lost at any other time.

In the demo firmware of the PicoSoC keys that stay within the listed settings are
trouble too: after `5`, `7` (quad, continuous) the command for the ID that `1` sends
(`firmware.c:347`) is taken by the chip for an address, and what is printed is garbage;
they are among the keys `Avoided` names. Further, `print_dec` (`firmware.c:181-218`)
leaves out the tens digit of a rest below ten and prints 105 as 15, which no
caller reaches; `MEM_TOTAL` of 0x200 is commented as 2 KB and is 512 bytes, of
which the memory test of the smaller configuration covers one word; command `2`
falls back to single reading with latency 8 on the larger board.

## Not modelled

- Data paths: ALU results, register file contents, the permutations and ciphers.
- `COMPRESSED_ISA` (two-halfword fetch), `LATCHED_MEM_RDATA`, trace, RVFI.
- The clocks of the flash controller's transfer engine, and the board top levels,
  which have no state beyond that of their parts.
- Of the test program: the counts that `irq()` prints, `hello`, `stats`, and the
  builds without q registers. Instruction tests are steps that pass or fail.
- Of the UART: writes of the divider, which no software makes.
- Benchmarks, test benches and build scripts: they have no concurrency of their
  own, and were used as a reference for what the code is meant to do.

## Plan

What could be added, in this order:

1. Compressed fetch: `PicoRV32` with halfword buffering, checked against `ISA`.
2. The transfer engine of `spimemio.v` clock by clock, as a refinement of the
   phases of `SpiMemIo`.
