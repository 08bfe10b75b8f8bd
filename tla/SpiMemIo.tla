------------------------------- MODULE SpiMemIo -------------------------------
(***************************************************************************)
(* The flash controller of the PicoSoC (spimemio.v) and the flash chip     *)
(* (spiflash.v).  The controller turns reads of words into bursts on the   *)
(* SPI port, reads ahead, and can be told to read faster: on two or four   *)
(* lines (config_ddr, config_qspi), and in continuous read mode            *)
(* (config_cont), in which a burst has no command.                         *)
(*                                                                         *)
(* A step is one phase of a burst, named for the states of the controller: *)
(* "wake" 0-1, "release" 2-3, "command" 4, "address" 5-8, "data" 9-12.     *)
(* What the chip makes of a phase depends on its own state: in continuous  *)
(* read mode (xip) it takes the first byte for an address, in one of       *)
(* several widths.  Words are numbered, and a word that was read out of    *)
(* step with the chip is Junk.                                             *)
(***************************************************************************)
EXTENDS Naturals

CONSTANT Words      \* the flash holds the words 0 .. Words - 1

ASSUME WordsAssumption == Words \in Nat \ {0}

VARIABLES
  cfg,          \* config_en, _ddr, _qspi, _cont and _dummy
  state, rd_valid, rd_addr, rd_wait, rd_inc, rdata,
  valid,        \* the word the processor asks for, or None
  flash,        \* the chip: see ChipInit
  board,        \* "hx8k" or "ice", each with its own chip
  dual_ends     \* a chip that one byte of FF takes out of dual continuous read

readVars == <<rd_valid, rd_addr, rd_wait, rd_inc, rdata>>
memVars == <<cfg, state, readVars, valid, flash, board, dual_ends>>

Junk == Words
None == Words + 1
Plus4(a) == (a + 1) % Words

\* A record with some of its fields replaced.
Updated(record, fields) ==
  [f \in DOMAIN record |-> IF f \in DOMAIN fields THEN fields[f] ELSE record[f]]

-------------------------------------------------------------------------------
(* The chip *)

\* After power-on it may be asleep, or read continuously for whatever configured
\* the FPGA; the flag that frees the lines for quad transfers is non-volatile.
ChipInit(latency) ==
  flash \in [powered : BOOLEAN, xip : {"none", "EB", "ED"}, qe : BOOLEAN, latency : {latency},
             wel : {FALSE}, cmd : {"closed"}, next : {Junk}]

\* Clocking n bytes in on one line ends continuous reading: on four lines the
\* mode byte comes within the first of them, on two lines within the second.
\* None of the commands reads as A5 there.
XipAfter(n) == IF flash.xip = "BB" /\ n = 1 THEN "BB" ELSE "none"

\* A command that a chip in continuous read mode, or asleep, does not notice.
Heard == flash.xip = "none" /\ flash.powered

\* The dummy clocks the chip needs: a register of the one chip, fixed by the other.
Latency(cmd) ==
  CASE board = "hx8k" -> flash.latency
    [] board # "hx8k" /\ cmd = "BB" -> 0
    [] board # "hx8k" /\ cmd = "EB" -> 4
    [] OTHER -> 7

Closed == [cmd |-> "closed", next |-> Junk]

\* The chip takes a read command: the quad ones need its quad flag.
TakeCommand(cmd) ==
  IF Heard /\ (cmd \in {"EB", "ED"} => flash.qe) THEN cmd ELSE "junk"

-------------------------------------------------------------------------------
(* The controller *)

ReadCommand ==
  CASE cfg.ddr /\ cfg.qspi -> "ED"
    [] ~cfg.ddr /\ cfg.qspi -> "EB"
    [] cfg.ddr /\ ~cfg.qspi -> "BB"
    [] OTHER -> "03"

Ready == valid # None /\ rd_valid /\ valid = rd_addr
Jump == valid # None /\ rd_valid /\ valid \notin {rd_addr, rd_addr + 1}

\* softreset: a write of the configuration starts over and closes the burst.
SoftReset == state' = "wake" /\ rd_valid' = FALSE

\* FF on one line, to end continuous reading.
Wake ==
  /\ cfg.en /\ state = "wake" /\ state' = "release"
  /\ flash' = [flash EXCEPT !.xip = IF dual_ends THEN "none" ELSE XipAfter(1)]
  /\ UNCHANGED <<cfg, readVars, valid, board, dual_ends>>

\* AB, to end power-down.
Release ==
  /\ cfg.en /\ state = "release" /\ state' = "command"
  /\ flash' = [flash EXCEPT !.powered = @ \/ flash.xip = "none"]
  /\ UNCHANGED <<cfg, readVars, valid, board, dual_ends>>

Command ==
  /\ cfg.en /\ state = "command" /\ state' = "address"
  /\ rd_inc' = FALSE
  /\ flash' = [flash EXCEPT !.cmd = TakeCommand(ReadCommand)]
  /\ UNCHANGED <<cfg, rd_valid, rd_addr, rd_wait, rdata, valid, board, dual_ends>>

\* Address, mode byte and dummy clocks.  Without a command the chip has to be in
\* continuous read mode; command, width and dummy clocks have to be the same at
\* both ends.  The mode byte decides how the next burst begins.
Address ==
  /\ cfg.en /\ state = "address" /\ valid # None /\ ~Ready
  /\ state' = "data"
  /\ LET taken == IF flash.cmd # "closed" THEN flash.cmd
                  ELSE IF flash.xip # "none" THEN flash.xip ELSE "junk"
         agree == taken = ReadCommand /\ (taken # "03" => Latency(taken) = cfg.dummy)
     IN flash' = [flash EXCEPT !.cmd = taken,
                               !.next = IF agree THEN valid ELSE Junk,
                               !.xip = CASE taken # ReadCommand \/ taken = "03" -> @
                                         [] OTHER -> IF cfg.cont THEN taken ELSE "none"]
  /\ UNCHANGED <<cfg, readVars, valid, board, dual_ends>>

\* A word: the one that was asked for, then one more ahead of the processor, and
\* then only when the processor reads again.
MayRead == ~rd_wait \/ valid # None
Data ==
  /\ cfg.en /\ state = "data" /\ ~Ready /\ ~Jump /\ MayRead
  /\ rdata' = flash.next /\ rd_valid' = TRUE
  /\ rd_addr' = IF rd_inc THEN Plus4(rd_addr) ELSE valid
  /\ rd_wait' = rd_inc /\ rd_inc' = TRUE
  /\ flash' = [flash EXCEPT !.next = IF @ = Junk THEN Junk ELSE Plus4(@)]
  /\ UNCHANGED <<cfg, state, valid, board, dual_ends>>

\* A read of any other word closes the burst and opens another.
JumpTo ==
  /\ cfg.en /\ Jump
  /\ state' = IF cfg.cont THEN "address" ELSE "command"
  /\ rd_inc' = FALSE /\ rd_valid' = FALSE
  /\ flash' = Updated(flash, Closed)
  /\ UNCHANGED <<cfg, rd_addr, rd_wait, rdata, valid, board, dual_ends>>

Controller == Wake \/ Release \/ Command \/ Address \/ Data \/ JumpTo

\* The processor asks for a word, and takes it when it is ready.
Ask ==
  /\ valid = None /\ valid' \in 0 .. Words - 1
  /\ rd_wait' = FALSE
  /\ UNCHANGED <<cfg, state, rd_valid, rd_addr, rd_inc, rdata, flash, board, dual_ends>>

Take == Ready /\ valid' = None /\ rd_wait' = FALSE

-------------------------------------------------------------------------------
(* What the firmware does to it *)

Configure(fields) ==
  /\ cfg' = Updated(cfg, fields)
  /\ flash' = Updated(flash, Closed)
  /\ SoftReset
  /\ UNCHANGED <<rd_addr, rd_inc, rdata, board, dual_ends>>

\* n bytes on one line by hand; effect is what a write command changes in the
\* chip, which it does only after a write enable.
BitBang(n, writes, effect) ==
  LET works == Heard /\ (writes => flash.wel)
      after == [flash EXCEPT !.xip = XipAfter(n), !.wel = @ /\ ~(works /\ writes)]
  IN flash' = IF works THEN Updated(after, effect) ELSE after

MemInit(latency) ==
  /\ cfg = [en |-> TRUE, ddr |-> FALSE, qspi |-> FALSE, cont |-> FALSE, dummy |-> latency]
  /\ state = "wake" /\ rd_valid = FALSE /\ rd_addr = 0 /\ rd_wait = FALSE /\ rd_inc = FALSE
  /\ rdata = Junk /\ valid = None
  /\ board \in {"hx8k", "ice"} /\ dual_ends \in BOOLEAN
  /\ ChipInit(latency)

MemTypeOK ==
  /\ cfg \in [en : BOOLEAN, ddr : BOOLEAN, qspi : BOOLEAN, cont : BOOLEAN, dummy : 0 .. 15]
  /\ state \in {"wake", "release", "command", "address", "data"}
  /\ rd_valid \in BOOLEAN /\ rd_wait \in BOOLEAN /\ rd_inc \in BOOLEAN
  /\ rd_addr \in 0 .. Words - 1 /\ rdata \in 0 .. Junk
  /\ valid \in (0 .. Words - 1) \cup {None}
  /\ flash.xip \in {"none", "BB", "EB", "ED"}
  /\ flash.cmd \in {"closed", "junk", "03", "BB", "EB", "ED"} /\ flash.next \in 0 .. Junk
  /\ flash.latency \in 0 .. 15
  /\ board \in {"hx8k", "ice"}
================================================================================
