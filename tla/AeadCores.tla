------------------------------- MODULE AeadCores -------------------------------
(***************************************************************************)
(* The three encryption cores of the SoC with their registers: the input   *)
(* registers and one-clock strobes of system.v, the state machines of      *)
(* TinyJAMBU, Xoodyak and GIFT-COFB, and the registers that keep done and  *)
(* valid after the core has dropped them.  Hardware is one clock.          *)
(*                                                                         *)
(* A value of up to 128 bits is a name, spread over Words words; what the  *)
(* algorithms compute is known only for the published test vectors: the    *)
(* inputs of a vector give its outputs and anything else gives Junk.  A    *)
(* permutation takes 1 .. MaxRun clocks.                                   *)
(***************************************************************************)
EXTENDS Naturals, Sequences

CONSTANTS
  MaxRun,     \* clocks of a permutation, at most
  Words       \* words of a value: 4

ASSUME CoresAssumption == MaxRun \in Nat \ {0} /\ Words \in Nat \ {0}

VARIABLES
  regs,       \* the input registers of each core, and what the last CTRL asked for
  strobe,     \* ena, start and acknowledge lines that are high in this clock
  core,       \* state and outputs of each core
  sticky,     \* done and valid as STATUS shows them
  fault       \* the defect of this chip, if it has one

hwVars == <<regs, strobe, core, sticky, fault>>

Cores == {"jb", "xd", "gc"}
Acks == {"ad_ack", "msg_ack"}

-------------------------------------------------------------------------------
(* Test vectors *)

\* The message and the associated data of gcB have two blocks, all others one.
Cases == [jb |-> {"jb1", "jb2", "jb3", "jb4"}, xd |-> {"xd"}, gc |-> {"gcA", "gcB"}]
Blocks(case) == IF case = "gcB" THEN 2 ELSE 1

Part == [ad |-> <<"ad1", "ad2">>, pt |-> <<"pt1", "pt2">>, ct |-> <<"ct1", "ct2">>]
Stream(case, kind) == [i \in 1 .. Blocks(case) |-> <<case, Part[kind][i]>>]
Junk == <<"none", "junk">>
Zero == <<"none", "zero">>

Spread(value) == [w \in 1 .. Words |-> value]
\* Words that do not belong together are no value.
Value(words) == IF \A w \in 1 .. Words : words[w] = words[1] THEN words[1] ELSE Junk

-------------------------------------------------------------------------------
(* The algorithms *)

\* The vector whose inputs a core has taken so far.
Matches(c, in) ==
  {case \in Cases[c] :
     /\ in.keys = {<<case, "key">>} /\ in.nonce = <<case, "nonce">>
     /\ in.ads = Stream(case, "ad")
     /\ Len(in.msgs) <= Blocks(case)
     /\ in.msgs = SubSeq(Stream(case, IF in.mode = "enc" THEN "pt" ELSE "ct"), 1, Len(in.msgs))}

Faulty(c, kind) == fault = <<c, kind>>

Out(c, in) ==
  IF Faulty(c, "out") \/ Matches(c, in) = {} THEN Junk
  ELSE LET case == CHOOSE x \in Matches(c, in) : TRUE
       IN  Stream(case, IF in.mode = "enc" THEN "ct" ELSE "pt")[Len(in.msgs)]
Tag(c, in) ==
  IF Faulty(c, "tag") \/ Matches(c, in) = {} THEN Junk
  ELSE <<CHOOSE x \in Matches(c, in) : TRUE, "tag">>

Valid(c, in, tag) ==
  \/ in.mode = "enc"
  \/ Faulty(c, "accepts")
  \/ tag = in.tag /\ ~Faulty(c, "rejects")

-------------------------------------------------------------------------------
(* TinyJAMBU and Xoodyak: one block in, one block out.  TinyJAMBU latches its
   inputs in three clocks and clears its outputs; Xoodyak shows results only
   when it is done.  Both show done for one clock, in which they are idle. *)

Reg(c, name) == Value(regs[c][name])
Latch(c) ==
  [mode |-> regs[c].mode, keys |-> {Reg(c, "key")}, nonce |-> Reg(c, "nonce"),
   ads |-> <<>>, msgs |-> <<>>, tag |-> Reg(c, "tag")]
Go(state) == [state |-> state, left |-> 0]
Run(state, d) == [state |-> state, left |-> d]
Running(c) == core[c].left > 1
TakeAd(c, in) == [in EXCEPT !.ads = Append(@, Reg(c, "ad"))]
TakeMsg(c, in) == [in EXCEPT !.msgs = Append(@, Reg(c, "data"))]
Results(c, in) ==
  [out |-> Out(c, in), tag |-> Tag(c, in), valid |-> Valid(c, in, Tag(c, in))]

\* core[c] with the fields of a record replaced.
With(c, new) == [f \in DOMAIN core[c] |-> IF f \in DOMAIN new THEN new[f] ELSE core[c][f]]
Move(c, step, new) == [With(c, new) EXCEPT !.state = step.state, !.left = step.left]

JbStep(d) ==
  LET c == "jb" IN
  CASE core[c].state = "IDLE" /\ c \in strobe ->
         Move(c, Go("LATCH_AD"), [in |-> Latch(c), done |-> FALSE,
                                  out |-> Zero, tag |-> Zero, valid |-> FALSE])
    [] core[c].state = "IDLE" /\ c \notin strobe -> With(c, [done |-> FALSE])
    [] core[c].state = "LATCH_AD" -> Move(c, Go("LATCH_DAT"), [in |-> TakeAd(c, core[c].in)])
    [] core[c].state = "LATCH_DAT" -> Move(c, Run("PERM", d), [in |-> TakeMsg(c, core[c].in)])
    [] core[c].state = "PERM" /\ Running(c) -> With(c, [left |-> core[c].left - 1, out |-> Junk])
    [] core[c].state = "PERM" /\ ~Running(c) -> Move(c, Go("DONE"), Results(c, core[c].in))
    [] core[c].state = "DONE" -> Move(c, Go("IDLE"), [done |-> TRUE])

XdStep(d) ==
  LET c == "xd" IN
  CASE core[c].state = "IDLE" /\ c \in strobe ->
         Move(c, Run("PERM", d), [in |-> TakeMsg(c, TakeAd(c, Latch(c))), done |-> FALSE])
    [] core[c].state = "IDLE" /\ c \notin strobe -> With(c, [done |-> FALSE])
    [] core[c].state = "PERM" /\ Running(c) -> With(c, [left |-> core[c].left - 1])
    [] core[c].state = "PERM" /\ ~Running(c) -> With(c, Go("DONE"))
    [] core[c].state = "DONE" ->
         [Move(c, Go("IDLE"), Results(c, core[c].in)) EXCEPT !.done = TRUE]

-------------------------------------------------------------------------------
(* GIFT-COFB: block by block, asking for each block behind the first.  The key
   and the blocks are read from the registers when they are used.  The request
   lines are registered: they fall a clock after the acknowledgement is seen. *)

Key(in) == [in EXCEPT !.keys = @ \cup {Reg("gc", "key")}]
\* All blocks of this kind are in.
LastAd == Len(core["gc"].in.ads) = regs["gc"].ads
LastMsg == Len(core["gc"].in.msgs) = regs["gc"].msgs

Waiting == core["gc"].state \in {"WAIT_NONCE", "WAIT_AD", "WAIT_MSG"} /\ Running("gc")
GcMove(d) ==
  LET c == "gc"
      in == core[c].in
      At(state) == core[c].state = state /\ ~Waiting
  IN
  CASE At("IDLE") ->
         Move(c, IF c \in strobe THEN Run("WAIT_NONCE", d) ELSE Go("IDLE"),
              [in |-> IF c \in strobe THEN Latch(c) ELSE in, done |-> FALSE, valid |-> FALSE])
    [] Waiting -> With(c, [left |-> core[c].left - 1])
    [] At("WAIT_NONCE") -> With(c, Go("PROC_AD"))
    [] At("PROC_AD") -> Move(c, Run("WAIT_AD", d), [in |-> Key(TakeAd(c, in))])
    [] At("WAIT_AD") /\ LastAd /\ LastMsg -> Move(c, Go("DONE"), [tag |-> Tag(c, in)])
    [] At("WAIT_AD") /\ ~LastMsg -> With(c, Go(IF LastAd THEN "PROC_MSG" ELSE "REQ_AD"))
    [] At("REQ_AD") -> With(c, Go(IF "ad_ack" \in strobe THEN "PROC_AD" ELSE "REQ_AD"))
    [] At("PROC_MSG") ->
         Move(c, Run("WAIT_MSG", d),
              [in |-> Key(TakeMsg(c, in)), out |-> Out(c, Key(TakeMsg(c, in)))])
    [] At("WAIT_MSG") ->
         Move(c, Go(IF LastMsg THEN "DONE" ELSE "REQ_MSG"),
              [tag |-> IF LastMsg THEN Tag(c, in) ELSE core[c].tag])
    [] At("REQ_MSG") -> With(c, Go(IF "msg_ack" \in strobe THEN "PROC_MSG" ELSE "REQ_MSG"))
    [] At("DONE") ->
         Move(c, Go(IF c \in strobe THEN "DONE" ELSE "IDLE"),
              [done |-> TRUE,
               valid |-> Valid(c, [in EXCEPT !.tag = Reg(c, "tag")], core[c].tag)])

GcStep_NoDefault(d) ==
  [GcMove(d) EXCEPT !.ad_req = @ \/ core["gc"].state = "REQ_AD",
                    !.msg_req = @ \/ core["gc"].state = "REQ_MSG"]
GcStep(d) ==
  [GcMove(d) EXCEPT !.ad_req = core["gc"].state = "REQ_AD",
                    !.msg_req = core["gc"].state = "REQ_MSG"]

-------------------------------------------------------------------------------
(* One clock *)

CoreClock ==
  \E d \in 1 .. MaxRun : core' = [jb |-> JbStep(d), xd |-> XdStep(d), gc |-> GcStep(d)]

StickyClock_KeepsOld ==
  sticky' = [c \in Cores |->
               IF core[c].done THEN [done |-> TRUE, valid |-> core[c].valid] ELSE sticky[c]]
StickyClock ==
  sticky' = [c \in Cores |->
               CASE c \in strobe -> [done |-> FALSE, valid |-> FALSE]
                 [] c \notin strobe /\ core[c].done -> [done |-> TRUE, valid |-> core[c].valid]
                 [] OTHER -> sticky[c]]

\* The registers that no access of the processor changes in this clock.
NoWrite == strobe' = {} /\ UNCHANGED regs
WriteWord(c, name, w, value) ==
  regs' = [regs EXCEPT ![c][name][w] = value] /\ strobe' = {}
WriteCtrl(c, mode, blocks) ==
  /\ regs' = [regs EXCEPT ![c].mode = mode, ![c].ads = blocks, ![c].msgs = blocks]
  /\ strobe' = {c}
WriteAck(ack) == strobe' = {ack} /\ UNCHANGED regs

Hardware == CoreClock /\ StickyClock /\ UNCHANGED fault

Faults == {<<"none", "none">>, <<"jb", "accepts">>} \cup (Cores \X {"out", "tag", "rejects"})

HwInit ==
  /\ regs = [c \in Cores |->
               [key |-> Spread(Zero), nonce |-> Spread(Zero), ad |-> Spread(Zero),
                data |-> Spread(Zero), tag |-> Spread(Zero), mode |-> "none", ads |-> 0, msgs |-> 0]]
  /\ strobe = {}
  /\ core = [c \in Cores |->
               [state |-> "IDLE", left |-> 0,
                in |-> [mode |-> "none", keys |-> {}, nonce |-> Zero, ads |-> <<>>, msgs |-> <<>>,
                        tag |-> Zero],
                out |-> Zero, tag |-> Zero, valid |-> FALSE, done |-> FALSE,
                ad_req |-> FALSE, msg_req |-> FALSE]]
  /\ sticky = [c \in Cores |-> [done |-> FALSE, valid |-> FALSE]]
  /\ fault \in Faults

Settled == \A c \in Cores : core[c].state = "IDLE" /\ ~core[c].done
================================================================================
