-------------------------- MODULE SocFirmware_proofs --------------------------
(***************************************************************************)
(* The self-test, for polling loops of any length.  Its SD card part: the  *)
(* card is addressed in its own unit, runs at full speed only when it is   *)
(* ready for it, and is let go at the end, whatever it answers.  Its tests *)
(* of the cores, for values of any width and permutations of any length:   *)
(* no strobe is lost, and what the driver reads belongs to its request.    *)
(* And what goes through the cores word by word: every value a sound core  *)
(* is fed with and every value it returns, so that a sound core passes, a  *)
(* defective one fails, and the self-test implements what SelfTest says.   *)
(***************************************************************************)
EXTENDS SocFirmware, TLAPS, FiniteSetTheorems

\* A poll is for the command that was sent.
PollInv ==
  /\ place \in Commands \cup {"start", "over"} /\ card \in Cards
  /\ step = "poll" => place \in Commands /\ owed = place

\* How ACMD41 was answered decides what is known of the card: a high-capacity card is
\* ready only for a host that announced HCS, and only such a host asks for the OCR.
KnowledgeInv ==
  /\ Answered("ACMD41") /\ r = "ready" => card_ready /\ (card.sdhc => hcs)
  /\ place = "CMD58" => card_ready
  /\ place = "CMD16" => card_ready /\ ~card.sdhc
  /\ place = "CMD17" => card_ready
  /\ clkdiv = 4 => card_ready /\ place \in {"CMD17", "over"}

IInv == PollInv /\ KnowledgeInv /\ CardRules

-------------------------------------------------------------------------------

LEMMA SdStepKeeps == IInv /\ SdStep => IInv'
<1> SUFFICES ASSUME IInv, SdStep PROVE IInv' OBVIOUS
<1> USE DEF IInv, PollInv, KnowledgeInv, CardRules, AddressingAgrees, CardReleased, Commands,
            sd_send_cmd, sd_deselect, KeepsSelect, KeepTest, KeepCard, Answered, Proceed, Fail, Over
<1>1. CASE InitCard BY <1>1 DEF InitCard
<1>2. CASE Select BY <1>2 DEF Select
<1>3. CASE SendCmd BY <1>3 DEF SendCmd
<1>4. CASE PollCmd BY <1>4 DEF PollCmd, Answers
<1>5. CASE Cmd0 BY <1>5 DEF Cmd0
<1>6. CASE Cmd8 BY <1>6 DEF Cmd8
<1>7. CASE Cmd55 BY <1>7 DEF Cmd55
<1>8. CASE Acmd41 BY <1>8 DEF Acmd41
<1>9. CASE Cmd58 BY <1>9 DEF Cmd58, Initialised
<1>10. CASE Cmd16 BY <1>10 DEF Cmd16, Initialised, Cards
<1>11. CASE Cmd17 BY <1>11 DEF Cmd17
<1>12. CASE Token BY <1>12 DEF Token
<1>. QED BY <1>1, <1>2, <1>3, <1>4, <1>5, <1>6, <1>7, <1>8, <1>9, <1>10, <1>11, <1>12 DEF SdStep

\* The tests of the encryption cores and the report do not touch the card.
LEMMA OthersKeep == IInv /\ UNCHANGED testVars => IInv'
  BY DEF testVars, sdVars, cardVars, IInv, PollInv, KnowledgeInv, CardRules, AddressingAgrees,
         CardReleased, Answered

\* What is known of the card: a poll is for the command sent (sd_send_cmd), and the
\* answer to ACMD41 was taken for what it says (sd_init_card).
THEOREM CardInvariant == Spec => []IInv
<1>1. ASSUME Init PROVE IInv
  <2>1. card \in Cards BY <1>1 DEF Init, SdInit, Cards
  <2>2. PollInv BY <1>1, <2>1 DEF Init, SdInit, PollInv
  <2>. QED
    BY <1>1, <2>2
    DEF Init, SdInit, IInv, KnowledgeInv, CardRules, AddressingAgrees, CardReleased, Answered
<1>2. IInv /\ [Next]_vars => IInv'
  <2> SUFFICES ASSUME IInv, [Next]_vars PROVE IInv' OBVIOUS
  <2>1. CASE UNCHANGED testVars BY <2>1, OthersKeep
  <2>2. CASE Sd BY <2>2, SdStepKeeps DEF Sd
  <2>. QED BY <2>1, <2>2 DEF Next, Begin, Aead, Report, vars, testVars
<1>. QED BY <1>1, <1>2, PTL DEF Spec

\* The card is addressed in the unit it counts in, is asked to work at full speed only
\* once it has left its idle state, and is not selected when the test is over.
THEOREM CardIsTreatedWell == Spec => []CardRules
<1>1. IInv => CardRules BY DEF IInv
<1>. QED BY <1>1, CardInvariant, PTL
-------------------------------------------------------------------------------
(* The encryption cores: shapes of what they keep *)

CoreFields == {"state", "left", "in", "out", "tag", "valid", "done", "ad_req", "msg_req"}
InFields == {"mode", "keys", "nonce", "ads", "msgs", "tag"}
RegWords == {"key", "nonce", "ad", "data", "tag"}
RegFields == RegWords \cup {"mode", "ads", "msgs"}
IsList(s) == s \in Seq({s[i] : i \in DOMAIN s})

Shapes ==
  /\ DOMAIN regs = Cores
  /\ \A c \in Cores :
       /\ DOMAIN core[c] = CoreFields /\ DOMAIN core[c].in = InFields
       /\ IsList(core[c].in.ads) /\ IsList(core[c].in.msgs)
       /\ DOMAIN regs[c] = RegFields
       /\ \A name \in RegWords : DOMAIN regs[c][name] = 1 .. Words

-------------------------------------------------------------------------------
(* What the driver knows of the cores *)

BeforeStart == {"load", "start"}
InBlock == {"ad block", "ack ad", "save block", "msg block", "ack msg"}
AfterDone == {"results", "valid", "judge"}

PlaceInv ==
  /\ at \in 0 .. Len(Plan) + 1 /\ gap \in 0 .. MinGap /\ item \in Nat \ {0}
  /\ doing \in BeforeStart \cup {"poll"} \cup InBlock \cup AfterDone
  /\ ~Testing => doing = "load"
  /\ doing \in InBlock => Blocks(rq.case) = 2
  /\ doing = "results" => rq.mode # "forged"

\* A strobe is up for one clock, the one after the write that raised it, and the
\* driver does not get to the bus in that clock.
StrobeInv ==
  strobe # {} => /\ doing = "poll" /\ gap = 0
                 /\ strobe = {rq.core} \/ (rq.core = "gc" /\ strobe \in {{"ad_ack"}, {"msg_ack"}})

\* Done is shown by a core at rest and kept by the register only while it is.
DoneInv ==
  \A c \in Cores : /\ core[c].done => core[c].state = "IDLE"
                   /\ sticky[c].done => core[c].state = "IDLE" /\ ~core[c].done

\* A core works only between its start and the driver's sight of done.
RestInv ==
  \A c \in Cores :
    c \in strobe \/ doing \in BeforeStart \cup AfterDone \/ c # rq.core
      => core[c].state = "IDLE" /\ ~core[c].done

\* A request line is up while its request stands, and one clock longer; the driver
\* serves a request that stands.
RequestInv ==
  /\ core["gc"].ad_req => core["gc"].state = "REQ_AD" \/ (doing = "poll" /\ gap <= 1)
  /\ core["gc"].msg_req => core["gc"].state = "REQ_MSG" \/ (doing = "poll" /\ gap <= 1)
  /\ doing \in {"ad block", "ack ad"} \/ "ad_ack" \in strobe => core["gc"].state = "REQ_AD"
  /\ doing \in {"save block", "msg block", "ack msg"} \/ "msg_ack" \in strobe
       => core["gc"].state = "REQ_MSG"

\* The words of the second block that are in the register: all before the next
\* item, and all of them from then on until the acknowledgement.
Written(name, upto) == \A w \in 1 .. upto : regs["gc"][name][w] = Source(rq, name, 2, w)
BlockInv ==
  /\ doing \in {"ad block", "msg block"} => item \in 1 .. Words
  /\ doing = "ad block" => Written("ad", item - 1)
  /\ doing = "msg block" => Written("data", item - 1)
  /\ doing = "ack ad" \/ "ad_ack" \in strobe => Written("ad", Words)
  /\ doing = "ack msg" \/ "msg_ack" \in strobe => Written("data", Words)

\* What the core of a started request has been told, and how many blocks of each
\* kind it has taken in by then.
Mode(request) == IF request.mode = "enc" THEN "enc" ELSE "dec"
Ads(c) == Len(core[c].in.ads)
Msgs(c) == Len(core[c].in.msgs)
TakenIn(c, blocks) ==
  CASE core[c].state \in {"LATCH_AD", "WAIT_NONCE"} -> Ads(c) = 0 /\ Msgs(c) = 0
    [] core[c].state = "LATCH_DAT" -> Ads(c) = 1 /\ Msgs(c) = 0
    [] core[c].state \in {"PROC_AD", "REQ_AD"} -> Ads(c) < blocks /\ Msgs(c) = 0
    [] core[c].state = "WAIT_AD" -> Ads(c) \in 1 .. blocks /\ Msgs(c) = 0
    [] core[c].state = "PROC_MSG" -> Ads(c) = blocks /\ Msgs(c) < blocks
    [] core[c].state = "REQ_MSG" -> Ads(c) = blocks /\ Msgs(c) \in 1 .. blocks - 1
    [] core[c].state = "WAIT_MSG" -> Ads(c) = blocks /\ Msgs(c) \in 1 .. blocks
    [] core[c].state \in {"PERM", "DONE", "IDLE"} -> Ads(c) = blocks /\ Msgs(c) = blocks
States ==
  [jb |-> {"IDLE", "LATCH_AD", "LATCH_DAT", "PERM", "DONE"}, xd |-> {"IDLE", "PERM", "DONE"},
   gc |-> {"IDLE", "WAIT_NONCE", "PROC_AD", "WAIT_AD", "REQ_AD", "PROC_MSG", "WAIT_MSG",
           "REQ_MSG", "DONE"}]
TakenInv ==
  /\ \A c \in Cores : core[c].state \in States[c]
  /\ doing \notin BeforeStart =>
       /\ regs[rq.core].mode = Mode(rq)
       /\ regs[rq.core].ads = Blocks(rq.case) /\ regs[rq.core].msgs = Blocks(rq.case)
       /\ rq.core \notin strobe =>
            core[rq.core].in.mode = Mode(rq) /\ TakenIn(rq.core, Blocks(rq.case))

CoresInv ==
  /\ Shapes /\ PlaceInv /\ StrobeInv /\ DoneInv /\ RestInv /\ RequestInv /\ BlockInv /\ TakenInv
-------------------------------------------------------------------------------
(* The plan *)

Requests ==
  [core : {"jb"}, case : Cases["jb"], mode : {"enc", "dec", "forged"}]
  \cup [core : {"xd"}, case : Cases["xd"], mode : {"enc", "dec"}]
  \cup [core : {"gc"}, case : Cases["gc"], mode : {"enc", "dec"}]

LEMMA PlanIsList == Plan \in Seq(Requests)
<1> DEFINE R == Requests
<1>1. ASSUME NEW c \in {"jb", "xd", "gc"}, NEW case \in Cases[c], NEW mode \in {"enc", "dec"}
      PROVE  Request(c, case, mode) \in R
  BY <1>1 DEF Request, Requests, Cases
<1>2. ASSUME NEW c \in {"jb", "xd", "gc"}, NEW case \in Cases[c]
      PROVE  EncDec(c, case) \in Seq(R)
  BY <1>1, <1>2 DEF EncDec
<1>3. Request("jb", "jb1", "forged") \in R BY DEF Request, Requests, Cases
<1>4. rejects \in Seq(R) BY <1>3 DEF rejects
<1>5. /\ jb_test("jb1") \in Seq(R) /\ jb_test("jb2") \in Seq(R)
      /\ jb_test("jb3") \in Seq(R) /\ jb_test("jb4") \in Seq(R)
  BY <1>2 DEF jb_test, Cases
<1>6. test_xoodyak \in Seq(R) BY <1>2 DEF test_xoodyak, Cases
<1>7. testA \in Seq(R) /\ testB \in Seq(R) BY <1>2 DEF testA, testB, Cases
<1> HIDE DEF R
<1>8. test_tinyjambu \in Seq(R) BY <1>4, <1>5 DEF test_tinyjambu
<1>. QED BY <1>6, <1>7, <1>8 DEF Plan, test_giftcofb, R

\* The request the driver is at: a case of its core, forged tags for TinyJAMBU only,
\* and two blocks for GIFT-COFB only.
LEMMA PlannedRequest ==
  ASSUME Testing
  PROVE  /\ rq.core \in Cores /\ rq.case \in Cases[rq.core]
         /\ rq.mode \in {"enc", "dec", "forged"} /\ (rq.mode = "forged" => rq.core = "jb")
         /\ Blocks(rq.case) \in {1, 2} /\ (Blocks(rq.case) = 2 => rq.core = "gc")
<1>1. rq \in Requests BY PlanIsList DEF Testing, rq
<1>2. /\ rq.core \in Cores /\ rq.case \in Cases[rq.core]
      /\ rq.mode \in {"enc", "dec", "forged"} /\ (rq.mode = "forged" => rq.core = "jb")
  BY <1>1 DEF Requests, Cores, Cases
<1>. QED BY <1>2 DEF Blocks, Cases, Cores

-------------------------------------------------------------------------------
(* Lists and records *)

LEMMA EmptyList == IsList(<<>>) /\ Len(<<>>) = 0
  BY DEF IsList

LEMMA ListOfItsOwn ==
  ASSUME NEW S, NEW s \in Seq(S)
  PROVE  IsList(s) /\ Len(s) \in Nat
<1> DEFINE T == {s[i] : i \in DOMAIN s}
<1>1. DOMAIN s = 1 .. Len(s) /\ Len(s) \in Nat OBVIOUS
<1>2. \A i \in 1 .. Len(s) : s[i] \in T BY <1>1
<1> HIDE DEF T
<1>3. s \in Seq(T) BY <1>1, <1>2
<1>. QED BY <1>1, <1>3 DEF IsList, T

LEMMA LongerList ==
  ASSUME NEW s, IsList(s), NEW x
  PROVE  IsList(Append(s, x)) /\ Len(Append(s, x)) = Len(s) + 1 /\ Len(s) \in Nat
<1> DEFINE S == {s[i] : i \in DOMAIN s} \cup {x}
<1>1. s \in Seq(S) BY DEF IsList
<1>2. Append(s, x) \in Seq(S) /\ Len(Append(s, x)) = Len(s) + 1 /\ Len(s) \in Nat BY <1>1
<1> HIDE DEF S
<1>. QED BY <1>2, ListOfItsOwn
-------------------------------------------------------------------------------
(* What the cores do in a clock, as far as the driver depends on it *)

LEMMA WithFields ==
  ASSUME NEW c, DOMAIN core[c] = CoreFields, NEW new
  PROVE  /\ DOMAIN With(c, new) = CoreFields
         /\ \A f \in DOMAIN new \cap CoreFields : With(c, new)[f] = new[f]
         /\ \A f \in CoreFields \ DOMAIN new : With(c, new)[f] = core[c][f]
  BY DEF With

LEMMA MoveFields ==
  ASSUME NEW c, DOMAIN core[c] = CoreFields, NEW state, NEW left, NEW new
  PROVE  LET after == Move(c, [state |-> state, left |-> left], new)
         IN  /\ DOMAIN after = CoreFields /\ after["state"] = state
             /\ \A f \in (DOMAIN new \cap CoreFields) \ {"state", "left"} : after[f] = new[f]
             /\ \A f \in CoreFields \ ({"state", "left"} \cup DOMAIN new) : after[f] = core[c][f]
<1> DEFINE before == With(c, new)
<1>1. DOMAIN before = CoreFields BY WithFields
<1>2. Move(c, [state |-> state, left |-> left], new)
        = [[before EXCEPT !["state"] = state] EXCEPT !["left"] = left]
  BY DEF Move
<1>3. "state" \in CoreFields /\ "left" \in CoreFields BY DEF CoreFields
<1>4. /\ \A f \in DOMAIN new \cap CoreFields : before[f] = new[f]
      /\ \A f \in CoreFields \ DOMAIN new : before[f] = core[c][f]
  BY WithFields
<1> HIDE DEF before
<1>. QED BY <1>1, <1>2, <1>3, <1>4

\* TinyJAMBU: state, inputs and done after a clock.
LEMMA JbMoves ==
  ASSUME DOMAIN core["jb"] = CoreFields, core["jb"].state \in States["jb"], NEW d
  PROVE  LET c == "jb"
             now == core[c]
             next == JbStep(d)
         IN  /\ DOMAIN next = CoreFields
             /\ CASE now.state = "IDLE" ->
                       IF c \in strobe THEN next.state = "LATCH_AD" /\ next.in = Latch(c) /\ ~next.done
                       ELSE next.state = "IDLE" /\ next.in = now.in /\ ~next.done
                  [] now.state = "LATCH_AD" ->
                       next.state = "LATCH_DAT" /\ next.in = TakeAd(c, now.in) /\ next.done = now.done
                  [] now.state = "LATCH_DAT" ->
                       next.state = "PERM" /\ next.in = TakeMsg(c, now.in) /\ next.done = now.done
                  [] now.state = "PERM" ->
                       next.state \in {"PERM", "DONE"} /\ next.in = now.in /\ next.done = now.done
                  [] now.state = "DONE" ->
                       next.state = "IDLE" /\ next.in = now.in /\ next.done
<1> DEFINE c == "jb"  now == core[c]  next == JbStep(d)
<1> USE DEF CoreFields
<1>1. CASE now.state = "IDLE" /\ c \in strobe
  <2>1. next = Move(c, Go("LATCH_AD"), [in |-> Latch(c), done |-> FALSE,
                                        out |-> Zero, tag |-> Zero, valid |-> FALSE])
    BY <1>1 DEF JbStep
  <2>. QED BY <1>1, <2>1, MoveFields DEF Go
<1>2. CASE now.state = "IDLE" /\ c \notin strobe
  <2>1. next = With(c, [done |-> FALSE]) BY <1>2 DEF JbStep
  <2>. QED BY <1>2, <2>1, WithFields
<1>3. CASE now.state = "LATCH_AD"
  <2>1. next = Move(c, Go("LATCH_DAT"), [in |-> TakeAd(c, core[c].in)]) BY <1>3 DEF JbStep
  <2>. QED BY <1>3, <2>1, MoveFields DEF Go
<1>4. CASE now.state = "LATCH_DAT"
  <2>1. next = Move(c, Run("PERM", d), [in |-> TakeMsg(c, core[c].in)]) BY <1>4 DEF JbStep
  <2>. QED BY <1>4, <2>1, MoveFields DEF Run
<1>5. CASE now.state = "PERM" /\ Running(c)
  <2>1. next = With(c, [left |-> core[c].left - 1, out |-> Junk]) BY <1>5 DEF JbStep
  <2>. QED BY <1>5, <2>1, WithFields
<1>6. CASE now.state = "PERM" /\ ~Running(c)
  <2>1. next = Move(c, Go("DONE"), Results(c, core[c].in)) BY <1>6 DEF JbStep
  <2>2. DOMAIN Results(c, core[c].in) = {"out", "tag", "valid"} BY DEF Results
  <2>. QED BY <1>6, <2>1, <2>2, MoveFields DEF Go
<1>7. CASE now.state = "DONE"
  <2>1. next = Move(c, Go("IDLE"), [done |-> TRUE]) BY <1>7 DEF JbStep
  <2>. QED BY <1>7, <2>1, MoveFields DEF Go
<1>. QED BY <1>1, <1>2, <1>3, <1>4, <1>5, <1>6, <1>7 DEF States

\* Xoodyak latches everything at once.
LEMMA XdMoves ==
  ASSUME DOMAIN core["xd"] = CoreFields, core["xd"].state \in States["xd"], NEW d
  PROVE  LET c == "xd"
             now == core[c]
             next == XdStep(d)
         IN  /\ DOMAIN next = CoreFields
             /\ CASE now.state = "IDLE" ->
                       IF c \in strobe
                       THEN next.state = "PERM" /\ next.in = TakeMsg(c, TakeAd(c, Latch(c))) /\ ~next.done
                       ELSE next.state = "IDLE" /\ next.in = now.in /\ ~next.done
                  [] now.state = "PERM" ->
                       next.state \in {"PERM", "DONE"} /\ next.in = now.in /\ next.done = now.done
                  [] now.state = "DONE" ->
                       next.state = "IDLE" /\ next.in = now.in /\ next.done
<1> DEFINE c == "xd"  now == core[c]  next == XdStep(d)
<1> USE DEF CoreFields
<1>1. CASE now.state = "IDLE" /\ c \in strobe
  <2>1. next = Move(c, Run("PERM", d), [in |-> TakeMsg(c, TakeAd(c, Latch(c))), done |-> FALSE])
    BY <1>1 DEF XdStep
  <2>. QED BY <1>1, <2>1, MoveFields DEF Run
<1>2. CASE now.state = "IDLE" /\ c \notin strobe
  <2>1. next = With(c, [done |-> FALSE]) BY <1>2 DEF XdStep
  <2>. QED BY <1>2, <2>1, WithFields
<1>3. CASE now.state = "PERM" /\ Running(c)
  <2>1. next = With(c, [left |-> core[c].left - 1]) BY <1>3 DEF XdStep
  <2>. QED BY <1>3, <2>1, WithFields
<1>4. CASE now.state = "PERM" /\ ~Running(c)
  <2>1. next = With(c, Go("DONE")) BY <1>4 DEF XdStep
  <2>. QED BY <1>4, <2>1, WithFields DEF Go
<1>5. CASE now.state = "DONE"
  <2> DEFINE before == Move(c, Go("IDLE"), Results(c, core[c].in))
  <2>1. next = [before EXCEPT !.done = TRUE] BY <1>5 DEF XdStep
  <2>2. DOMAIN Results(c, core[c].in) = {"out", "tag", "valid"} BY DEF Results
  <2>3. DOMAIN before = CoreFields /\ before.state = "IDLE" /\ before.in = now.in
    BY <2>2, MoveFields DEF Go
  <2>. QED BY <1>5, <2>1, <2>3
<1>. QED BY <1>1, <1>2, <1>3, <1>4, <1>5 DEF States

\* GIFT-COFB goes block by block and stops at a request until it is acknowledged.
LEMMA GcMoves ==
  ASSUME DOMAIN core["gc"] = CoreFields, core["gc"].state \in States["gc"], NEW d,
         core["gc"].state = "WAIT_AD" => ~LastMsg
  PROVE  LET c == "gc"
             now == core[c]
             next == GcMove(d)
             Stay == next.in = now.in /\ next.done = now.done
         IN  /\ DOMAIN next = CoreFields
             /\ CASE now.state = "IDLE" ->
                       IF c \in strobe
                       THEN next.state = "WAIT_NONCE" /\ next.in = Latch(c) /\ ~next.done
                       ELSE next.state = "IDLE" /\ next.in = now.in /\ ~next.done
                  [] now.state = "WAIT_NONCE" -> next.state \in {"WAIT_NONCE", "PROC_AD"} /\ Stay
                  [] now.state = "PROC_AD" ->
                       /\ next.state = "WAIT_AD" /\ next.done = now.done
                       /\ next.in = Key(TakeAd(c, now.in))
                  [] now.state = "WAIT_AD" ->
                       /\ next.state \in {"WAIT_AD", IF LastAd THEN "PROC_MSG" ELSE "REQ_AD"}
                       /\ Stay
                  [] now.state = "REQ_AD" ->
                       next.state = (IF "ad_ack" \in strobe THEN "PROC_AD" ELSE "REQ_AD") /\ Stay
                  [] now.state = "PROC_MSG" ->
                       /\ next.state = "WAIT_MSG" /\ next.done = now.done
                       /\ next.in = Key(TakeMsg(c, now.in))
                  [] now.state = "WAIT_MSG" ->
                       /\ next.state \in {"WAIT_MSG", IF LastMsg THEN "DONE" ELSE "REQ_MSG"}
                       /\ Stay
                  [] now.state = "REQ_MSG" ->
                       next.state = (IF "msg_ack" \in strobe THEN "PROC_MSG" ELSE "REQ_MSG") /\ Stay
                  [] now.state = "DONE" ->
                       /\ next.state = (IF c \in strobe THEN "DONE" ELSE "IDLE")
                       /\ next.in = now.in /\ next.done
<1> DEFINE c == "gc"  now == core[c]  next == GcMove(d)
<1> USE DEF CoreFields
<1>1. CASE Waiting
  <2>1. next = With(c, [left |-> core[c].left - 1]) BY <1>1 DEF GcMove
  <2>2. /\ DOMAIN next = CoreFields /\ next.state = now.state
        /\ next.in = now.in /\ next.done = now.done
    BY <2>1, WithFields
  <2>. QED BY <1>1, <2>2 DEF Waiting
<1>2. CASE now.state = "IDLE"
  <2>1. next = Move(c, IF c \in strobe THEN Run("WAIT_NONCE", d) ELSE Go("IDLE"),
                    [in |-> IF c \in strobe THEN Latch(c) ELSE now.in, done |-> FALSE,
                     valid |-> FALSE])
    BY <1>2 DEF GcMove, Waiting
  <2>2. CASE c \in strobe BY <1>2, <2>1, <2>2, MoveFields DEF Run
  <2>3. CASE c \notin strobe BY <1>2, <2>1, <2>3, MoveFields DEF Go
  <2>. QED BY <2>2, <2>3
<1>3. CASE ~Waiting /\ now.state = "WAIT_NONCE"
  <2>1. next = With(c, Go("PROC_AD")) BY <1>3 DEF GcMove
  <2>. QED BY <1>3, <2>1, WithFields DEF Go
<1>4. CASE now.state = "PROC_AD"
  <2>1. next = Move(c, Run("WAIT_AD", d), [in |-> Key(TakeAd(c, now.in))])
    BY <1>4 DEF GcMove, Waiting
  <2>. QED BY <1>4, <2>1, MoveFields DEF Run
<1>5. CASE ~Waiting /\ now.state = "WAIT_AD" /\ ~LastMsg
  <2>1. next = With(c, Go(IF LastAd THEN "PROC_MSG" ELSE "REQ_AD")) BY <1>5 DEF GcMove
  <2>. QED BY <1>5, <2>1, WithFields DEF Go
<1>6. CASE now.state = "REQ_AD"
  <2>1. next = With(c, Go(IF "ad_ack" \in strobe THEN "PROC_AD" ELSE "REQ_AD"))
    BY <1>6 DEF GcMove, Waiting
  <2>. QED BY <1>6, <2>1, WithFields DEF Go
<1>7. CASE now.state = "PROC_MSG"
  <2>1. next = Move(c, Run("WAIT_MSG", d),
                    [in |-> Key(TakeMsg(c, now.in)), out |-> Out(c, Key(TakeMsg(c, now.in)))])
    BY <1>7 DEF GcMove, Waiting
  <2>. QED BY <1>7, <2>1, MoveFields DEF Run
<1>8. CASE ~Waiting /\ now.state = "WAIT_MSG"
  <2>1. next = Move(c, Go(IF LastMsg THEN "DONE" ELSE "REQ_MSG"),
                    [tag |-> IF LastMsg THEN Tag(c, now.in) ELSE core[c].tag])
    BY <1>8 DEF GcMove
  <2>. QED BY <1>8, <2>1, MoveFields DEF Go
<1>9. CASE now.state = "REQ_MSG"
  <2>1. next = With(c, Go(IF "msg_ack" \in strobe THEN "PROC_MSG" ELSE "REQ_MSG"))
    BY <1>9 DEF GcMove, Waiting
  <2>. QED BY <1>9, <2>1, WithFields DEF Go
<1>10. CASE now.state = "DONE"
  <2>1. next = Move(c, Go(IF c \in strobe THEN "DONE" ELSE "IDLE"),
                    [done |-> TRUE,
                     valid |-> Valid(c, [now.in EXCEPT !.tag = Reg(c, "tag")], core[c].tag)])
    BY <1>10 DEF GcMove, Waiting
  <2>. QED BY <1>10, <2>1, MoveFields DEF Go
<1>. QED BY <1>1, <1>2, <1>3, <1>4, <1>5, <1>6, <1>7, <1>8, <1>9, <1>10 DEF States

-------------------------------------------------------------------------------
(* Inputs *)

InShape(in) == DOMAIN in = InFields /\ IsList(in.ads) /\ IsList(in.msgs)

LEMMA LatchedInputs ==
  ASSUME NEW c
  PROVE  /\ InShape(Latch(c)) /\ Latch(c).mode = regs[c].mode
         /\ Len(Latch(c).ads) = 0 /\ Len(Latch(c).msgs) = 0
  BY EmptyList DEF InShape, Latch, InFields

LEMMA Counted ==
  ASSUME NEW in, InShape(in)
  PROVE  Len(in.ads) \in Nat /\ Len(in.msgs) \in Nat
  BY LongerList DEF InShape

LEMMA AdTaken ==
  ASSUME NEW c, NEW in, InShape(in)
  PROVE  /\ InShape(TakeAd(c, in)) /\ TakeAd(c, in).mode = in.mode
         /\ Len(TakeAd(c, in).ads) = Len(in.ads) + 1 /\ TakeAd(c, in).msgs = in.msgs
  BY LongerList DEF InShape, TakeAd, InFields

LEMMA MsgTaken ==
  ASSUME NEW c, NEW in, InShape(in)
  PROVE  /\ InShape(TakeMsg(c, in)) /\ TakeMsg(c, in).mode = in.mode
         /\ Len(TakeMsg(c, in).msgs) = Len(in.msgs) + 1 /\ TakeMsg(c, in).ads = in.ads
  BY LongerList DEF InShape, TakeMsg, InFields

LEMMA KeyTaken ==
  ASSUME NEW in, InShape(in)
  PROVE  /\ InShape(Key(in)) /\ Key(in).mode = in.mode
         /\ Key(in).ads = in.ads /\ Key(in).msgs = in.msgs
  BY DEF InShape, Key, InFields

-------------------------------------------------------------------------------
(* The clock of the cores *)

\* GIFT-COFB never finds all messages in before the first one.
LEMMA FirstMessage ==
  ASSUME CoresInv
  PROVE  core["gc"].state = "WAIT_AD" => ~LastMsg
<1> SUFFICES ASSUME core["gc"].state = "WAIT_AD" PROVE ~LastMsg OBVIOUS
<1>1. /\ "gc" \notin strobe /\ doing \notin BeforeStart /\ rq.core = "gc"
  BY DEF CoresInv, RestInv, Cores
<1>2. Testing BY <1>1 DEF CoresInv, PlaceInv, BeforeStart
<1>3. Msgs("gc") = 0 /\ regs["gc"].msgs = Blocks(rq.case)
  BY <1>1 DEF CoresInv, TakenInv, TakenIn
<1>. QED BY <1>2, <1>3, PlannedRequest DEF LastMsg, Msgs

\* The clock of a core, whichever it is.
Moved(c, d) ==
  CASE c = "jb" -> JbStep(d) [] c = "xd" -> XdStep(d) [] c = "gc" -> GcMove(d)

LEMMA HardwareMoves ==
  ASSUME CoresInv, Hardware
  PROVE  /\ \E d \in 1 .. MaxRun : \A c \in Cores :
              /\ DOMAIN core'[c] = CoreFields /\ DOMAIN Moved(c, d) = CoreFields
              /\ core'[c].state = Moved(c, d).state /\ core'[c].in = Moved(c, d).in
              /\ core'[c].done = Moved(c, d).done
         /\ core'["gc"].ad_req = (core["gc"].state = "REQ_AD")
         /\ core'["gc"].msg_req = (core["gc"].state = "REQ_MSG")
<1>1. PICK d \in 1 .. MaxRun : core' = [jb |-> JbStep(d), xd |-> XdStep(d), gc |-> GcStep(d)]
  BY DEF Hardware, CoreClock
<1>2. \A c \in Cores : DOMAIN core[c] = CoreFields /\ core[c].state \in States[c]
  BY DEF CoresInv, Shapes, TakenInv
<1>3. DOMAIN JbStep(d) = CoreFields BY <1>2, JbMoves DEF Cores
<1>4. DOMAIN XdStep(d) = CoreFields BY <1>2, XdMoves DEF Cores
<1>5. DOMAIN GcMove(d) = CoreFields BY <1>2, GcMoves, FirstMessage DEF Cores
<1>6. core'["jb"] = JbStep(d) /\ core'["xd"] = XdStep(d) /\ core'["gc"] = GcStep(d)
  BY <1>1
<1>7. /\ DOMAIN GcStep(d) = CoreFields /\ GcStep(d).state = GcMove(d).state
      /\ GcStep(d).in = GcMove(d).in /\ GcStep(d).done = GcMove(d).done
      /\ GcStep(d).ad_req = (core["gc"].state = "REQ_AD")
      /\ GcStep(d).msg_req = (core["gc"].state = "REQ_MSG")
  BY <1>5 DEF GcStep, CoreFields
<1>8. Moved("jb", d) = JbStep(d) /\ Moved("xd", d) = XdStep(d) /\ Moved("gc", d) = GcMove(d)
  BY DEF Moved
<1>. QED BY <1>3, <1>4, <1>5, <1>6, <1>7, <1>8 DEF Cores

\* A core that is not started stays at rest.
LEMMA CoreRests ==
  ASSUME CoresInv, Hardware, NEW c \in Cores, core[c].state = "IDLE", c \notin strobe
  PROVE  core'[c].state = "IDLE" /\ ~core'[c].done /\ core'[c].in = core[c].in
<1>1. PICK d : /\ core'[c].state = Moved(c, d).state /\ core'[c].in = Moved(c, d).in
               /\ core'[c].done = Moved(c, d).done
  BY HardwareMoves
<1>2. DOMAIN core[c] = CoreFields /\ core[c].state \in States[c]
  BY DEF CoresInv, Shapes, TakenInv
<1>3. CASE c = "jb" BY <1>1, <1>2, <1>3, JbMoves DEF Moved
<1>4. CASE c = "xd" BY <1>1, <1>2, <1>4, XdMoves DEF Moved
<1>5. CASE c = "gc" BY <1>1, <1>2, <1>5, GcMoves, FirstMessage DEF Moved
<1>. QED BY <1>3, <1>4, <1>5 DEF Cores

\* The states of a core, the shape of what it has taken in, and its done.
LEMMA CoreTypes ==
  ASSUME CoresInv, Hardware, NEW c \in Cores
  PROVE  /\ DOMAIN core'[c] = CoreFields /\ core'[c].state \in States[c]
         /\ InShape(core'[c].in)
         /\ core'[c].done => core'[c].state = "IDLE"
<1>1. PICK d : /\ DOMAIN core'[c] = CoreFields
               /\ core'[c].state = Moved(c, d).state /\ core'[c].in = Moved(c, d).in
               /\ core'[c].done = Moved(c, d).done
  BY HardwareMoves
<1>2. DOMAIN core[c] = CoreFields /\ core[c].state \in States[c] /\ InShape(core[c].in)
  BY DEF CoresInv, Shapes, TakenInv, InShape
<1>3. /\ core[c].done => core[c].state = "IDLE"
      /\ c \in strobe => core[c].state = "IDLE" /\ ~core[c].done
  BY DEF CoresInv, DoneInv, RestInv
<1>4. /\ InShape(Latch(c)) /\ InShape(TakeMsg(c, TakeAd(c, Latch(c))))
      /\ InShape(TakeAd(c, core[c].in)) /\ InShape(TakeMsg(c, core[c].in))
      /\ InShape(Key(TakeAd(c, core[c].in))) /\ InShape(Key(TakeMsg(c, core[c].in)))
  BY <1>2, LatchedInputs, AdTaken, MsgTaken, KeyTaken
<1>5. CASE c = "jb"
  <2>1. Moved(c, d) = JbStep(d) BY <1>5 DEF Moved
  <2>2. JbStep(d).state \in States[c] BY <1>2, <1>5, JbMoves DEF States
  <2>3. InShape(JbStep(d).in) BY <1>2, <1>4, <1>5, JbMoves DEF States
  <2>4. JbStep(d).done => JbStep(d).state = "IDLE"
    <3>1. CASE core[c].state = "IDLE"
      <4>1. ~JbStep(d).done BY <1>2, <1>5, <3>1, JbMoves
      <4>. QED BY <4>1
    <3>3. CASE core[c].state = "DONE"
      <4>1. JbStep(d).state = "IDLE" BY <1>2, <1>3, <1>5, <3>3, JbMoves
      <4>. QED BY <4>1
    <3>2. CASE core[c].state # "IDLE" /\ core[c].state # "DONE"
      <4>1. JbStep(d).done = core[c].done BY <1>2, <1>5, <3>2, JbMoves DEF States
      <4>. QED BY <1>3, <3>2, <4>1
    <3>. QED BY <3>1, <3>2, <3>3
  <2>. QED BY <1>1, <1>5, <2>1, <2>2, <2>3, <2>4
<1>6. CASE c = "xd"
  <2>1. Moved(c, d) = XdStep(d) BY <1>6 DEF Moved
  <2>. QED BY <1>1, <1>2, <1>3, <1>4, <1>6, <2>1, XdMoves DEF States
<1>7. CASE c = "gc"
  <2>1. Moved(c, d) = GcMove(d) BY <1>7 DEF Moved
  <2>2. GcMove(d).state \in States[c] BY <1>2, <1>7, GcMoves, FirstMessage DEF States
  <2>3. InShape(GcMove(d).in) BY <1>2, <1>4, <1>7, GcMoves, FirstMessage DEF States
  <2>4. GcMove(d).done => GcMove(d).state = "IDLE"
    <3>1. CASE core[c].state = "IDLE"
      <4>1. ~GcMove(d).done BY <1>2, <1>7, <3>1, GcMoves, FirstMessage
      <4>. QED BY <4>1
    <3>3. CASE core[c].state = "DONE"
      <4>1. GcMove(d).state = "IDLE" BY <1>2, <1>3, <1>7, <3>3, GcMoves, FirstMessage
      <4>. QED BY <4>1
    <3>2. CASE core[c].state # "IDLE" /\ core[c].state # "DONE"
      <4>1. GcMove(d).done = core[c].done BY <1>2, <1>7, <3>2, GcMoves, FirstMessage DEF States
      <4>. QED BY <1>3, <3>2, <4>1
    <3>. QED BY <3>1, <3>2, <3>3
  <2>. QED BY <1>1, <1>7, <2>1, <2>2, <2>3, <2>4
<1>. QED BY <1>5, <1>6, <1>7 DEF Cores

\* What a started core has taken in grows block by block.
LEMMA StepTaken ==
  ASSUME CoresInv, Hardware, NEW c \in Cores, c = rq.core, NEW blocks, blocks = Blocks(rq.case),
         doing \notin BeforeStart
  PROVE  core'[c].in.mode = Mode(rq) /\ TakenIn(c, blocks)'
<1>1. PICK d : /\ core'[c].state = Moved(c, d).state /\ core'[c].in = Moved(c, d).in
  BY HardwareMoves
<1>2. /\ DOMAIN core[c] = CoreFields /\ core[c].state \in States[c] /\ InShape(core[c].in)
  BY DEF CoresInv, Shapes, TakenInv, InShape
<1>3. Testing BY DEF CoresInv, PlaceInv, BeforeStart
<1>4. blocks \in {1, 2} /\ (blocks = 2 => c = "gc") BY <1>3, PlannedRequest
<1>5. /\ regs[c].mode = Mode(rq) /\ regs[c].ads = blocks /\ regs[c].msgs = blocks
      /\ c \notin strobe => core[c].in.mode = Mode(rq) /\ TakenIn(c, blocks)
      /\ c \in strobe => core[c].state = "IDLE"
  BY DEF CoresInv, TakenInv, RestInv
<1> DEFINE in == core[c].in
           counts(ads, msgs) == core'[c].in.mode = Mode(rq) /\ Ads(c)' = ads /\ Msgs(c)' = msgs
<1>6. ASSUME c \in strobe, core'[c].in = Latch(c) PROVE counts(0, 0)
  BY <1>5, <1>6, LatchedInputs DEF Ads, Msgs
<1>7. ASSUME c \in strobe, core'[c].in = TakeMsg(c, TakeAd(c, Latch(c))) PROVE counts(1, 1)
  <2> DEFINE latched == Latch(c)
             withAd == TakeAd(c, latched)
             both == TakeMsg(c, withAd)
  <2>1. /\ InShape(latched) /\ latched.mode = Mode(rq)
        /\ Len(latched.ads) = 0 /\ Len(latched.msgs) = 0
    BY <1>5, <1>7, LatchedInputs
  <2> HIDE DEF latched
  <2>2. /\ InShape(withAd) /\ withAd.mode = Mode(rq)
        /\ Len(withAd.ads) = 1 /\ Len(withAd.msgs) = 0
    <3>1. /\ InShape(withAd) /\ withAd.mode = latched.mode
          /\ Len(withAd.ads) = Len(latched.ads) + 1 /\ withAd.msgs = latched.msgs
      BY <2>1, AdTaken
    <3>. QED BY <2>1, <3>1
  <2> HIDE DEF withAd
  <2>3. both.mode = Mode(rq) /\ Len(both.ads) = 1 /\ Len(both.msgs) = 1
    <3>1. /\ both.mode = withAd.mode
          /\ Len(both.msgs) = Len(withAd.msgs) + 1 /\ both.ads = withAd.ads
      BY <2>2, MsgTaken
    <3>. QED BY <2>2, <3>1
  <2>4. core'[c].in = both BY <1>7 DEF latched, withAd
  <2> HIDE DEF both
  <2>. QED BY <2>3, <2>4 DEF Ads, Msgs
<1>8. Ads(c) \in Nat /\ Msgs(c) \in Nat BY <1>2, Counted DEF Ads, Msgs
<1>9. ASSUME c \notin strobe, core'[c].in = in PROVE counts(Ads(c), Msgs(c))
  BY <1>5, <1>9 DEF Ads, Msgs
<1>10. ASSUME c \notin strobe, core'[c].in = TakeAd(c, in) \/ core'[c].in = Key(TakeAd(c, in))
       PROVE  counts(Ads(c) + 1, Msgs(c))
  <2>1. /\ InShape(TakeAd(c, in)) /\ TakeAd(c, in).mode = Mode(rq)
        /\ Len(TakeAd(c, in).ads) = Ads(c) + 1 /\ Len(TakeAd(c, in).msgs) = Msgs(c)
    BY <1>2, <1>5, <1>10, AdTaken DEF Ads, Msgs
  <2>. QED BY <1>10, <2>1, KeyTaken DEF Ads, Msgs
<1>11. ASSUME c \notin strobe, core'[c].in = TakeMsg(c, in) \/ core'[c].in = Key(TakeMsg(c, in))
       PROVE  counts(Ads(c), Msgs(c) + 1)
  <2>1. /\ InShape(TakeMsg(c, in)) /\ TakeMsg(c, in).mode = Mode(rq)
        /\ Len(TakeMsg(c, in).ads) = Ads(c) /\ Len(TakeMsg(c, in).msgs) = Msgs(c) + 1
    BY <1>2, <1>5, <1>11, MsgTaken DEF Ads, Msgs
  <2>. QED BY <1>11, <2>1, KeyTaken DEF Ads, Msgs
<1> HIDE DEF counts
<1>12. ASSUME NEW ads, NEW msgs, counts(ads, msgs)
       PROVE  core'[c].in.mode = Mode(rq) /\ Ads(c)' = ads /\ Msgs(c)' = msgs
  BY <1>12 DEF counts
<1>13. CASE c = "jb"
  <2>1. Moved(c, d) = JbStep(d) /\ blocks = 1 BY <1>4, <1>13 DEF Moved
  <2>2. CASE core[c].state = "IDLE" /\ c \in strobe
    <3>1. core'[c].state = "LATCH_AD" /\ counts(0, 0)
      BY <1>1, <1>2, <1>6, <1>13, <2>1, <2>2, JbMoves
    <3>. QED BY <1>12, <3>1 DEF TakenIn
  <2>3. CASE core[c].state = "IDLE" /\ c \notin strobe
    <3>1. core'[c].state = "IDLE" /\ counts(Ads(c), Msgs(c)) BY <1>9, <2>3, CoreRests
    <3>. QED BY <1>5, <1>12, <2>3, <3>1 DEF TakenIn
  <2>4. CASE core[c].state = "LATCH_AD"
    <3>1. core'[c].state = "LATCH_DAT" /\ counts(Ads(c) + 1, Msgs(c))
      BY <1>1, <1>2, <1>5, <1>10, <1>13, <2>1, <2>4, JbMoves
    <3>. QED BY <1>5, <1>12, <2>4, <3>1 DEF TakenIn
  <2>5. CASE core[c].state = "LATCH_DAT"
    <3>1. core'[c].state = "PERM" /\ counts(Ads(c), Msgs(c) + 1)
      BY <1>1, <1>2, <1>5, <1>11, <1>13, <2>1, <2>5, JbMoves
    <3>. QED BY <1>5, <1>12, <2>1, <2>5, <3>1 DEF TakenIn
  <2>6. CASE core[c].state = "PERM" \/ core[c].state = "DONE"
    <3>1. core'[c].state \in {"PERM", "DONE", "IDLE"} /\ counts(Ads(c), Msgs(c))
      BY <1>1, <1>2, <1>5, <1>9, <1>13, <2>1, <2>6, JbMoves
    <3>. QED BY <1>5, <1>12, <2>6, <3>1 DEF TakenIn
  <2>. QED BY <1>2, <1>13, <2>2, <2>3, <2>4, <2>5, <2>6 DEF States
<1>14. CASE c = "xd"
  <2>1. Moved(c, d) = XdStep(d) /\ blocks = 1 BY <1>4, <1>14 DEF Moved
  <2>2. CASE core[c].state = "IDLE" /\ c \in strobe
    <3>1. core'[c].state = "PERM" /\ counts(1, 1)
      BY <1>1, <1>2, <1>7, <1>14, <2>1, <2>2, XdMoves
    <3>. QED BY <1>12, <2>1, <3>1 DEF TakenIn
  <2>3. CASE core[c].state = "IDLE" /\ c \notin strobe
    <3>1. core'[c].state = "IDLE" /\ counts(Ads(c), Msgs(c)) BY <1>9, <2>3, CoreRests
    <3>. QED BY <1>5, <1>12, <2>3, <3>1 DEF TakenIn
  <2>4. CASE core[c].state = "PERM" \/ core[c].state = "DONE"
    <3>1. core'[c].state \in {"PERM", "DONE", "IDLE"} /\ counts(Ads(c), Msgs(c))
      BY <1>1, <1>2, <1>5, <1>9, <1>14, <2>1, <2>4, XdMoves
    <3>. QED BY <1>5, <1>12, <2>4, <3>1 DEF TakenIn
  <2>. QED BY <1>2, <1>14, <2>2, <2>3, <2>4 DEF States
<1>15. CASE c = "gc"
  <2>1. Moved(c, d) = GcMove(d) BY <1>15 DEF Moved
  <2>2. LastAd = (Ads(c) = blocks) /\ LastMsg = (Msgs(c) = blocks)
    BY <1>5, <1>15 DEF LastAd, LastMsg, Ads, Msgs
  <2>3. CASE core[c].state = "IDLE" /\ c \in strobe
    <3>1. core'[c].state = "WAIT_NONCE" /\ counts(0, 0)
      BY <1>1, <1>2, <1>6, <1>15, <2>1, <2>3, GcMoves, FirstMessage
    <3>. QED BY <1>12, <3>1 DEF TakenIn
  <2>4. CASE core[c].state = "IDLE" /\ c \notin strobe
    <3>1. core'[c].state = "IDLE" /\ counts(Ads(c), Msgs(c)) BY <1>9, <2>4, CoreRests
    <3>. QED BY <1>5, <1>12, <2>4, <3>1 DEF TakenIn
  <2>5. CASE core[c].state = "WAIT_NONCE"
    <3>1. core'[c].state \in {"WAIT_NONCE", "PROC_AD"} /\ counts(Ads(c), Msgs(c))
      BY <1>1, <1>2, <1>5, <1>9, <1>15, <2>1, <2>5, GcMoves, FirstMessage
    <3>2. Ads(c) = 0 /\ Msgs(c) = 0 BY <1>5, <2>5 DEF TakenIn
    <3>3. CASE core'[c].state = "WAIT_NONCE" BY <1>12, <3>1, <3>2, <3>3 DEF TakenIn
    <3>4. CASE core'[c].state = "PROC_AD" BY <1>4, <1>12, <3>1, <3>2, <3>4 DEF TakenIn
    <3>. QED BY <3>1, <3>3, <3>4
  <2>6. CASE core[c].state = "PROC_AD"
    <3>1. core'[c].state = "WAIT_AD" /\ counts(Ads(c) + 1, Msgs(c))
      BY <1>1, <1>2, <1>5, <1>10, <1>15, <2>1, <2>6, GcMoves, FirstMessage
    <3>. QED BY <1>4, <1>5, <1>8, <1>12, <2>6, <3>1 DEF TakenIn
  <2>7. CASE core[c].state = "WAIT_AD"
    <3>1. /\ core'[c].state \in {"WAIT_AD", IF Ads(c) = blocks THEN "PROC_MSG" ELSE "REQ_AD"}
          /\ counts(Ads(c), Msgs(c))
      BY <1>1, <1>2, <1>5, <1>9, <1>15, <2>1, <2>2, <2>7, GcMoves, FirstMessage
    <3>2. Ads(c) \in 1 .. blocks /\ Msgs(c) = 0 BY <1>5, <2>7 DEF TakenIn
    <3>3. CASE core'[c].state = "WAIT_AD" BY <1>12, <3>1, <3>2, <3>3 DEF TakenIn
    <3>4. CASE core'[c].state = "PROC_MSG" BY <1>4, <1>12, <3>1, <3>2, <3>4 DEF TakenIn
    <3>5. CASE core'[c].state = "REQ_AD" BY <1>4, <1>12, <3>1, <3>2, <3>5 DEF TakenIn
    <3>. QED BY <3>1, <3>3, <3>4, <3>5
  <2>8. CASE core[c].state = "REQ_AD"
    <3>1. core'[c].state \in {"REQ_AD", "PROC_AD"} /\ counts(Ads(c), Msgs(c))
      BY <1>1, <1>2, <1>5, <1>9, <1>15, <2>1, <2>8, GcMoves, FirstMessage
    <3>. QED BY <1>5, <1>12, <2>8, <3>1 DEF TakenIn
  <2>9. CASE core[c].state = "PROC_MSG"
    <3>1. core'[c].state = "WAIT_MSG" /\ counts(Ads(c), Msgs(c) + 1)
      BY <1>1, <1>2, <1>5, <1>11, <1>15, <2>1, <2>9, GcMoves, FirstMessage
    <3>. QED BY <1>4, <1>5, <1>8, <1>12, <2>9, <3>1 DEF TakenIn
  <2>10. CASE core[c].state = "WAIT_MSG"
    <3>1. /\ core'[c].state \in {"WAIT_MSG", IF Msgs(c) = blocks THEN "DONE" ELSE "REQ_MSG"}
          /\ counts(Ads(c), Msgs(c))
      BY <1>1, <1>2, <1>5, <1>9, <1>15, <2>1, <2>2, <2>10, GcMoves, FirstMessage
    <3>2. Ads(c) = blocks /\ Msgs(c) \in 1 .. blocks BY <1>5, <2>10 DEF TakenIn
    <3>3. CASE core'[c].state = "WAIT_MSG" BY <1>12, <3>1, <3>2, <3>3 DEF TakenIn
    <3>4. CASE core'[c].state = "DONE" BY <1>4, <1>12, <3>1, <3>2, <3>4 DEF TakenIn
    <3>5. CASE core'[c].state = "REQ_MSG" BY <1>4, <1>12, <3>1, <3>2, <3>5 DEF TakenIn
    <3>. QED BY <3>1, <3>3, <3>4, <3>5
  <2>11. CASE core[c].state = "REQ_MSG"
    <3>1. core'[c].state \in {"REQ_MSG", "PROC_MSG"} /\ counts(Ads(c), Msgs(c))
      BY <1>1, <1>2, <1>5, <1>9, <1>15, <2>1, <2>11, GcMoves, FirstMessage
    <3>2. Ads(c) = blocks /\ Msgs(c) \in 1 .. blocks - 1 BY <1>5, <2>11 DEF TakenIn
    <3>3. CASE core'[c].state = "REQ_MSG" BY <1>12, <3>1, <3>2, <3>3 DEF TakenIn
    <3>4. CASE core'[c].state = "PROC_MSG" BY <1>4, <1>12, <3>1, <3>2, <3>4 DEF TakenIn
    <3>. QED BY <3>1, <3>3, <3>4
  <2>12. CASE core[c].state = "DONE"
    <3>1. core'[c].state \in {"DONE", "IDLE"} /\ counts(Ads(c), Msgs(c))
      BY <1>1, <1>2, <1>5, <1>9, <1>15, <2>1, <2>12, GcMoves, FirstMessage
    <3>. QED BY <1>5, <1>12, <2>12, <3>1 DEF TakenIn
  <2>. QED BY <1>2, <1>15, <2>3, <2>4, <2>5, <2>6, <2>7, <2>8, <2>9, <2>10, <2>11, <2>12 DEF States
<1>. QED BY <1>13, <1>14, <1>15 DEF Cores

\* A request stands until it is acknowledged.
LEMMA RequestStands ==
  ASSUME CoresInv, Hardware
  PROVE  /\ core["gc"].state = "REQ_AD" /\ "ad_ack" \notin strobe => core'["gc"].state = "REQ_AD"
         /\ core["gc"].state = "REQ_MSG" /\ "msg_ack" \notin strobe => core'["gc"].state = "REQ_MSG"
<1>1. PICK d : core'["gc"].state = Moved("gc", d).state BY HardwareMoves DEF Cores
<1>2. Moved("gc", d) = GcMove(d) BY DEF Moved
<1>3. DOMAIN core["gc"] = CoreFields /\ core["gc"].state \in States["gc"]
  BY DEF CoresInv, Shapes, TakenInv, Cores
<1>. QED BY <1>1, <1>2, <1>3, GcMoves, FirstMessage

\* Done, and the register that keeps it.
LEMMA StepDone == CoresInv /\ Hardware => DoneInv'
<1> SUFFICES ASSUME CoresInv, Hardware, NEW c \in Cores
             PROVE  /\ core'[c].done => core'[c].state = "IDLE"
                    /\ sticky'[c].done => core'[c].state = "IDLE" /\ ~core'[c].done
  BY DEF DoneInv
<1>1. core'[c].done => core'[c].state = "IDLE" BY CoreTypes
<1>2. sticky'[c].done => c \notin strobe /\ (core[c].done \/ sticky[c].done)
  BY DEF Hardware, StickyClock
<1>3. core[c].done \/ sticky[c].done => core[c].state = "IDLE" BY DEF CoresInv, DoneInv
<1>. QED BY <1>1, <1>2, <1>3, CoreRests

-------------------------------------------------------------------------------
(* The driver *)

LEMMA PlanLength == Len(Plan) \in Nat
  BY PlanIsList

\* Where an access takes the driver, and which strobe it raises.
Leads(from, to, raised) == doing = from /\ doing' \in to /\ strobe' = raised
LEMMA DriverMoves ==
  ASSUME Access, ~Judge
  PROVE  /\ Testing /\ at' = at /\ gap = MinGap /\ gap' = 0
         /\ item' = item \/ item' = item + 1 \/ item' = 1
         /\ \/ Leads("load", {"load", "start"}, {})
            \/ Leads("start", {"poll"}, {rq.core})
            \/ Leads("poll", {"poll"}, {})
            \/ Leads("poll", {"ad block"}, {}) /\ Wants("ad_req") /\ item' = 1
            \/ Leads("poll", {"save block"}, {}) /\ Wants("msg_req")
            \/ Leads("poll", {"valid"}, {}) /\ sticky[rq.core].done
            \/ Leads("poll", {"results"}, {}) /\ sticky[rq.core].done /\ rq.mode # "forged"
            \/ Leads("ad block", {"ad block", "ack ad"}, {})
            \/ Leads("ack ad", {"poll"}, {"ad_ack"})
            \/ Leads("save block", {"save block"}, {})
            \/ Leads("save block", {"msg block"}, {}) /\ item' = 1
            \/ Leads("msg block", {"msg block", "ack msg"}, {})
            \/ Leads("ack msg", {"poll"}, {"msg_ack"})
            \/ Leads("results", {"results", "valid", "judge"}, {})
            \/ Leads("valid", {"judge"}, {})
<1> USE DEF Leads, Doing, KeepPlan, Accesses, Then, NoWrite
<1>2. CASE Load BY <1>2 DEF Load, WriteInput, WriteWord, Through
<1>3. CASE Start BY <1>3 DEF Start, WriteCtrl
<1>4. CASE Poll
  <2>1. CASE Wants("ad_req") BY <1>4, <2>1 DEF Poll
  <2>2. CASE ~Wants("ad_req") /\ Wants("msg_req") BY <1>4, <2>2 DEF Poll
  <2>3. CASE ~Wants("ad_req") /\ ~Wants("msg_req") /\ ~sticky[rq.core].done
    BY <1>4, <2>3 DEF Poll
  <2>4. CASE ~Wants("ad_req") /\ ~Wants("msg_req") /\ sticky[rq.core].done
    BY <1>4, <2>4 DEF Poll
  <2>. QED BY <2>1, <2>2, <2>3, <2>4
<1>5. CASE AdBlock BY <1>5 DEF AdBlock, WriteInput, WriteWord, Through
<1>6. CASE AckAd BY <1>6 DEF AckAd, WriteAck
<1>7. CASE SaveBlock BY <1>7 DEF SaveBlock, Through
<1>8. CASE MsgBlock BY <1>8 DEF MsgBlock, WriteInput, WriteWord, Through
<1>9. CASE AckMsg BY <1>9 DEF AckMsg, WriteAck
<1>10. CASE ReadResults BY <1>10 DEF ReadResults, Through
<1>11. CASE ReadValid BY <1>11 DEF ReadValid
<1>. QED BY <1>2, <1>3, <1>4, <1>5, <1>6, <1>7, <1>8, <1>9, <1>10, <1>11 DEF Access

\* The request is the same until it is judged; a strobe is one clock long.
LEMMA StepPlace ==
  ASSUME CoresInv, Access \/ Idle
  PROVE  PlaceInv' /\ StrobeInv'
<1>1. /\ at \in 0 .. Len(Plan) + 1 /\ gap \in 0 .. MinGap /\ item \in Nat \ {0}
      /\ doing \in BeforeStart \cup {"poll"} \cup InBlock \cup AfterDone
      /\ doing \in InBlock => Blocks(rq.case) = 2
      /\ doing = "results" => rq.mode # "forged"
      /\ ~Testing => doing = "load"
  BY DEF CoresInv, PlaceInv
<1>2. MinGap \in Nat \ {0, 1} /\ Len(Plan) \in Nat BY GapAssumption, PlanLength
<1>3. CASE Idle
  <2>1. gap' \in 0 .. MinGap BY <1>1, <1>2, <1>3 DEF Idle
  <2>2. at' = at /\ doing' = doing /\ item' = item /\ strobe' = {} BY <1>3 DEF Idle, NoWrite
  <2>3. rq' = rq /\ Testing' = Testing BY <2>2 DEF rq, Testing
  <2>. QED BY <1>1, <2>1, <2>2, <2>3 DEF PlaceInv, StrobeInv
<1>4. CASE Judge
  <2>1. at \in 1 .. Len(Plan) BY <1>4 DEF Judge, Doing, Testing
  <2>2. at' \in 0 .. Len(Plan) + 1 /\ gap' = gap /\ item' = 1 /\ doing' = "load" /\ strobe' = {}
    BY <1>2, <1>4, <2>1 DEF Judge, Then, NoWrite
  <2>3. "load" \in BeforeStart /\ "load" \notin InBlock /\ 1 \in Nat \ {0}
    BY DEF BeforeStart, InBlock
  <2>4. PlaceInv' BY <1>1, <2>2, <2>3 DEF PlaceInv
  <2>. QED BY <2>2, <2>4 DEF StrobeInv
<1>5. CASE Access /\ ~Judge
  <2>1. at' = at /\ Testing /\ gap' = 0 BY <1>5, DriverMoves
  <2>2. rq' = rq /\ Testing' BY <2>1 DEF rq, Testing
  <2>3. item' = item \/ item' = item + 1 \/ item' = 1 BY <1>5, DriverMoves
  <2>4. item' \in Nat \ {0} BY <1>1, <2>3
  <2>5. doing' \in BeforeStart \cup {"poll"} \cup InBlock \cup AfterDone
    BY <1>5, DriverMoves DEF Leads, BeforeStart, InBlock, AfterDone
  <2>6. doing' \in InBlock => Blocks(rq.case) = 2
    BY <1>1, <1>5, DriverMoves DEF Leads, Wants, InBlock
  <2>7. doing' = "results" => rq.mode # "forged"
    BY <1>1, <1>5, DriverMoves DEF Leads
  <2>8. StrobeInv'
    <3>1. \/ strobe' = {}
          \/ strobe' = {rq.core} /\ doing' = "poll"
          \/ strobe' \in {{"ad_ack"}, {"msg_ack"}} /\ doing \in InBlock /\ doing' = "poll"
      BY <1>5, DriverMoves DEF Leads, InBlock
    <3>2. doing \in InBlock => rq.core = "gc" BY <1>1, <2>1, PlannedRequest
    <3>. QED BY <2>1, <2>2, <3>1, <3>2 DEF StrobeInv
  <2>9. 0 \in 0 .. MinGap BY <1>2
  <2>. QED BY <1>1, <2>1, <2>2, <2>4, <2>5, <2>6, <2>7, <2>8, <2>9 DEF PlaceInv
<1>. QED BY <1>3, <1>4, <1>5

\* No access, and no judgement, comes in the clock of a strobe.
LEMMA NoStrobe ==
  ASSUME CoresInv, Access
  PROVE  strobe = {}
<1>1. strobe # {} => doing = "poll" /\ gap = 0 BY DEF CoresInv, StrobeInv
<1>2. CASE Judge BY <1>1, <1>2 DEF Judge, Doing
<1>3. CASE ~Judge BY <1>1, <1>3, DriverMoves, GapAssumption
<1>. QED BY <1>2, <1>3

\* What the registers are written with, if they are.
LEMMA RegsWritten ==
  ASSUME Access \/ Idle
  PROVE  \/ regs' = regs /\ (doing = "start" => doing' = doing)
         \/ doing = "load" /\ \E name, w, value : regs' = [regs EXCEPT ![rq.core][name][w] = value]
         \/ doing = "ad block" /\ WriteInput("ad", 2)
         \/ doing = "msg block" /\ WriteInput("data", 2)
         \/ doing = "start" /\ regs' = [regs EXCEPT ![rq.core].mode = Mode(rq),
                                                    ![rq.core].ads = Blocks(rq.case),
                                                    ![rq.core].msgs = Blocks(rq.case)]
<1> USE DEF Doing
<1>1. CASE Load BY <1>1 DEF Load, WriteInput, WriteWord
<1>2. CASE Start BY <1>2 DEF Start, WriteCtrl, Mode
<1>3. CASE AdBlock BY <1>3 DEF AdBlock
<1>4. CASE MsgBlock BY <1>4 DEF MsgBlock
<1>5. CASE Idle \/ Poll \/ SaveBlock \/ ReadResults \/ ReadValid \/ Judge
  BY <1>5 DEF Idle, Poll, SaveBlock, ReadResults, ReadValid, Judge, NoWrite
<1>6. CASE AckAd \/ AckMsg BY <1>6 DEF AckAd, AckMsg, WriteAck
<1>. QED BY <1>1, <1>2, <1>3, <1>4, <1>5, <1>6 DEF Access

\* Only a start changes what a core has been told, and no write changes the shapes.
LEMMA StepRegs ==
  ASSUME CoresInv, Access \/ Idle, NEW c \in Cores
  PROVE  /\ DOMAIN regs' = Cores /\ DOMAIN regs'[c] = RegFields
         /\ \A name \in RegWords : DOMAIN regs'[c][name] = 1 .. Words
         /\ doing \notin BeforeStart =>
              /\ regs'[c].mode = regs[c].mode
              /\ regs'[c].ads = regs[c].ads /\ regs'[c].msgs = regs[c].msgs
         /\ doing = "start" /\ doing' # "start" /\ c = rq.core =>
              /\ regs'[c].mode = Mode(rq)
              /\ regs'[c].ads = Blocks(rq.case) /\ regs'[c].msgs = Blocks(rq.case)
<1>1. /\ DOMAIN regs = Cores /\ DOMAIN regs[c] = RegFields
      /\ \A name \in RegWords : DOMAIN regs[c][name] = 1 .. Words
  BY DEF CoresInv, Shapes
<1>2. CASE regs' = regs /\ (doing = "start" => doing' = doing)
  BY <1>1, <1>2
<1>3. ASSUME NEW d, NEW field, NEW w, NEW value, regs' = [regs EXCEPT ![d][field][w] = value]
      PROVE  /\ DOMAIN regs' = Cores /\ DOMAIN regs'[c] = RegFields
             /\ \A name \in RegWords : DOMAIN regs'[c][name] = 1 .. Words
             /\ \A name \in RegFields \ {field} : regs'[c][name] = regs[c][name]
  BY <1>1, <1>3 DEF RegFields
<1>4. {"mode", "ads", "msgs"} \subseteq RegFields \ {"ad"} /\ {"mode", "ads", "msgs"} \subseteq RegFields \ {"data"}
  BY DEF RegFields
<1>5. "load" \in BeforeStart /\ "start" \in BeforeStart BY DEF BeforeStart
<1>6. CASE doing = "load" /\ \E name, w, value : regs' = [regs EXCEPT ![rq.core][name][w] = value]
  <2>1. PICK name, w, value : regs' = [regs EXCEPT ![rq.core][name][w] = value] BY <1>6
  <2>2. /\ DOMAIN regs' = Cores /\ DOMAIN regs'[c] = RegFields
        /\ \A word \in RegWords : DOMAIN regs'[c][word] = 1 .. Words
    BY <1>3, <2>1
  <2>. QED BY <1>5, <1>6, <2>2
<1>7. CASE doing = "ad block" /\ WriteInput("ad", 2)
  BY <1>3, <1>4, <1>7 DEF WriteInput, WriteWord
<1>8. CASE doing = "msg block" /\ WriteInput("data", 2)
  BY <1>3, <1>4, <1>8 DEF WriteInput, WriteWord
<1>9. CASE doing = "start" /\ regs' = [regs EXCEPT ![rq.core].mode = Mode(rq),
                                                 ![rq.core].ads = Blocks(rq.case),
                                                 ![rq.core].msgs = Blocks(rq.case)]
  BY <1>1, <1>5, <1>9 DEF RegFields, RegWords
<1>. QED BY <1>2, <1>6, <1>7, <1>8, <1>9, RegsWritten

LEMMA StepShapes == CoresInv /\ Hardware /\ (Access \/ Idle) => Shapes'
<1> SUFFICES ASSUME CoresInv, Hardware, Access \/ Idle PROVE Shapes' OBVIOUS
<1>1. DOMAIN regs' = Cores BY StepRegs DEF Cores
<1>2. ASSUME NEW c \in Cores
      PROVE  /\ DOMAIN core'[c] = CoreFields /\ InShape(core'[c].in)
             /\ DOMAIN regs'[c] = RegFields
             /\ \A name \in RegWords : DOMAIN regs'[c][name] = 1 .. Words
  BY <1>2, CoreTypes, StepRegs
<1>. QED BY <1>1, <1>2 DEF Shapes, InShape, IsList

LEMMA StepRest ==
  ASSUME CoresInv, Hardware, Access \/ Idle
  PROVE  RestInv'
<1> SUFFICES ASSUME NEW c \in Cores, c \in strobe' \/ doing' \in BeforeStart \cup AfterDone \/ c # rq'.core
             PROVE  core'[c].state = "IDLE" /\ ~core'[c].done
  BY DEF RestInv
<1>1. /\ strobe # {} => /\ doing = "poll" /\ gap = 0
                        /\ strobe = {rq.core} \/ strobe \in {{"ad_ack"}, {"msg_ack"}}
      /\ doing \in BeforeStart \cup AfterDone \/ c # rq.core => core[c].state = "IDLE"
      /\ sticky[c].done => core[c].state = "IDLE"
  BY DEF CoresInv, StrobeInv, RestInv, DoneInv
<1>2. c \notin {"ad_ack", "msg_ack"} BY DEF Cores
<1>3. "poll" \notin BeforeStart \cup AfterDone BY DEF BeforeStart, AfterDone
<1>4. core[c].state = "IDLE" /\ c \notin strobe
  <2>1. CASE Idle
    <3>1. rq' = rq /\ doing' = doing /\ strobe' = {} BY <2>1 DEF Idle, NoWrite, rq
    <3>. QED BY <1>1, <1>2, <1>3, <3>1
  <2>2. CASE Judge
    <3>1. doing = "judge" BY <2>2 DEF Judge, Doing
    <3>2. doing \in AfterDone BY <3>1 DEF AfterDone
    <3>. QED BY <1>1, <2>2, <3>2, NoStrobe DEF Access
  <2>3. CASE Access /\ ~Judge
    <3>1. strobe = {} /\ rq' = rq BY <2>3, NoStrobe, DriverMoves DEF rq
    <3>2. c \in strobe' => doing \in BeforeStart
      BY <1>2, <2>3, DriverMoves DEF Leads, BeforeStart
    <3>3. doing' \in BeforeStart => doing \in BeforeStart
      BY <2>3, DriverMoves DEF Leads, BeforeStart
    <3>4. doing' \in AfterDone => doing \in AfterDone \/ sticky[rq.core].done
      BY <2>3, DriverMoves DEF Leads, AfterDone
    <3>. QED BY <1>1, <3>1, <3>2, <3>3, <3>4
  <2>. QED BY <2>1, <2>2, <2>3
<1>. QED BY <1>4, CoreRests

\* A request that the driver sees stands, since the line has had the time to fall.
LEMMA StepRequest ==
  ASSUME CoresInv, Hardware, Access \/ Idle
  PROVE  RequestInv'
<1> DEFINE state == core["gc"].state  state_next == core'["gc"].state
           adServed == doing \in {"ad block", "ack ad"}
           msgServed == doing \in {"save block", "msg block", "ack msg"}
<1>1. /\ core["gc"].ad_req => state = "REQ_AD" \/ (doing = "poll" /\ gap <= 1)
      /\ core["gc"].msg_req => state = "REQ_MSG" \/ (doing = "poll" /\ gap <= 1)
      /\ adServed \/ "ad_ack" \in strobe => state = "REQ_AD"
      /\ msgServed \/ "msg_ack" \in strobe => state = "REQ_MSG"
      /\ strobe # {} => doing = "poll" /\ gap = 0
  BY DEF CoresInv, RequestInv, StrobeInv
<1>2. MinGap \in Nat \ {0, 1} BY GapAssumption
<1>3. /\ state = "REQ_AD" /\ "ad_ack" \notin strobe => state_next = "REQ_AD"
      /\ state = "REQ_MSG" /\ "msg_ack" \notin strobe => state_next = "REQ_MSG"
  BY RequestStands
<1>4. strobe # {} => doing' = "poll" /\ gap' <= 1
  <2> SUFFICES ASSUME strobe # {} PROVE doing' = "poll" /\ gap' <= 1 OBVIOUS
  <2>1. Idle BY NoStrobe
  <2>2. doing' = doing /\ gap' = IF gap < MinGap THEN gap + 1 ELSE gap BY <2>1 DEF Idle
  <2>3. doing = "poll" /\ gap = 0 BY <1>1
  <2>4. gap' = 1 BY <1>2, <2>2, <2>3
  <2>. QED BY <2>2, <2>3, <2>4
<1>5. /\ core'["gc"].ad_req => state_next = "REQ_AD" \/ (doing' = "poll" /\ gap' <= 1)
      /\ core'["gc"].msg_req => state_next = "REQ_MSG" \/ (doing' = "poll" /\ gap' <= 1)
  <2>1. /\ core'["gc"].ad_req = (state = "REQ_AD")
        /\ core'["gc"].msg_req = (state = "REQ_MSG")
    BY HardwareMoves
  <2>2. state = "REQ_AD" => state_next = "REQ_AD" \/ (doing' = "poll" /\ gap' <= 1)
    BY <1>3, <1>4
  <2>3. state = "REQ_MSG" => state_next = "REQ_MSG" \/ (doing' = "poll" /\ gap' <= 1)
    BY <1>3, <1>4
  <2>. QED BY <2>1, <2>2, <2>3
<1>6. /\ adServed' \/ "ad_ack" \in strobe' => state = "REQ_AD" /\ strobe = {}
      /\ msgServed' \/ "msg_ack" \in strobe' => state = "REQ_MSG" /\ strobe = {}
  <2>1. CASE Idle
    <3>1. doing' = doing /\ strobe' = {} BY <2>1 DEF Idle, NoWrite
    <3>. QED BY <1>1, <3>1
  <2>2. CASE Judge BY <2>2 DEF Judge, NoWrite, Then
  <2>3. CASE Access /\ ~Judge
    <3>1. strobe = {} BY <2>3, NoStrobe
    <3>2. Testing /\ gap = MinGap BY <2>3, DriverMoves
    <3>3. rq.core \notin {"ad_ack", "msg_ack"} BY <3>2, PlannedRequest DEF Cores
    <3>4. /\ Wants("ad_req") => state = "REQ_AD"
          /\ Wants("msg_req") => state = "REQ_MSG"
      <4>1. ~(gap <= 1) BY <1>2, <3>2
      <4>. QED BY <1>1, <4>1 DEF Wants
    <3>5. /\ adServed' => adServed \/ Wants("ad_req")
          /\ msgServed' => msgServed \/ Wants("msg_req")
      BY <2>3, DriverMoves DEF Leads, Wants
    <3>6. /\ "ad_ack" \in strobe' => adServed
          /\ "msg_ack" \in strobe' => msgServed
      BY <2>3, <3>3, DriverMoves DEF Leads
    <3>. QED BY <1>1, <3>1, <3>4, <3>5, <3>6
  <2>. QED BY <2>1, <2>2, <2>3
<1>. QED BY <1>3, <1>5, <1>6 DEF RequestInv

-------------------------------------------------------------------------------
(* The second block *)

LEMMA SameSource ==
  ASSUME at' = at, got' = got, NEW name, NEW w
  PROVE  Source(rq, name, 2, w)' = Source(rq, name, 2, w)
  BY DEF Source, DataSource, TagSource, rq

\* One more word, and on to what comes behind the last.
LEMMA WordWritten ==
  ASSUME CoresInv, Testing, Blocks(rq.case) = 2, NEW name \in {"ad", "data"}, NEW what,
         item \in 1 .. Words, Written(name, item - 1),
         WriteInput(name, 2), Through(<<name>>, what), at' = at, got' = got
  PROVE  \/ doing' = what /\ Written(name, Words)'
         \/ doing' = doing /\ item' \in 1 .. Words /\ Written(name, item - 1)'
<1>1. rq.core = "gc" /\ Words \in Nat \ {0} BY PlannedRequest, CoresAssumption
<1>2. Word = item BY <1>1 DEF Word
<1>3. regs' = [regs EXCEPT !["gc"][name][item] = Source(rq, name, 2, item)]
  BY <1>1, <1>2 DEF WriteInput, WriteWord
<1>4. "gc" \in DOMAIN regs /\ name \in DOMAIN regs["gc"] /\ DOMAIN regs["gc"][name] = 1 .. Words
  BY DEF CoresInv, Shapes, Cores, RegFields, RegWords
<1>5. \A w \in 1 .. item : regs'["gc"][name][w] = Source(rq, name, 2, w)
  <2>1. regs'["gc"][name] = [regs["gc"][name] EXCEPT ![item] = Source(rq, name, 2, item)]
    BY <1>3, <1>4
  <2> SUFFICES ASSUME NEW w \in 1 .. item
               PROVE  regs'["gc"][name][w] = Source(rq, name, 2, w)
    OBVIOUS
  <2>2. CASE w = item BY <1>4, <2>1, <2>2
  <2>3. CASE w # item
    <3>1. w \in 1 .. item - 1 BY <2>3
    <3>. QED BY <1>4, <2>1, <2>3, <3>1 DEF Written
  <2>. QED BY <2>2, <2>3
<1>6. \A w \in 1 .. item : regs'["gc"][name][w] = Source(rq, name, 2, w)'
  BY <1>5, SameSource
<1>7. CASE item = Words BY <1>1, <1>6, <1>7 DEF Through, LastOf, Then, Written
<1>8. CASE item # Words
  <2>1. item' = item + 1 /\ doing' = doing BY <1>1, <1>8 DEF Through, LastOf
  <2>2. item' \in 1 .. Words /\ item' - 1 = item BY <1>1, <1>8, <2>1
  <2>. QED BY <1>6, <2>1, <2>2 DEF Written
<1>. QED BY <1>7, <1>8

LEMMA StepBlock ==
  ASSUME CoresInv, Access \/ Idle
  PROVE  BlockInv'
<1>1. /\ doing \in {"ad block", "msg block"} => item \in 1 .. Words
      /\ doing = "ad block" => Written("ad", item - 1)
      /\ doing = "msg block" => Written("data", item - 1)
      /\ doing = "ack ad" => Written("ad", Words)
      /\ doing = "ack msg" => Written("data", Words)
      /\ doing \in InBlock => Blocks(rq.case) = 2
  BY DEF CoresInv, BlockInv, PlaceInv
<1>2. Words \in Nat \ {0} BY CoresAssumption
<1>3. CASE Idle
  <2>1. /\ regs' = regs /\ strobe' = {} /\ doing' = doing /\ item' = item
        /\ at' = at /\ got' = got
    BY <1>3 DEF Idle, NoWrite
  <2>2. \A name, upto : Written(name, upto) => \A w \in 1 .. upto : regs'["gc"][name][w] = Source(rq, name, 2, w)'
    BY <2>1, SameSource DEF Written
  <2>. QED BY <1>1, <2>1, <2>2 DEF BlockInv, Written
<1>4. CASE Judge BY <1>4 DEF Judge, NoWrite, Then, BlockInv
<1>5. CASE AdBlock
  <2>1. /\ doing = "ad block" /\ Testing /\ strobe' = {} /\ at' = at /\ got' = got
        /\ WriteInput("ad", 2) /\ Through(<<"ad">>, "ack ad")
    BY <1>5 DEF AdBlock, Doing, KeepPlan, WriteInput, WriteWord
  <2>2. \/ doing' = "ack ad" /\ Written("ad", Words)'
        \/ doing' = doing /\ item' \in 1 .. Words /\ Written("ad", item - 1)'
    BY <1>1, <2>1, WordWritten DEF InBlock
  <2>. QED BY <2>1, <2>2 DEF BlockInv
<1>6. CASE MsgBlock
  <2>1. /\ doing = "msg block" /\ Testing /\ strobe' = {} /\ at' = at /\ got' = got
        /\ WriteInput("data", 2) /\ Through(<<"data">>, "ack msg")
    BY <1>6 DEF MsgBlock, Doing, KeepPlan, WriteInput, WriteWord
  <2>2. \/ doing' = "ack msg" /\ Written("data", Words)'
        \/ doing' = doing /\ item' \in 1 .. Words /\ Written("data", item - 1)'
    BY <1>1, <2>1, WordWritten DEF InBlock
  <2>. QED BY <2>1, <2>2 DEF BlockInv
<1>7. CASE AckAd \/ AckMsg
  <2>1. /\ doing' = "poll" /\ regs' = regs /\ at' = at /\ got' = got
        /\ \/ doing = "ack ad" /\ strobe' = {"ad_ack"}
           \/ doing = "ack msg" /\ strobe' = {"msg_ack"}
    BY <1>7 DEF AckAd, AckMsg, Doing, WriteAck, Then, KeepPlan
  <2>2. \A name, upto : Written(name, upto) => \A w \in 1 .. upto : regs'["gc"][name][w] = Source(rq, name, 2, w)'
    BY <2>1, SameSource DEF Written
  <2>. QED BY <1>1, <2>1, <2>2 DEF BlockInv, Written
<1>8. CASE Access /\ ~Judge /\ ~AdBlock /\ ~MsgBlock /\ ~AckAd /\ ~AckMsg
  <2>1. doing \notin {"ad block", "msg block", "ack ad", "ack msg"}
    BY <1>8 DEF Access, Load, Start, Poll, SaveBlock, ReadResults, ReadValid, Doing
  <2>2. Testing BY <1>8, DriverMoves
  <2>3. rq.core \notin {"ad_ack", "msg_ack"} BY <2>2, PlannedRequest DEF Cores
  <2>4. doing' \in {"ad block", "msg block"} => item' = 1
    BY <1>8, <2>1, DriverMoves DEF Leads
  <2>5. doing' \notin {"ack ad", "ack msg"} /\ "ad_ack" \notin strobe' /\ "msg_ack" \notin strobe'
    BY <1>8, <2>1, <2>3, DriverMoves DEF Leads
  <2>6. doing' \in {"ad block", "msg block"} => item' \in 1 .. Words /\ 1 .. item' - 1 = {}
    <3>1. 1 \in 1 .. Words /\ 1 .. 1 - 1 = {} BY <1>2
    <3>. QED BY <2>4, <3>1
  <2>. QED BY <2>5, <2>6 DEF BlockInv, Written
<1>. QED BY <1>3, <1>4, <1>5, <1>6, <1>7, <1>8

LEMMA StepTold ==
  ASSUME CoresInv, Hardware, Access \/ Idle
  PROVE  TakenInv'
<1>1. \A c \in Cores : core'[c].state \in States[c] BY CoreTypes
<1> SUFFICES ASSUME doing' \notin BeforeStart
             PROVE  /\ regs'[rq'.core].mode = Mode(rq)'
                    /\ regs'[rq'.core].ads = Blocks(rq'.case)
                    /\ regs'[rq'.core].msgs = Blocks(rq'.case)
                    /\ rq'.core \notin strobe' =>
                         core'[rq'.core].in.mode = Mode(rq)' /\ TakenIn(rq.core, Blocks(rq.case))'
  BY <1>1 DEF TakenInv, Blocks
<1>2. ~Judge BY DEF Judge, Then, BeforeStart
<1>3. at' = at BY <1>2, DriverMoves DEF Idle
<1>4. rq' = rq /\ Mode(rq)' = Mode(rq) BY <1>3 DEF rq, Mode
<1>5. Testing
  <2>1. ~Testing => doing = "load" BY DEF CoresInv, PlaceInv
  <2>2. CASE Idle BY <2>1, <2>2 DEF Idle, BeforeStart
  <2>3. CASE Access BY <1>2, <2>3, DriverMoves
  <2>. QED BY <2>2, <2>3
<1>6. PICK c, blocks : c \in Cores /\ c = rq.core /\ blocks = Blocks(rq.case)
  BY <1>5, PlannedRequest
<1>7. CASE doing \notin BeforeStart
  <2>1. /\ regs[c].mode = Mode(rq) /\ regs[c].ads = blocks /\ regs[c].msgs = blocks
    BY <1>6, <1>7 DEF CoresInv, TakenInv
  <2>2. /\ regs'[c].mode = regs[c].mode
        /\ regs'[c].ads = regs[c].ads /\ regs'[c].msgs = regs[c].msgs
    BY <1>6, <1>7, StepRegs
  <2>3. core'[c].in.mode = Mode(rq) /\ TakenIn(c, blocks)' BY <1>6, <1>7, StepTaken
  <2>4. TakenIn(rq.core, Blocks(rq.case))'
    BY <1>4, <1>6, <2>3 DEF TakenIn, Ads, Msgs, Blocks
  <2>. QED BY <1>4, <1>6, <2>1, <2>2, <2>3, <2>4
<1>8. CASE doing \in BeforeStart
  <2>1. ~Idle BY <1>8 DEF Idle
  <2>2. doing = "start" /\ doing' = "poll" /\ strobe' = {rq.core}
    BY <1>2, <1>8, <2>1, DriverMoves DEF Leads, BeforeStart
  <2>3. /\ regs'[c].mode = Mode(rq) /\ regs'[c].ads = blocks /\ regs'[c].msgs = blocks
    BY <1>6, <2>2, StepRegs
  <2>. QED BY <1>4, <1>6, <2>2, <2>3
<1>. QED BY <1>7, <1>8

-------------------------------------------------------------------------------
(* What the tests of the cores do not see *)

\* Nothing that the driver knows is changed by the SD card test and the report.
LEMMA OthersLeaveCores ==
  ASSUME CoresInv, UNCHANGED <<hwVars, at, doing, item, got, gap>>
  PROVE  CoresInv'
<1>1. /\ regs' = regs /\ strobe' = strobe /\ core' = core /\ sticky' = sticky
      /\ at' = at /\ doing' = doing /\ item' = item /\ got' = got /\ gap' = gap
  BY DEF hwVars
<1>2. rq' = rq /\ Testing' = Testing BY <1>1 DEF rq, Testing
<1>3. Shapes' BY <1>1 DEF CoresInv, Shapes
<1>4. PlaceInv' BY <1>1, <1>2 DEF CoresInv, PlaceInv
<1>5. StrobeInv' /\ DoneInv' /\ RestInv' /\ RequestInv'
  BY <1>1, <1>2 DEF CoresInv, StrobeInv, DoneInv, RestInv, RequestInv
<1>6. BlockInv'
  <2>1. \A name, w : Source(rq, name, 2, w)' = Source(rq, name, 2, w) BY <1>1, SameSource
  <2>. QED BY <1>1, <2>1 DEF CoresInv, BlockInv, Written
<1>7. TakenInv'
  BY <1>1, <1>2 DEF CoresInv, TakenInv, TakenIn, Ads, Msgs, Mode, Blocks
<1>. QED BY <1>3, <1>4, <1>5, <1>6, <1>7 DEF CoresInv

LEMMA BeginLeavesCores ==
  ASSUME CoresInv, Begin
  PROVE  CoresInv'
<1>1. /\ regs' = regs /\ strobe' = strobe /\ core' = core /\ sticky' = sticky
      /\ at = 0 /\ at' = 1 /\ doing' = doing /\ item' = item /\ gap' = gap
  BY DEF Begin, hwVars
<1>2. doing = "load" /\ strobe = {}
  <2>1. ~Testing BY <1>1 DEF Testing
  <2>. QED BY <2>1 DEF CoresInv, PlaceInv, StrobeInv
<1>3. "load" \in BeforeStart /\ "load" \notin InBlock BY DEF BeforeStart, InBlock
<1>4. Shapes' BY <1>1 DEF CoresInv, Shapes
<1>5. PlaceInv'
  <2>1. 1 \in 0 .. Len(Plan) + 1 BY PlanLength
  <2>. QED BY <1>1, <1>2, <1>3, <2>1 DEF CoresInv, PlaceInv
<1>6. StrobeInv' /\ DoneInv' BY <1>1, <1>2 DEF CoresInv, StrobeInv, DoneInv
<1>7. RestInv' BY <1>1, <1>2, <1>3 DEF CoresInv, RestInv
<1>8. RequestInv' BY <1>1, <1>2 DEF CoresInv, RequestInv
<1>9. BlockInv' BY <1>1, <1>2 DEF BlockInv
<1>10. TakenInv' BY <1>1, <1>2, <1>3 DEF CoresInv, TakenInv
<1>. QED BY <1>4, <1>5, <1>6, <1>7, <1>8, <1>9, <1>10 DEF CoresInv

LEMMA CoresAtRest == Init => CoresInv
<1> SUFFICES ASSUME Init PROVE CoresInv OBVIOUS
<1>1. HwInit /\ at = 0 /\ doing = "load" /\ item = 1 /\ gap = MinGap
  BY DEF Init, AeadInit
<1>2. strobe = {} /\ "load" \in BeforeStart /\ "load" \notin InBlock
  BY <1>1 DEF HwInit, BeforeStart, InBlock
<1>3. ASSUME NEW c \in Cores
      PROVE  /\ DOMAIN core[c] = CoreFields /\ DOMAIN core[c].in = InFields
             /\ core[c].in.ads = <<>> /\ core[c].in.msgs = <<>>
             /\ core[c].state = "IDLE" /\ ~core[c].done
             /\ ~core[c].ad_req /\ ~core[c].msg_req /\ ~sticky[c].done
  BY <1>1 DEF HwInit, CoreFields, InFields
<1>4. /\ DOMAIN regs = Cores
      /\ \A c \in Cores : /\ DOMAIN regs[c] = RegFields
                          /\ \A name \in RegWords : DOMAIN regs[c][name] = 1 .. Words
  BY <1>1 DEF HwInit, RegFields, RegWords, Spread
<1>5. Shapes BY <1>3, <1>4, EmptyList DEF Shapes
<1>6. PlaceInv
  <2>1. at \in 0 .. Len(Plan) + 1 BY <1>1, PlanLength
  <2>2. gap \in 0 .. MinGap BY <1>1, GapAssumption
  <2>. QED BY <1>1, <1>2, <2>1, <2>2 DEF PlaceInv
<1>7. StrobeInv /\ DoneInv /\ RestInv /\ RequestInv
  BY <1>1, <1>2, <1>3 DEF StrobeInv, DoneInv, RestInv, RequestInv, Cores
<1>8. BlockInv BY <1>1, <1>2 DEF BlockInv
<1>9. TakenInv BY <1>1, <1>2, <1>3 DEF TakenInv, States, Cores
<1>. QED BY <1>5, <1>6, <1>7, <1>8, <1>9 DEF CoresInv

LEMMA StepCores == CoresInv /\ [Next]_vars => CoresInv'
<1> SUFFICES ASSUME CoresInv, [Next]_vars PROVE CoresInv' OBVIOUS
<1>1. CASE Aead
  <2>1. Hardware /\ (Access \/ Idle) BY <1>1 DEF Aead, AeadClock
  <2>. QED
    BY <2>1, StepShapes, StepPlace, StepDone, StepRest, StepRequest, StepBlock, StepTold
    DEF CoresInv
<1>2. CASE Begin BY <1>2, BeginLeavesCores
<1>3. CASE Sd \/ Report \/ UNCHANGED vars
  BY <1>3, OthersLeaveCores DEF Sd, Report, vars, aeadVars, driverVars
<1>. QED BY <1>1, <1>2, <1>3 DEF Next

-------------------------------------------------------------------------------
(* Theorems about the tests of the cores *)

\* The invariant of the driver and the three cores, for values of any width and
\* permutations of any length.
THEOREM CoresInvariant == Spec => []CoresInv
  BY CoresAtRest, StepCores, PTL DEF Spec

\* A start finds its core at rest, and an acknowledgement finds GIFT-COFB waiting for
\* the block it announces, with every word of that block in the register.
THEOREM StrobesAreNotLost == Spec => []StrobesLand
<1>1. ASSUME CoresInv PROVE StrobesLand
  <2>1. \A c \in Cores \cap strobe : core[c].state = "IDLE"
    BY <1>1 DEF CoresInv, RestInv
  <2>2. "ad_ack" \in strobe => core["gc"].state = "REQ_AD" /\ Holds("ad")
    BY <1>1 DEF CoresInv, RequestInv, BlockInv, Written, Holds
  <2>3. "msg_ack" \in strobe => core["gc"].state = "REQ_MSG" /\ Holds("data")
    BY <1>1 DEF CoresInv, RequestInv, BlockInv, Written, Holds
  <2>. QED BY <2>1, <2>2, <2>3 DEF StrobesLand
<1>. QED BY <1>1, CoresInvariant, PTL

\* The words the driver reads are those of its request: the core has taken in all of
\* its blocks, or all but the one it asks for, and does not move while they are read.
THEOREM ResultsAreItsOwn == Spec => []TakesOwnResult
<1>1. ASSUME CoresInv, NEW last \in BOOLEAN, Doing(IF last THEN "results" ELSE "save block")
      PROVE  /\ core[rq.core].state = IF last THEN "IDLE" ELSE "REQ_MSG"
             /\ core[rq.core].in.mode = rq.mode
             /\ Len(core[rq.core].in.msgs) = IF last THEN Blocks(rq.case) ELSE 1
             /\ Len(core[rq.core].in.ads) = Blocks(rq.case)
  <2>1. Testing /\ doing = (IF last THEN "results" ELSE "save block") BY <1>1 DEF Doing
  <2>2. /\ rq.core \in Cores /\ rq.mode \in {"enc", "dec", "forged"}
        /\ (rq.mode = "forged" => rq.core = "jb")
        /\ Blocks(rq.case) \in {1, 2} /\ (Blocks(rq.case) = 2 => rq.core = "gc")
    BY <2>1, PlannedRequest
  <2>3. strobe = {} /\ doing \notin BeforeStart
    BY <1>1, <2>1 DEF CoresInv, StrobeInv, BeforeStart
  <2>4. core[rq.core].in.mode = Mode(rq) /\ TakenIn(rq.core, Blocks(rq.case))
    BY <1>1, <2>3 DEF CoresInv, TakenInv
  <2>5. CASE last
    <3>1. doing \in AfterDone /\ rq.mode # "forged"
      BY <1>1, <2>1, <2>5 DEF CoresInv, PlaceInv, AfterDone
    <3>2. core[rq.core].state = "IDLE" BY <1>1, <2>2, <3>1 DEF CoresInv, RestInv
    <3>. QED BY <2>2, <2>4, <2>5, <3>1, <3>2 DEF Mode, TakenIn, Ads, Msgs
  <2>6. CASE ~last
    <3>1. Blocks(rq.case) = 2 /\ rq.core = "gc"
      BY <1>1, <2>1, <2>2, <2>6 DEF CoresInv, PlaceInv, InBlock
    <3>2. core["gc"].state = "REQ_MSG" BY <1>1, <2>1, <2>6 DEF CoresInv, RequestInv
    <3>3. Msgs("gc") \in 1 .. 2 - 1 /\ Ads("gc") = 2 BY <2>4, <3>1, <3>2 DEF TakenIn
    <3>. QED BY <2>2, <2>4, <2>6, <3>1, <3>2, <3>3 DEF Mode, Ads, Msgs
  <2>. QED BY <2>5, <2>6
<1>2. CoresInv => TakesOwnResult BY <1>1 DEF TakesOwnResult
<1>. QED BY <1>2, CoresInvariant, PTL

-------------------------------------------------------------------------------
(* The values that go through the cores *)

Sound(c) == fault[1] # c

\* What a request feeds its core with, and what comes out of it if the core is sound.
Given(request, name, block) ==
  CASE name \in {"key", "nonce"} -> <<request.case, name>>
    [] name = "ad" -> <<request.case, Part["ad"][block]>>
    [] name = "data" ->
         IF request.mode = "forged" THEN <<request.case, "other ct">>
         ELSE <<request.case, Part[IF request.mode = "enc" THEN "pt" ELSE "ct"][block]>>
    [] name = "tag" ->
         CASE request.mode = "enc" -> Zero
           [] request.mode = "dec" -> <<request.case, "tag">>
           [] request.mode = "forged" -> <<request.case, "other tag">>
OutName(request, block) == Part[IF request.mode = "enc" THEN "ct" ELSE "pt"][block]
Yields(request, block) == <<request.case, OutName(request, block)>>

\* The core of the request has seen its start.
Started == doing \notin BeforeStart /\ rq.core \notin strobe

\* Which words are before the next item of a list.
Quot == (item - 1) \div Words
Before(e, w) == e <= Quot \/ (e = Quot + 1 /\ w < Word)

\* The driver's arrays are whole, and before it decrypts they hold the ciphertext and
\* the tag of the case, as a sound core has returned them for the request before.
Names == {"ct1", "ct2", "pt1", "pt2", "tag"}
GotInv ==
  /\ DOMAIN got = Names /\ \A name \in Names : got[name] = [w \in 1 .. Words |-> got[name][w]]
  /\ Testing /\ Sound(rq.core) /\ rq.mode = "dec" =>
       /\ \A i \in 1 .. Blocks(rq.case) : got[Part["ct"][i]] = Spread(<<rq.case, Part["ct"][i]>>)
       /\ got["tag"] = Spread(<<rq.case, "tag">>)

\* The registers of the request's core: the words loaded so far, then all of them, the
\* first blocks until they are taken in and the second ones from their acknowledgement.
Put(name, block) == \A w \in 1 .. Words : regs[rq.core][name][w] = Given(rq, name, block)
RegsInv ==
  Testing /\ Sound(rq.core) =>
    /\ doing = "load" =>
         /\ item \in 1 .. Len(Inputs(rq)) * Words
         /\ \A e \in 1 .. Len(Inputs(rq)), w \in 1 .. Words :
              Before(e, w) => regs[rq.core][Inputs(rq)[e]][w] = Given(rq, Inputs(rq)[e], 1)
    /\ doing # "load" => /\ Put("key", 1) /\ Put("nonce", 1)
                         /\ rq.mode # "enc" => Put("tag", 1)
    /\ doing = "start" \/ rq.core \in strobe \/ (Started /\ Ads(rq.core) = 0) => Put("ad", 1)
    /\ doing = "start" \/ rq.core \in strobe \/ (Started /\ Msgs(rq.core) = 0) => Put("data", 1)
    /\ Started /\ core[rq.core].state = "PROC_AD" /\ Ads(rq.core) = 1 => Put("ad", 2)
    /\ Started /\ core[rq.core].state = "PROC_MSG" /\ Msgs(rq.core) = 1 => Put("data", 2)

\* What a sound core has taken in is what the request gives.
FedInv ==
  Testing /\ Started /\ Sound(rq.core) =>
    LET in == core[rq.core].in
    IN  /\ in.keys = {<<rq.case, "key">>} /\ in.nonce = <<rq.case, "nonce">>
        /\ rq.mode # "enc" => in.tag = Given(rq, "tag", 1)
        /\ \A i \in 1 .. Ads(rq.core) : in.ads[i] = Given(rq, "ad", i)
        /\ \A i \in 1 .. Msgs(rq.core) : in.msgs[i] = Given(rq, "data", i)
        /\ core[rq.core].state = "REQ_AD" => Ads(rq.core) # 0

\* What it shows: the block of output it holds, and at the end the tag.
OutStates == [jb |-> {"DONE", "IDLE"}, xd |-> {"IDLE"}, gc |-> {"WAIT_MSG", "REQ_MSG", "DONE", "IDLE"}]
TagStates == [jb |-> {"DONE", "IDLE"}, xd |-> {"IDLE"}, gc |-> {"DONE", "IDLE"}]
ResultInv ==
  Testing /\ Started /\ Sound(rq.core) /\ rq.mode # "forged" =>
    /\ core[rq.core].state \in OutStates[rq.core] => core[rq.core].out = Yields(rq, Msgs(rq.core))
    /\ core[rq.core].state \in TagStates[rq.core] => core[rq.core].tag = <<rq.case, "tag">>

\* A core with a defect in its output, or in its tag, never shows the right one.
BrokenInv ==
  \A c \in Cores : /\ Faulty(c, "out") => core[c].out \in {Junk, Zero}
                   /\ Faulty(c, "tag") => core[c].tag \in {Junk, Zero}

\* The valid bit, from the core to the register to the driver: whether the tag matches,
\* unless the defect is in the comparison.
Accepts == IF Sound(rq.core) THEN rq.mode = "dec" ELSE fault[2] = "accepts"
ValidInv ==
  Testing /\ Started =>
    /\ doing \in AfterDone => sticky[rq.core].done
    /\ rq.mode # "enc" /\ (Sound(rq.core) \/ fault[2] \in {"rejects", "accepts"}) =>
         /\ core[rq.core].done \/ (rq.core = "jb" /\ core["jb"].state = "DONE")
              => (core[rq.core].valid <=> Accepts)
         /\ sticky[rq.core].done => (sticky[rq.core].valid <=> Accepts)
         /\ doing = "judge" => (status <=> Accepts)

\* What the driver has read: the first block before the core goes on to the second, then
\* the results, word by word, as the core holds them.
Saved ==
  \/ doing \in {"msg block", "ack msg"}
  \/ "msg_ack" \in strobe
  \/ Started /\ (Msgs(rq.core) = 2 \/ (core[rq.core].state = "PROC_MSG" /\ Msgs(rq.core) = 1))
Held(name) == IF name = "tag" THEN core[rq.core].tag ELSE core[rq.core].out
ReadInv ==
  Testing =>
    /\ doing = "save block" =>
         /\ item \in 1 .. Words
         /\ Sound(rq.core) =>
              \A w \in 1 .. item - 1 : got[OutName(rq, 1)][w] = Yields(rq, 1)
    /\ Blocks(rq.case) = 2 /\ Sound(rq.core) /\ Saved => got[OutName(rq, 1)] = Spread(Yields(rq, 1))
    /\ LET list == OutputsOf(rq, Blocks(rq.case))
       IN  /\ doing = "results" =>
                /\ item \in 1 .. Len(list) * Words
                /\ \A e \in 1 .. Len(list), w \in 1 .. Words :
                     Before(e, w) => got[list[e]][w] = Held(list[e])
           /\ doing \in {"valid", "judge"} =>
                \A e \in 1 .. Len(list), w \in 1 .. Words : got[list[e]][w] = Held(list[e])

\* Requests whose test cannot but fail on this chip.
Shows(request) ==
  \/ request.mode = "enc" /\ (Faulty(request.core, "out") \/ Faulty(request.core, "tag"))
  \/ request.mode = "dec" /\ Faulty(request.core, "rejects")
  \/ request.mode = "forged" /\ Faulty(request.core, "accepts")
\* Only the defective core is among the failed ones, and it is there as soon as one of
\* its requests shows the defect.
JudgedInv ==
  /\ fault \in Faults /\ failed \subseteq {fault[1]} \cap Cores
  /\ \A i \in 1 .. Len(Plan) : i < at /\ Shows(Plan[i]) => Plan[i].core \in failed
\* The card is tested after the cores, and the verdict shown after the card's test.
OverInv ==
  /\ at = 0 => item = 1
  /\ place # "start" => at = Len(Plan) + 1
  /\ out_byte \in {85, 255} => place = "over"

ValuesInv ==
  /\ GotInv /\ RegsInv /\ FedInv /\ ResultInv /\ BrokenInv /\ ValidInv /\ ReadInv /\ JudgedInv
  /\ OverInv

\* Two lists, one behind the other.
LEMMA Joined ==
  ASSUME NEW S, NEW s \in Seq(S), NEW t \in Seq(S)
  PROVE  /\ s \o t \in Seq(S) /\ Len(s \o t) = Len(s) + Len(t)
         /\ \A i \in 1 .. Len(s) : (s \o t)[i] = s[i]
         /\ \A i \in 1 .. Len(t) : (s \o t)[Len(s) + i] = t[i]
  OBVIOUS

\* A test vector behind a list of requests.
LEMMA PairAdded ==
  ASSUME NEW s \in Seq(Requests),
         NEW c \in {"jb", "xd", "gc"}, NEW case \in Cases[c]
  PROVE  LET t == s \o EncDec(c, case) IN
         /\ t \in Seq(Requests) /\ Len(t) = Len(s) + 2
         /\ \A i \in 1 .. Len(s) : t[i] = s[i]
         /\ t[Len(s) + 1] = Request(c, case, "enc") /\ t[Len(s) + 2] = Request(c, case, "dec")
<1>1. Request(c, case, "enc") \in Requests /\ Request(c, case, "dec") \in Requests
  BY DEF Request, Requests, Cases
<1> DEFINE p == EncDec(c, case)
<1>2. p \in Seq(Requests) /\ Len(p) = 2 /\ p[1] = Request(c, case, "enc") /\ p[2] = Request(c, case, "dec")
  BY <1>1 DEF EncDec
<1> DEFINE t == s \o p
<1> HIDE DEF p
<1>3. p \in Seq(Requests) BY <1>2
<1>4. 1 \in 1 .. Len(p) /\ 2 \in 1 .. Len(p) BY <1>2
<1>5. /\ t \in Seq(Requests) /\ Len(t) = Len(s) + Len(p)
      /\ \A i \in 1 .. Len(s) : t[i] = s[i]
      /\ \A i \in 1 .. Len(p) : t[Len(s) + i] = p[i]
  BY <1>3, Joined
<1> HIDE DEF t
<1>6. t[Len(s) + 1] = p[1] /\ t[Len(s) + 2] = p[2] BY <1>4, <1>5
<1>. QED BY <1>2, <1>5, <1>6 DEF t, p

Asks(i, c, case, mode) == Plan[i] = Request(c, case, mode)
LEMMA PlanIs ==
  /\ Len(Plan) = 15
  /\ Asks(1, "jb", "jb1", "enc") /\ Asks(2, "jb", "jb1", "dec")
  /\ Asks(3, "jb", "jb2", "enc") /\ Asks(4, "jb", "jb2", "dec")
  /\ Asks(5, "jb", "jb3", "enc") /\ Asks(6, "jb", "jb3", "dec")
  /\ Asks(7, "jb", "jb4", "enc") /\ Asks(8, "jb", "jb4", "dec")
  /\ Asks(9, "jb", "jb1", "forged")
  /\ Asks(10, "xd", "xd", "enc") /\ Asks(11, "xd", "xd", "dec")
  /\ Asks(12, "gc", "gcA", "enc") /\ Asks(13, "gc", "gcA", "dec")
  /\ Asks(14, "gc", "gcB", "enc") /\ Asks(15, "gc", "gcB", "dec")
<1> DEFINE s2 == EncDec("jb", "jb1")
           s4 == s2 \o EncDec("jb", "jb2")
           s6 == s4 \o EncDec("jb", "jb3")
           s8 == s6 \o EncDec("jb", "jb4")
           s9 == s8 \o rejects
           s11 == s9 \o EncDec("xd", "xd")
           gA == EncDec("gc", "gcA")
           g4 == gA \o EncDec("gc", "gcB")
           s15 == s11 \o g4
<1>0. /\ "jb1" \in Cases["jb"] /\ "jb2" \in Cases["jb"] /\ "jb3" \in Cases["jb"] /\ "jb4" \in Cases["jb"]
      /\ "xd" \in Cases["xd"] /\ "gcA" \in Cases["gc"] /\ "gcB" \in Cases["gc"]
  BY DEF Cases
<1>1. Plan = s15
  BY DEF Plan, test_tinyjambu, jb_test, test_xoodyak, test_giftcofb, testA, testB
<1>2. ASSUME NEW c \in {"jb", "xd", "gc"}, NEW case \in Cases[c]
      PROVE  /\ EncDec(c, case) \in Seq(Requests) /\ Len(EncDec(c, case)) = 2
             /\ EncDec(c, case)[1] = Request(c, case, "enc") /\ EncDec(c, case)[2] = Request(c, case, "dec")
  <2>1. Request(c, case, "enc") \in Requests /\ Request(c, case, "dec") \in Requests
    BY <1>2 DEF Request, Requests, Cases
  <2>. QED BY <2>1 DEF EncDec
<1>3. /\ s2 \in Seq(Requests) /\ Len(s2) = 2
      /\ s2[1] = Request("jb", "jb1", "enc") /\ s2[2] = Request("jb", "jb1", "dec")
  BY <1>0, <1>2
<1>4. /\ gA \in Seq(Requests) /\ Len(gA) = 2
      /\ gA[1] = Request("gc", "gcA", "enc") /\ gA[2] = Request("gc", "gcA", "dec")
  BY <1>0, <1>2
<1>5. /\ rejects \in Seq(Requests) /\ Len(rejects) = 1 /\ rejects[1] = Request("jb", "jb1", "forged")
  <2>1. Request("jb", "jb1", "forged") \in Requests BY DEF Request, Requests, Cases
  <2>. QED BY <2>1 DEF rejects
<1> HIDE DEF s2, gA
<1>31. s2 \in Seq(Requests) BY <1>3
<1>41. gA \in Seq(Requests) BY <1>4
<1>51. rejects \in Seq(Requests) BY <1>5
<1>6. /\ s4 \in Seq(Requests) /\ Len(s4) = Len(s2) + 2 /\ \A i \in 1 .. Len(s2) : s4[i] = s2[i]
      /\ s4[Len(s2) + 1] = Request("jb", "jb2", "enc") /\ s4[Len(s2) + 2] = Request("jb", "jb2", "dec")
  BY <1>0, <1>31, PairAdded
<1> HIDE DEF s4
<1>61. s4 \in Seq(Requests) BY <1>6
<1>7. /\ s6 \in Seq(Requests) /\ Len(s6) = Len(s4) + 2 /\ \A i \in 1 .. Len(s4) : s6[i] = s4[i]
      /\ s6[Len(s4) + 1] = Request("jb", "jb3", "enc") /\ s6[Len(s4) + 2] = Request("jb", "jb3", "dec")
  BY <1>0, <1>61, PairAdded
<1> HIDE DEF s6
<1>71. s6 \in Seq(Requests) BY <1>7
<1>8. /\ s8 \in Seq(Requests) /\ Len(s8) = Len(s6) + 2 /\ \A i \in 1 .. Len(s6) : s8[i] = s6[i]
      /\ s8[Len(s6) + 1] = Request("jb", "jb4", "enc") /\ s8[Len(s6) + 2] = Request("jb", "jb4", "dec")
  BY <1>0, <1>71, PairAdded
<1> HIDE DEF s8
<1>81. s8 \in Seq(Requests) BY <1>8
<1>9. /\ s9 \in Seq(Requests) /\ Len(s9) = Len(s8) + Len(rejects)
      /\ \A i \in 1 .. Len(s8) : s9[i] = s8[i]
      /\ \A i \in 1 .. Len(rejects) : s9[Len(s8) + i] = rejects[i]
  BY <1>51, <1>81, Joined
<1> HIDE DEF s9
<1>91. s9 \in Seq(Requests) BY <1>9
<1>10. /\ s11 \in Seq(Requests) /\ Len(s11) = Len(s9) + 2 /\ \A i \in 1 .. Len(s9) : s11[i] = s9[i]
       /\ s11[Len(s9) + 1] = Request("xd", "xd", "enc") /\ s11[Len(s9) + 2] = Request("xd", "xd", "dec")
  BY <1>0, <1>91, PairAdded
<1> HIDE DEF s11
<1>101. s11 \in Seq(Requests) BY <1>10
<1>11. /\ g4 \in Seq(Requests) /\ Len(g4) = Len(gA) + 2 /\ \A i \in 1 .. Len(gA) : g4[i] = gA[i]
       /\ g4[Len(gA) + 1] = Request("gc", "gcB", "enc") /\ g4[Len(gA) + 2] = Request("gc", "gcB", "dec")
  BY <1>0, <1>41, PairAdded
<1> HIDE DEF g4
<1>111. g4 \in Seq(Requests) BY <1>11
<1>12. /\ s15 \in Seq(Requests) /\ Len(s15) = Len(s11) + Len(g4)
       /\ \A i \in 1 .. Len(s11) : s15[i] = s11[i]
       /\ \A i \in 1 .. Len(g4) : s15[Len(s11) + i] = g4[i]
  BY <1>101, <1>111, Joined
<1> HIDE DEF s15
<1>13. /\ Len(s2) = 2 /\ Len(gA) = 2 /\ Len(rejects) = 1 /\ Len(s4) = 4 /\ Len(s6) = 6 /\ Len(s8) = 8
       /\ Len(s9) = 9 /\ Len(s11) = 11 /\ Len(g4) = 4 /\ Len(s15) = 15
  BY <1>3, <1>4, <1>5, <1>6, <1>7, <1>8, <1>9, <1>10, <1>11, <1>12
<1>14. s9[1] = s2[1] /\ s9[2] = s2[2] BY <1>6, <1>7, <1>8, <1>9, <1>13
<1>15. s9[3] = s4[3] /\ s9[4] = s4[4] BY <1>7, <1>8, <1>9, <1>13
<1>16. s9[5] = s6[5] /\ s9[6] = s6[6] BY <1>8, <1>9, <1>13
<1>17. s9[7] = s8[7] /\ s9[8] = s8[8] /\ s9[9] = rejects[1] BY <1>9, <1>13
<1>18. \A i \in 1 .. 9 : s15[i] = s9[i] BY <1>10, <1>12, <1>13
<1>19. s15[10] = s11[10] /\ s15[11] = s11[11] BY <1>12, <1>13
<1>20. s15[12] = g4[1] /\ s15[13] = g4[2] /\ s15[14] = g4[3] /\ s15[15] = g4[4] BY <1>12, <1>13
<1>21. g4[1] = gA[1] /\ g4[2] = gA[2] BY <1>11, <1>13
<1>22. /\ s15[1] = s9[1] /\ s15[2] = s9[2] /\ s15[3] = s9[3] /\ s15[4] = s9[4] /\ s15[5] = s9[5]
       /\ s15[6] = s9[6] /\ s15[7] = s9[7] /\ s15[8] = s9[8] /\ s15[9] = s9[9]
  BY <1>18
<1>23. /\ Asks(1, "jb", "jb1", "enc") /\ Asks(2, "jb", "jb1", "dec")
  BY <1>1, <1>3, <1>14, <1>22 DEF Asks
<1>24. Asks(3, "jb", "jb2", "enc") /\ Asks(4, "jb", "jb2", "dec")
  BY <1>1, <1>6, <1>13, <1>15, <1>22 DEF Asks
<1>25. Asks(5, "jb", "jb3", "enc") /\ Asks(6, "jb", "jb3", "dec")
  BY <1>1, <1>7, <1>13, <1>16, <1>22 DEF Asks
<1>26. Asks(7, "jb", "jb4", "enc") /\ Asks(8, "jb", "jb4", "dec") /\ Asks(9, "jb", "jb1", "forged")
  BY <1>1, <1>5, <1>8, <1>13, <1>17, <1>22 DEF Asks
<1>27. Asks(10, "xd", "xd", "enc") /\ Asks(11, "xd", "xd", "dec")
  BY <1>1, <1>10, <1>13, <1>19 DEF Asks
<1>28. Asks(12, "gc", "gcA", "enc") /\ Asks(13, "gc", "gcA", "dec")
  BY <1>1, <1>4, <1>20, <1>21 DEF Asks
<1>29. Asks(14, "gc", "gcB", "enc") /\ Asks(15, "gc", "gcB", "dec")
  BY <1>1, <1>11, <1>13, <1>20 DEF Asks
<1>. QED BY <1>1, <1>13, <1>23, <1>24, <1>25, <1>26, <1>27, <1>28, <1>29

\* A decryption comes behind the encryption of the same case.
LEMMA PlanPairs ==
  ASSUME NEW i \in 1 .. Len(Plan), Plan[i].mode = "dec"
  PROVE  i - 1 \in 1 .. Len(Plan) /\ Plan[i - 1] = Request(Plan[i].core, Plan[i].case, "enc")
<1>1. i \in {1, 2, 3, 4, 5, 6, 7, 8, 9, 10, 11, 12, 13, 14, 15} BY PlanIs
<1>2. i \in {2, 4, 6, 8, 11, 13, 15} BY <1>1, PlanIs DEF Asks, Request
<1>. QED BY <1>2, PlanIs DEF Asks, Request

LEMMA PlanCores ==
  ASSUME NEW i \in 1 .. Len(Plan)
  PROVE  Plan[i].core = IF i <= 9 THEN "jb" ELSE IF i <= 11 THEN "xd" ELSE "gc"
<1>1. i \in {1, 2, 3, 4, 5, 6, 7, 8, 9, 10, 11, 12, 13, 14, 15} BY PlanIs
<1>. QED BY <1>1, PlanIs DEF Asks, Request

\* The place of an item in a list whose entries take Words accesses each.
LEMMA ItemPlace ==
  ASSUME item \in Nat \ {0}
  PROVE  /\ Quot \in Nat /\ Word \in 1 .. Words /\ item = Quot * Words + Word
<1>1. Words \in Nat \ {0} BY CoresAssumption
<1>. QED BY <1>1 DEF Quot, Word

LEMMA PlaceIsUnique ==
  ASSUME NEW k \in Nat \ {0}, NEW q \in Nat, NEW w \in 1 .. k
  PROVE  (q * k + w - 1) \div k = q /\ 1 + ((q * k + w - 1) % k) = w
  OBVIOUS

LEMMA NextPlace ==
  ASSUME item \in Nat \ {0}, item' = item + 1
  PROVE  \/ Word < Words /\ Quot' = Quot /\ Word' = Word + 1
         \/ Word = Words /\ Quot' = Quot + 1 /\ Word' = 1
<1>1. Words \in Nat \ {0} BY CoresAssumption
<1>2. Quot \in Nat /\ Word \in 1 .. Words /\ item = Quot * Words + Word BY ItemPlace
<1>3. CASE Word < Words
  <2>1. item' = Quot * Words + (Word + 1) BY <1>1, <1>2
  <2>2. Word + 1 \in 1 .. Words BY <1>1, <1>2, <1>3
  <2>3. ASSUME NEW q \in Nat, NEW w \in 1 .. Words, item' = q * Words + w
        PROVE  (item' - 1) \div Words = q /\ 1 + ((item' - 1) % Words) = w
    BY <1>1, <2>3, PlaceIsUnique
  <2>4. (item' - 1) \div Words = Quot /\ 1 + ((item' - 1) % Words) = Word + 1
    BY <1>2, <2>1, <2>2, <2>3
  <2>. QED BY <1>3, <2>4 DEF Quot, Word
<1>4. CASE Word = Words
  <2>1. item' = (Quot + 1) * Words + 1 BY <1>1, <1>2, <1>4
  <2>2. 1 \in 1 .. Words /\ Quot + 1 \in Nat BY <1>1, <1>2
  <2>3. ASSUME NEW q \in Nat, NEW w \in 1 .. Words, item' = q * Words + w
        PROVE  (item' - 1) \div Words = q /\ 1 + ((item' - 1) % Words) = w
    BY <1>1, <2>3, PlaceIsUnique
  <2>4. (item' - 1) \div Words = Quot + 1 /\ 1 + ((item' - 1) % Words) = 1
    BY <2>1, <2>2, <2>3
  <2>. QED BY <1>4, <2>4 DEF Quot, Word
<1>. QED BY <1>1, <1>2, <1>3, <1>4

LEMMA FirstPlace ==
  ASSUME item = 1
  PROVE  Quot = 0 /\ Word = 1
<1>1. Words \in Nat \ {0} BY CoresAssumption
<1>2. 1 = 0 * Words + 1 /\ 1 \in 1 .. Words BY <1>1
<1>3. (1 - 1) \div Words = 0 /\ 1 + ((1 - 1) % Words) = 1 BY <1>1, <1>2, PlaceIsUnique
<1>. QED BY <1>3 DEF Quot, Word

LEMMA LastPlace ==
  ASSUME item \in Nat \ {0}, NEW len \in Nat \ {0}
  PROVE  /\ item = len * Words => Quot = len - 1 /\ Word = Words
         /\ Quot = len - 1 /\ Word = Words => item = len * Words
         /\ item \in 1 .. len * Words => Quot < len
<1>1. Words \in Nat \ {0} BY CoresAssumption
<1>2. Quot \in Nat /\ Word \in 1 .. Words /\ item = Quot * Words + Word BY ItemPlace
<1>3. ASSUME item = len * Words PROVE Quot = len - 1 /\ Word = Words
  <2>1. item = (len - 1) * Words + Words BY <1>1, <1>3
  <2>2. len - 1 \in Nat /\ Words \in 1 .. Words BY <1>1
  <2>3. (item - 1) \div Words = len - 1 /\ 1 + ((item - 1) % Words) = Words
    BY <1>1, <2>1, <2>2, PlaceIsUnique
  <2>. QED BY <2>3 DEF Quot, Word
<1>4. Quot = len - 1 /\ Word = Words => item = len * Words BY <1>1, <1>2
<1>5. ASSUME item \in 1 .. len * Words PROVE Quot < len
  <2>1. Quot * Words < len * Words BY <1>1, <1>2, <1>5
  <2>2. ASSUME Quot >= len PROVE FALSE
    <3>1. Quot * Words >= len * Words BY <1>1, <1>2, <2>2
    <3>. QED BY <1>1, <1>2, <2>1, <3>1
  <2>. QED BY <1>2, <2>2
<1>. QED BY <1>3, <1>4, <1>5

\* Where the outputs of a core after a clock come from: they are new, and computed from
\* what the core has taken in, or they are the old ones.
OutputsFrom(c, next) ==
  LET now == core[c]
      Kept == next.in = now.in /\ c \notin strobe
  IN  /\ next.out \in {now.out, Zero, Junk, Out(c, next.in)}
      /\ next.tag \in {now.tag, Zero, Tag(c, next.in)}
      /\ next.state \in OutStates[c] =>
           \/ next.out = Out(c, next.in)
           \/ Kept /\ next.out = now.out /\ now.state \in OutStates[c]
      /\ next.state \in TagStates[c] =>
           \/ next.tag = Tag(c, next.in)
           \/ Kept /\ next.tag = now.tag /\ now.state \in TagStates[c]
      /\ next.done \/ (c = "jb" /\ next.state = "DONE") =>
           \/ /\ c # "gc" /\ next.state \in TagStates[c]
              /\ next.valid <=> Valid(c, next.in, Tag(c, next.in))
           \/ c = "jb" /\ Kept /\ now.state = "DONE" /\ (next.valid <=> now.valid)
           \/ /\ c = "gc" /\ Kept /\ now.state = "DONE"
              /\ next.valid <=> Valid(c, [now.in EXCEPT !.tag = Reg(c, "tag")], now.tag)

LEMMA JbOutputs ==
  ASSUME DOMAIN core["jb"] = CoreFields, core["jb"].state \in States["jb"], NEW d,
         "jb" \in strobe => core["jb"].state = "IDLE",
         core["jb"].done => core["jb"].state = "IDLE"
  PROVE  OutputsFrom("jb", JbStep(d))
<1> DEFINE c == "jb"  now == core[c]  next == JbStep(d)
<1> USE DEF CoreFields
<1>1. CASE now.state = "IDLE" /\ c \in strobe
  <2>1. next = Move(c, Go("LATCH_AD"), [in |-> Latch(c), done |-> FALSE,
                                        out |-> Zero, tag |-> Zero, valid |-> FALSE])
    BY <1>1 DEF JbStep
  <2>2. /\ next.state = "LATCH_AD" /\ ~next.done /\ next.out = Zero /\ next.tag = Zero
    BY <2>1, MoveFields DEF Go
  <2>. QED BY <2>2 DEF OutputsFrom, OutStates, TagStates
<1>2. CASE now.state = "IDLE" /\ c \notin strobe
  <2>1. next = With(c, [done |-> FALSE]) BY <1>2 DEF JbStep
  <2>2. /\ next.state = "IDLE" /\ ~next.done /\ next.out = now.out /\ next.tag = now.tag
        /\ next.in = now.in
    BY <1>2, <2>1, WithFields
  <2>. QED BY <1>2, <2>2 DEF OutputsFrom, OutStates, TagStates
<1>3. CASE now.state = "LATCH_AD"
  <2>1. next = Move(c, Go("LATCH_DAT"), [in |-> TakeAd(c, core[c].in)]) BY <1>3 DEF JbStep
  <2>2. /\ next.state = "LATCH_DAT" /\ next.out = now.out /\ next.tag = now.tag
        /\ next.done = now.done
    BY <2>1, MoveFields DEF Go
  <2>. QED BY <1>3, <2>2 DEF OutputsFrom, OutStates, TagStates
<1>4. CASE now.state = "LATCH_DAT"
  <2>1. next = Move(c, Run("PERM", d), [in |-> TakeMsg(c, core[c].in)]) BY <1>4 DEF JbStep
  <2>2. /\ next.state = "PERM" /\ next.out = now.out /\ next.tag = now.tag
        /\ next.done = now.done
    BY <2>1, MoveFields DEF Run
  <2>. QED BY <1>4, <2>2 DEF OutputsFrom, OutStates, TagStates
<1>5. CASE now.state = "PERM" /\ Running(c)
  <2>1. next = With(c, [left |-> core[c].left - 1, out |-> Junk]) BY <1>5 DEF JbStep
  <2>2. /\ next.state = "PERM" /\ next.out = Junk /\ next.tag = now.tag /\ next.done = now.done
    BY <1>5, <2>1, WithFields
  <2>. QED BY <1>5, <2>2 DEF OutputsFrom, OutStates, TagStates
<1>6. CASE now.state = "PERM" /\ ~Running(c)
  <2>1. next = Move(c, Go("DONE"), Results(c, core[c].in)) BY <1>6 DEF JbStep
  <2>2. DOMAIN Results(c, core[c].in) = {"out", "tag", "valid"} BY DEF Results
  <2>3. /\ Results(c, core[c].in).out = Out(c, now.in) /\ Results(c, core[c].in).tag = Tag(c, now.in)
        /\ Results(c, core[c].in).valid <=> Valid(c, now.in, Tag(c, now.in))
    BY DEF Results
  <2>4. /\ next.state = "DONE" /\ next.in = now.in
        /\ next.out = Results(c, core[c].in).out /\ next.tag = Results(c, core[c].in).tag
        /\ next.valid = Results(c, core[c].in).valid
    BY <2>1, <2>2, MoveFields DEF Go
  <2>. QED BY <2>3, <2>4 DEF OutputsFrom, OutStates, TagStates
<1>7. CASE now.state = "DONE"
  <2>1. next = Move(c, Go("IDLE"), [done |-> TRUE]) BY <1>7 DEF JbStep
  <2>2. /\ next.state = "IDLE" /\ next.in = now.in /\ next.out = now.out /\ next.tag = now.tag
        /\ next.valid = now.valid
    BY <2>1, MoveFields DEF Go
  <2>3. c \notin strobe BY <1>7
  <2>. QED BY <1>7, <2>2, <2>3 DEF OutputsFrom, OutStates, TagStates
<1>. QED BY <1>1, <1>2, <1>3, <1>4, <1>5, <1>6, <1>7 DEF States

LEMMA XdOutputs ==
  ASSUME DOMAIN core["xd"] = CoreFields, core["xd"].state \in States["xd"], NEW d,
         "xd" \in strobe => core["xd"].state = "IDLE",
         core["xd"].done => core["xd"].state = "IDLE"
  PROVE  OutputsFrom("xd", XdStep(d))
<1> DEFINE c == "xd"  now == core[c]  next == XdStep(d)
<1> USE DEF CoreFields
<1>1. CASE now.state = "IDLE" /\ c \in strobe
  <2>1. next = Move(c, Run("PERM", d), [in |-> TakeMsg(c, TakeAd(c, Latch(c))), done |-> FALSE])
    BY <1>1 DEF XdStep
  <2>2. next.state = "PERM" /\ ~next.done /\ next.out = now.out /\ next.tag = now.tag
    BY <2>1, MoveFields DEF Run
  <2>. QED BY <2>2 DEF OutputsFrom, OutStates, TagStates
<1>2. CASE now.state = "IDLE" /\ c \notin strobe
  <2>1. next = With(c, [done |-> FALSE]) BY <1>2 DEF XdStep
  <2>2. /\ next.state = "IDLE" /\ ~next.done /\ next.out = now.out /\ next.tag = now.tag
        /\ next.in = now.in
    BY <1>2, <2>1, WithFields
  <2>. QED BY <1>2, <2>2 DEF OutputsFrom, OutStates, TagStates
<1>3. CASE now.state = "PERM" /\ Running(c)
  <2>1. next = With(c, [left |-> core[c].left - 1]) BY <1>3 DEF XdStep
  <2>2. /\ next.state = "PERM" /\ next.out = now.out /\ next.tag = now.tag /\ next.done = now.done
    BY <1>3, <2>1, WithFields
  <2>. QED BY <1>3, <2>2 DEF OutputsFrom, OutStates, TagStates
<1>4. CASE now.state = "PERM" /\ ~Running(c)
  <2>1. next = With(c, Go("DONE")) BY <1>4 DEF XdStep
  <2>2. /\ next.state = "DONE" /\ next.out = now.out /\ next.tag = now.tag /\ next.done = now.done
    BY <2>1, WithFields DEF Go
  <2>. QED BY <1>4, <2>2 DEF OutputsFrom, OutStates, TagStates
<1>5. CASE now.state = "DONE"
  <2> DEFINE before == Move(c, Go("IDLE"), Results(c, core[c].in))
  <2>1. next = [before EXCEPT !.done = TRUE] BY <1>5 DEF XdStep
  <2>2. DOMAIN Results(c, core[c].in) = {"out", "tag", "valid"} BY DEF Results
  <2>3. /\ Results(c, core[c].in).out = Out(c, now.in) /\ Results(c, core[c].in).tag = Tag(c, now.in)
        /\ Results(c, core[c].in).valid <=> Valid(c, now.in, Tag(c, now.in))
    BY DEF Results
  <2>4. /\ DOMAIN before = CoreFields /\ before.state = "IDLE" /\ before.in = now.in
        /\ before.out = Results(c, core[c].in).out /\ before.tag = Results(c, core[c].in).tag
        /\ before.valid = Results(c, core[c].in).valid
    BY <2>2, MoveFields DEF Go
  <2> HIDE DEF before
  <2>5. /\ next.state = "IDLE" /\ next.in = now.in
        /\ next.out = Results(c, core[c].in).out /\ next.tag = Results(c, core[c].in).tag
        /\ next.valid = Results(c, core[c].in).valid
    BY <2>1, <2>4
  <2>. QED BY <2>3, <2>5 DEF OutputsFrom, OutStates, TagStates
<1>. QED BY <1>1, <1>2, <1>3, <1>4, <1>5 DEF States

LEMMA GcOutputs ==
  ASSUME DOMAIN core["gc"] = CoreFields, core["gc"].state \in States["gc"], NEW d,
         "gc" \in strobe => core["gc"].state = "IDLE",
         core["gc"].done => core["gc"].state = "IDLE",
         core["gc"].state = "WAIT_AD" => ~LastMsg
  PROVE  OutputsFrom("gc", GcMove(d))
<1> DEFINE c == "gc"  now == core[c]  next == GcMove(d)
<1> USE DEF CoreFields
<1>1. CASE Waiting
  <2>1. next = With(c, [left |-> core[c].left - 1]) BY <1>1 DEF GcMove
  <2>2. /\ next.state = now.state /\ next.in = now.in
        /\ next.out = now.out /\ next.tag = now.tag /\ next.done = now.done
    BY <2>1, WithFields
  <2>3. c \notin strobe /\ ~now.done /\ now.state \in {"WAIT_NONCE", "WAIT_AD", "WAIT_MSG"}
    BY <1>1 DEF Waiting
  <2>. QED BY <2>2, <2>3 DEF OutputsFrom, OutStates, TagStates
<1>2. CASE now.state = "IDLE"
  <2>1. next = Move(c, IF c \in strobe THEN Run("WAIT_NONCE", d) ELSE Go("IDLE"),
                    [in |-> IF c \in strobe THEN Latch(c) ELSE now.in, done |-> FALSE,
                     valid |-> FALSE])
    BY <1>2 DEF GcMove, Waiting
  <2>2. CASE c \in strobe
    <3>1. next.state = "WAIT_NONCE" /\ ~next.done /\ next.out = now.out /\ next.tag = now.tag
      BY <2>1, <2>2, MoveFields DEF Run
    <3>. QED BY <3>1 DEF OutputsFrom, OutStates, TagStates
  <2>3. CASE c \notin strobe
    <3>1. /\ next.state = "IDLE" /\ ~next.done /\ next.out = now.out /\ next.tag = now.tag
          /\ next.in = now.in
      BY <2>1, <2>3, MoveFields DEF Go
    <3>. QED BY <1>2, <2>3, <3>1 DEF OutputsFrom, OutStates, TagStates
  <2>. QED BY <2>2, <2>3
<1>3. CASE ~Waiting /\ now.state = "WAIT_NONCE"
  <2>1. next = With(c, Go("PROC_AD")) BY <1>3 DEF GcMove
  <2>2. next.state = "PROC_AD" /\ next.done = now.done /\ next.out = now.out /\ next.tag = now.tag
    BY <2>1, WithFields DEF Go
  <2>. QED BY <1>3, <2>2 DEF OutputsFrom, OutStates, TagStates
<1>4. CASE now.state = "PROC_AD"
  <2>1. next = Move(c, Run("WAIT_AD", d), [in |-> Key(TakeAd(c, now.in))])
    BY <1>4 DEF GcMove, Waiting
  <2>2. next.state = "WAIT_AD" /\ next.done = now.done /\ next.out = now.out /\ next.tag = now.tag
    BY <2>1, MoveFields DEF Run
  <2>. QED BY <1>4, <2>2 DEF OutputsFrom, OutStates, TagStates
<1>5. CASE ~Waiting /\ now.state = "WAIT_AD" /\ ~LastMsg
  <2>1. next = With(c, Go(IF LastAd THEN "PROC_MSG" ELSE "REQ_AD")) BY <1>5 DEF GcMove
  <2>2. /\ next.state \in {"PROC_MSG", "REQ_AD"} /\ next.done = now.done
        /\ next.out = now.out /\ next.tag = now.tag
    BY <2>1, WithFields DEF Go
  <2>. QED BY <1>5, <2>2 DEF OutputsFrom, OutStates, TagStates
<1>6. CASE now.state = "REQ_AD"
  <2>1. next = With(c, Go(IF "ad_ack" \in strobe THEN "PROC_AD" ELSE "REQ_AD"))
    BY <1>6 DEF GcMove, Waiting
  <2>2. /\ next.state \in {"PROC_AD", "REQ_AD"} /\ next.done = now.done
        /\ next.out = now.out /\ next.tag = now.tag
    BY <2>1, WithFields DEF Go
  <2>. QED BY <1>6, <2>2 DEF OutputsFrom, OutStates, TagStates
<1>7. CASE now.state = "PROC_MSG"
  <2>1. next = Move(c, Run("WAIT_MSG", d),
                    [in |-> Key(TakeMsg(c, now.in)), out |-> Out(c, Key(TakeMsg(c, now.in)))])
    BY <1>7 DEF GcMove, Waiting
  <2>2. /\ next.state = "WAIT_MSG" /\ next.done = now.done /\ next.in = Key(TakeMsg(c, now.in))
        /\ next.out = Out(c, Key(TakeMsg(c, now.in))) /\ next.tag = now.tag
    BY <2>1, MoveFields DEF Run
  <2>. QED BY <1>7, <2>2 DEF OutputsFrom, OutStates, TagStates
<1>8. CASE ~Waiting /\ now.state = "WAIT_MSG"
  <2>1. next = Move(c, Go(IF LastMsg THEN "DONE" ELSE "REQ_MSG"),
                    [tag |-> IF LastMsg THEN Tag(c, now.in) ELSE core[c].tag])
    BY <1>8 DEF GcMove
  <2>2. /\ next.state = (IF LastMsg THEN "DONE" ELSE "REQ_MSG") /\ next.done = now.done
        /\ next.out = now.out /\ next.tag = (IF LastMsg THEN Tag(c, now.in) ELSE now.tag)
        /\ next.in = now.in
    BY <2>1, MoveFields DEF Go
  <2>3. c \notin strobe /\ ~now.done BY <1>8
  <2>. QED BY <1>8, <2>2, <2>3 DEF OutputsFrom, OutStates, TagStates
<1>9. CASE now.state = "REQ_MSG"
  <2>1. next = With(c, Go(IF "msg_ack" \in strobe THEN "PROC_MSG" ELSE "REQ_MSG"))
    BY <1>9 DEF GcMove, Waiting
  <2>2. /\ next.state \in {"PROC_MSG", "REQ_MSG"} /\ next.done = now.done
        /\ next.out = now.out /\ next.tag = now.tag /\ next.in = now.in
    BY <2>1, WithFields DEF Go
  <2>3. c \notin strobe /\ ~now.done BY <1>9
  <2>. QED BY <1>9, <2>2, <2>3 DEF OutputsFrom, OutStates, TagStates
<1>10. CASE now.state = "DONE"
  <2>1. next = Move(c, Go(IF c \in strobe THEN "DONE" ELSE "IDLE"),
                    [done |-> TRUE,
                     valid |-> Valid(c, [now.in EXCEPT !.tag = Reg(c, "tag")], core[c].tag)])
    BY <1>10 DEF GcMove, Waiting
  <2>2. /\ next.state \in {"DONE", "IDLE"} /\ next.in = now.in
        /\ next.out = now.out /\ next.tag = now.tag
        /\ next.valid <=> Valid(c, [now.in EXCEPT !.tag = Reg(c, "tag")], core[c].tag)
    BY <2>1, MoveFields DEF Go
  <2>3. c \notin strobe BY <1>10
  <2>. QED BY <1>10, <2>2, <2>3 DEF OutputsFrom, OutStates, TagStates
<1>. QED BY <1>1, <1>2, <1>3, <1>4, <1>5, <1>6, <1>7, <1>8, <1>9, <1>10 DEF States

\* A clock of a core whose fields are those of next.
SameFields(after, next) ==
  \A f \in CoreFields \ {"ad_req", "msg_req"} : after[f] = next[f]

LEMMA ClockFields ==
  ASSUME CoresInv, Hardware
  PROVE  \E d \in 1 .. MaxRun : \A c \in Cores : SameFields(core'[c], Moved(c, d))
<1>1. PICK d \in 1 .. MaxRun : core' = [jb |-> JbStep(d), xd |-> XdStep(d), gc |-> GcStep(d)]
  BY DEF Hardware, CoreClock
<1>2. core'["jb"] = JbStep(d) /\ core'["xd"] = XdStep(d) /\ core'["gc"] = GcStep(d)
  BY <1>1
<1>3. SameFields(GcStep(d), GcMove(d))
  <2>1. DOMAIN core["gc"] = CoreFields /\ core["gc"].state \in States["gc"]
    BY DEF CoresInv, Shapes, TakenInv, Cores
  <2>2. DOMAIN GcMove(d) = CoreFields BY <2>1, GcMoves, FirstMessage
  <2>. QED BY <2>2 DEF SameFields, GcStep, CoreFields
<1>4. Moved("jb", d) = JbStep(d) /\ Moved("xd", d) = XdStep(d) /\ Moved("gc", d) = GcMove(d)
  BY DEF Moved
<1>5. ASSUME NEW c \in Cores PROVE SameFields(core'[c], Moved(c, d))
  BY <1>2, <1>3, <1>4 DEF Cores, SameFields
<1>. QED BY <1>5

LEMMA OutputsSame ==
  ASSUME NEW c, NEW after, NEW next, SameFields(after, next), OutputsFrom(c, next)
  PROVE  OutputsFrom(c, after)
<1>1. /\ after.state = next.state /\ after.in = next.in /\ after.out = next.out
      /\ after.tag = next.tag /\ after.valid = next.valid /\ after.done = next.done
  BY DEF SameFields, CoreFields
<1>. QED BY <1>1 DEF OutputsFrom

LEMMA ClockOutputs ==
  ASSUME CoresInv, Hardware, NEW c \in Cores
  PROVE  OutputsFrom(c, core'[c])
<1>1. PICK d : SameFields(core'[c], Moved(c, d)) BY ClockFields
<1>2. /\ DOMAIN core[c] = CoreFields /\ core[c].state \in States[c]
      /\ c \in strobe => core[c].state = "IDLE"
      /\ core[c].done => core[c].state = "IDLE"
  BY DEF CoresInv, Shapes, TakenInv, RestInv, DoneInv
<1>3. OutputsFrom(c, Moved(c, d))
  <2>1. CASE c = "jb" BY <1>2, <2>1, JbOutputs DEF Moved
  <2>2. CASE c = "xd" BY <1>2, <2>2, XdOutputs DEF Moved
  <2>3. CASE c = "gc" BY <1>2, <2>3, GcOutputs, FirstMessage DEF Moved
  <2>. QED BY <2>1, <2>2, <2>3 DEF Cores
<1>. QED BY <1>1, <1>3, OutputsSame

\* What a core takes in during a clock.
LEMMA ClockInputs ==
  ASSUME CoresInv, Hardware, NEW c \in Cores
  PROVE  LET in == core[c].in
             next == core'[c].in
             state == core[c].state
         IN  \/ c \in strobe /\ c # "xd" /\ next = Latch(c)
             \/ c \in strobe /\ c = "xd" /\ next = TakeMsg(c, TakeAd(c, Latch(c)))
             \/ c \notin strobe /\ next = in
             \/ c \notin strobe /\ c = "jb" /\ state = "LATCH_AD" /\ next = TakeAd(c, in)
             \/ c \notin strobe /\ c = "gc" /\ state = "PROC_AD" /\ next = Key(TakeAd(c, in))
             \/ c \notin strobe /\ c = "jb" /\ state = "LATCH_DAT" /\ next = TakeMsg(c, in)
             \/ c \notin strobe /\ c = "gc" /\ state = "PROC_MSG" /\ next = Key(TakeMsg(c, in))
<1>1. PICK d : core'[c].in = Moved(c, d).in BY HardwareMoves
<1>2. /\ DOMAIN core[c] = CoreFields /\ core[c].state \in States[c]
      /\ c \in strobe => core[c].state = "IDLE"
  BY DEF CoresInv, Shapes, TakenInv, RestInv
<1>3. CASE c = "jb" BY <1>1, <1>2, <1>3, JbMoves DEF Moved, States
<1>4. CASE c = "xd" BY <1>1, <1>2, <1>4, XdMoves DEF Moved, States
<1>5. CASE c = "gc" BY <1>1, <1>2, <1>5, GcMoves, FirstMessage DEF Moved, States
<1>. QED BY <1>3, <1>4, <1>5 DEF Cores

\* How GIFT-COFB gets to where it takes a block or asks for one.
LEMMA ClockStates ==
  ASSUME CoresInv, Hardware
  PROVE  LET now == core["gc"]
             next == core'["gc"]
         IN  /\ next.state = "PROC_AD" =>
                  now.state = "WAIT_NONCE" \/ (now.state = "REQ_AD" /\ "ad_ack" \in strobe)
             /\ next.state = "PROC_MSG" =>
                  now.state = "WAIT_AD" \/ (now.state = "REQ_MSG" /\ "msg_ack" \in strobe)
             /\ next.state = "REQ_AD" => now.state \in {"WAIT_AD", "REQ_AD"}
<1>1. PICK d : core'["gc"].state = Moved("gc", d).state BY HardwareMoves DEF Cores
<1>2. DOMAIN core["gc"] = CoreFields /\ core["gc"].state \in States["gc"]
  BY DEF CoresInv, Shapes, TakenInv, Cores
<1>3. Moved("gc", d) = GcMove(d) BY DEF Moved
<1>. QED BY <1>1, <1>2, <1>3, GcMoves, FirstMessage DEF States

-------------------------------------------------------------------------------
(* The algorithms on the values of a request *)

\* What a core of this request has taken in is its request's.
Fed(in) ==
  /\ in.keys = {<<rq.case, "key">>} /\ in.nonce = <<rq.case, "nonce">>
  /\ rq.mode # "enc" => in.tag = Given(rq, "tag", 1)
  /\ \A i \in 1 .. Len(in.ads) : in.ads[i] = Given(rq, "ad", i)
  /\ \A i \in 1 .. Len(in.msgs) : in.msgs[i] = Given(rq, "data", i)

LEMMA RegIs ==
  ASSUME NEW name, NEW block, Put(name, block)
  PROVE  Reg(rq.core, name) = Given(rq, name, block)
<1>1. 1 \in 1 .. Words BY CoresAssumption
<1>. QED BY <1>1 DEF Put, Reg, Value

LEMMA FedLatch ==
  ASSUME Put("key", 1), Put("nonce", 1), rq.mode # "enc" => Put("tag", 1)
  PROVE  Fed(Latch(rq.core)) /\ Len(Latch(rq.core).ads) = 0 /\ Len(Latch(rq.core).msgs) = 0
<1> DEFINE in == Latch(rq.core)
<1>1. /\ in.keys = {Reg(rq.core, "key")} /\ in.nonce = Reg(rq.core, "nonce")
      /\ in.tag = Reg(rq.core, "tag")
      /\ Len(in.ads) = 0 /\ Len(in.msgs) = 0
  BY EmptyList DEF Latch
<1>2. Reg(rq.core, "key") = <<rq.case, "key">> /\ Reg(rq.core, "nonce") = <<rq.case, "nonce">>
  <2>1. Reg(rq.core, "key") = Given(rq, "key", 1) /\ Reg(rq.core, "nonce") = Given(rq, "nonce", 1)
    BY RegIs
  <2>. QED BY <2>1 DEF Given
<1>3. rq.mode # "enc" => Reg(rq.core, "tag") = Given(rq, "tag", 1) BY RegIs
<1> HIDE DEF in
<1>. QED BY <1>1, <1>2, <1>3 DEF Fed, in

\* The element a list is longer by.
LEMMA AppendedElements ==
  ASSUME NEW s, IsList(s), NEW x
  PROVE  /\ Append(s, x)[Len(s) + 1] = x
         /\ \A i \in 1 .. Len(s) : Append(s, x)[i] = s[i]
<1> DEFINE S == {s[i] : i \in DOMAIN s} \cup {x}
<1>1. s \in Seq(S) /\ x \in S BY DEF IsList
<1> HIDE DEF S
<1>. QED BY <1>1

LEMMA FedAd ==
  ASSUME NEW in, InShape(in), Fed(in), Put("ad", Len(in.ads) + 1)
  PROVE  Fed(TakeAd(rq.core, in))
<1> DEFINE x == Reg(rq.core, "ad")
           out == TakeAd(rq.core, in)
<1>1. x = Given(rq, "ad", Len(in.ads) + 1) BY RegIs
<1>2. /\ out.keys = in.keys /\ out.nonce = in.nonce /\ out.tag = in.tag /\ out.msgs = in.msgs
      /\ out.ads = Append(in.ads, x)
  BY DEF TakeAd, InShape, InFields
<1>3. /\ Append(in.ads, x)[Len(in.ads) + 1] = x
      /\ \A i \in 1 .. Len(in.ads) : Append(in.ads, x)[i] = in.ads[i]
      /\ Len(Append(in.ads, x)) = Len(in.ads) + 1 /\ Len(in.ads) \in Nat
  BY AppendedElements, LongerList DEF InShape
<1>4. \A i \in 1 .. Len(in.ads) : in.ads[i] = Given(rq, "ad", i) BY DEF Fed
<1>5. \A i \in 1 .. Len(in.msgs) : in.msgs[i] = Given(rq, "data", i) BY DEF Fed
<1> HIDE DEF x, out
<1>6. \A i \in 1 .. Len(out.ads) : out.ads[i] = Given(rq, "ad", i)
  <2> SUFFICES ASSUME NEW i \in 1 .. Len(out.ads) PROVE out.ads[i] = Given(rq, "ad", i) OBVIOUS
  <2>1. i \in 1 .. Len(in.ads) \/ i = Len(in.ads) + 1 BY <1>2, <1>3
  <2>. QED BY <1>1, <1>2, <1>3, <1>4, <2>1
<1>. QED BY <1>2, <1>5, <1>6 DEF Fed, out

LEMMA FedMsg ==
  ASSUME NEW in, InShape(in), Fed(in), Put("data", Len(in.msgs) + 1)
  PROVE  Fed(TakeMsg(rq.core, in))
<1> DEFINE x == Reg(rq.core, "data")
           out == TakeMsg(rq.core, in)
<1>1. x = Given(rq, "data", Len(in.msgs) + 1) BY RegIs
<1>2. /\ out.keys = in.keys /\ out.nonce = in.nonce /\ out.tag = in.tag /\ out.ads = in.ads
      /\ out.msgs = Append(in.msgs, x)
  BY DEF TakeMsg, InShape, InFields
<1>3. /\ Append(in.msgs, x)[Len(in.msgs) + 1] = x
      /\ \A i \in 1 .. Len(in.msgs) : Append(in.msgs, x)[i] = in.msgs[i]
      /\ Len(Append(in.msgs, x)) = Len(in.msgs) + 1 /\ Len(in.msgs) \in Nat
  BY AppendedElements, LongerList DEF InShape
<1>4. \A i \in 1 .. Len(in.msgs) : in.msgs[i] = Given(rq, "data", i) BY DEF Fed
<1>5. \A i \in 1 .. Len(in.ads) : in.ads[i] = Given(rq, "ad", i) BY DEF Fed
<1> HIDE DEF x, out
<1>6. \A i \in 1 .. Len(out.msgs) : out.msgs[i] = Given(rq, "data", i)
  <2> SUFFICES ASSUME NEW i \in 1 .. Len(out.msgs) PROVE out.msgs[i] = Given(rq, "data", i) OBVIOUS
  <2>1. i \in 1 .. Len(in.msgs) \/ i = Len(in.msgs) + 1 BY <1>2, <1>3
  <2>. QED BY <1>1, <1>2, <1>3, <1>4, <2>1
<1>. QED BY <1>2, <1>5, <1>6 DEF Fed, out

LEMMA FedKey ==
  ASSUME NEW in, InShape(in), Fed(in), rq.core = "gc", Put("key", 1)
  PROVE  Fed(Key(in))
<1>1. Reg("gc", "key") = <<rq.case, "key">>
  <2>1. Reg(rq.core, "key") = Given(rq, "key", 1) BY RegIs
  <2>. QED BY <2>1 DEF Given
<1>2. /\ Key(in).keys = in.keys \cup {Reg("gc", "key")}
      /\ Key(in).nonce = in.nonce /\ Key(in).tag = in.tag /\ Key(in).msgs = in.msgs
      /\ Key(in).ads = in.ads
  BY DEF Key, InShape, InFields
<1>. QED BY <1>1, <1>2 DEF Fed

\* A list is known by its length and its elements, and so is its beginning.
LEMMA ListIs ==
  ASSUME NEW s, IsList(s)
  PROVE  Len(s) \in Nat /\ s = [i \in 1 .. Len(s) |-> s[i]]
<1> DEFINE S == {s[i] : i \in DOMAIN s}
<1>1. s \in Seq(S) BY DEF IsList
<1> HIDE DEF S
<1>. QED BY <1>1

LEMMA Beginning ==
  ASSUME NEW S, NEW s \in Seq(S), NEW m \in 0 .. Len(s)
  PROVE  SubSeq(s, 1, m) = [i \in 1 .. m |-> s[i]]
  OBVIOUS

LEMMA PairsEqual ==
  ASSUME NEW a, NEW b, NEW c, NEW d, <<a, b>> = <<c, d>>
  PROVE  a = c /\ b = d
  OBVIOUS

LEMMA RequestsMatch ==
  ASSUME Testing, NEW in, InShape(in), Fed(in), in.mode = Mode(rq),
         Len(in.ads) = Blocks(rq.case), Len(in.msgs) \in 1 .. Blocks(rq.case)
  PROVE  /\ rq.mode # "forged" => Matches(rq.core, in) = {rq.case}
         /\ rq.mode = "forged" => Matches(rq.core, in) = {}
<1>1. /\ rq.case \in Cases[rq.core] /\ Blocks(rq.case) \in {1, 2}
      /\ rq.mode \in {"enc", "dec", "forged"}
  BY PlannedRequest
<1>2. ASSUME NEW case \in Matches(rq.core, in) PROVE case = rq.case
  BY <1>2 DEF Matches, Fed
<1>3. /\ Len(in.ads) \in Nat /\ in.ads = [i \in 1 .. Len(in.ads) |-> in.ads[i]]
      /\ Len(in.msgs) \in Nat /\ in.msgs = [i \in 1 .. Len(in.msgs) |-> in.msgs[i]]
  BY ListIs DEF InShape
<1>4. in.ads = Stream(rq.case, "ad")
  <2>1. \A i \in 1 .. Blocks(rq.case) : in.ads[i] = <<rq.case, Part["ad"][i]>>
    BY DEF Fed, Given
  <2>. QED BY <1>3, <2>1 DEF Stream
<1> DEFINE kind == IF in.mode = "enc" THEN "pt" ELSE "ct"
           m == Len(in.msgs)
           all == Stream(rq.case, kind)
<1>5. m \in 1 .. Blocks(rq.case) /\ m <= Blocks(rq.case) BY <1>1
<1>6. SubSeq(all, 1, m) = [i \in 1 .. m |-> <<rq.case, Part[kind][i]>>]
  <2>1. \A i \in 1 .. Blocks(rq.case) : all[i] = <<rq.case, Part[kind][i]>> BY DEF Stream
  <2>2. all \in Seq({<<rq.case, Part[kind][i]>> : i \in 1 .. Blocks(rq.case)}) BY <1>1 DEF Stream
  <2>3. Len(all) = Blocks(rq.case) BY <1>1 DEF Stream
  <2> HIDE DEF all, m
  <2>4. m \in 0 .. Len(all) BY <1>1, <1>5, <2>3
  <2>5. SubSeq(all, 1, m) = [i \in 1 .. m |-> all[i]] BY <2>2, <2>4, Beginning
  <2>6. \A i \in 1 .. m : i \in 1 .. Blocks(rq.case) BY <1>1, <1>5
  <2>. QED BY <2>1, <2>5, <2>6
<1> HIDE DEF all
<1>7. ASSUME rq.mode # "forged" PROVE rq.case \in Matches(rq.core, in)
  <2>1. \A i \in 1 .. m : in.msgs[i] = <<rq.case, Part[kind][i]>>
    BY <1>1, <1>7 DEF Fed, Given, Mode
  <2>2. in.msgs = SubSeq(all, 1, m) BY <1>3, <1>6, <2>1
  <2>. QED BY <1>1, <1>4, <1>5, <2>2 DEF Matches, Fed, all
<1>8. ASSUME rq.mode = "forged", rq.case \in Matches(rq.core, in) PROVE FALSE
  <2>1. in.msgs = SubSeq(all, 1, m) BY <1>8 DEF Matches, all
  <2>2. 1 \in 1 .. m BY <1>1, <1>5
  <2>3. in.msgs[1] = <<rq.case, "other ct">> BY <1>8, <2>2 DEF Fed, Given
  <2>4. in.msgs[1] = <<rq.case, Part[kind][1]>> BY <1>6, <2>1, <2>2
  <2>5. Part["pt"][1] = "pt1" /\ Part["ct"][1] = "ct1" BY DEF Part
  <2>6. Part[kind][1] # "other ct" BY <2>5
  <2> DEFINE x == in.msgs[1]  y == Part[kind][1]
  <2>7. x[2] = "other ct"
    <3> HIDE DEF x
    <3>1. x = <<rq.case, "other ct">> BY <2>3 DEF x
    <3>. QED BY <3>1
  <2>8. x[2] = y
    <3> HIDE DEF x, y
    <3>1. x = <<rq.case, y>> BY <2>4 DEF x, y
    <3>. QED BY <3>1
  <2>. QED BY <2>6, <2>7, <2>8
<1>. QED BY <1>2, <1>7, <1>8

\* What a sound core computes from it.
LEMMA Computes ==
  ASSUME Testing, NEW in, InShape(in), Fed(in), in.mode = Mode(rq),
         Len(in.ads) = Blocks(rq.case), Len(in.msgs) \in 1 .. Blocks(rq.case),
         Sound(rq.core)
  PROVE  /\ rq.mode # "forged" => /\ Out(rq.core, in) = Yields(rq, Len(in.msgs))
                                  /\ Tag(rq.core, in) = <<rq.case, "tag">>
         /\ rq.mode = "forged" => Tag(rq.core, in) = Junk
<1>1. /\ Blocks(rq.case) \in {1, 2} /\ rq.mode \in {"enc", "dec", "forged"}
  BY PlannedRequest
<1>2. \A kind : ~Faulty(rq.core, kind)
  <2>1. ASSUME NEW kind, fault = <<rq.core, kind>> PROVE FALSE
    <3>1. fault[1] = rq.core BY <2>1
    <3>. QED BY <3>1 DEF Sound
  <2>. QED BY <2>1 DEF Faulty
<1>3. CASE rq.mode = "forged" BY <1>2, <1>3, RequestsMatch DEF Tag
<1>4. CASE rq.mode # "forged"
  <2>1. Matches(rq.core, in) = {rq.case} BY <1>4, RequestsMatch
  <2>2. (CHOOSE x \in {rq.case} : TRUE) = rq.case OBVIOUS
  <2>3. Tag(rq.core, in) = <<rq.case, "tag">> BY <1>2, <2>1, <2>2 DEF Tag
  <2>4. Out(rq.core, in) = Stream(rq.case, IF in.mode = "enc" THEN "ct" ELSE "pt")[Len(in.msgs)]
    BY <1>2, <2>1, <2>2 DEF Out
  <2>5. (IF in.mode = "enc" THEN "ct" ELSE "pt") = (IF rq.mode = "enc" THEN "ct" ELSE "pt")
    BY <1>1 DEF Mode
  <2>6. Out(rq.core, in) = Yields(rq, Len(in.msgs))
    BY <2>4, <2>5 DEF Stream, Yields, OutName
  <2>. QED BY <1>4, <2>3, <2>6
<1>. QED BY <1>3, <1>4

\* Its verdict on the tag, and that of a core that never, or always, finds it right.
LEMMA Verdicts ==
  ASSUME Testing, fault \in Faults, rq.mode # "enc", NEW in, in.mode = Mode(rq),
         in.tag = Given(rq, "tag", 1) \/ ~Sound(rq.core),
         NEW tag, tag = (IF rq.mode = "forged" THEN Junk ELSE <<rq.case, "tag">>) \/ ~Sound(rq.core),
         Sound(rq.core) \/ fault[2] \in {"rejects", "accepts"}
  PROVE  Valid(rq.core, in, tag) <=> Accepts
<1>1. rq.mode \in {"dec", "forged"} /\ in.mode = "dec" BY PlannedRequest DEF Mode
<1>2. CASE Sound(rq.core)
  <2>1. ASSUME NEW kind, fault = <<rq.core, kind>> PROVE FALSE
    <3>1. fault[1] = rq.core BY <2>1
    <3>. QED BY <1>2, <3>1 DEF Sound
  <2>2. \A kind : ~Faulty(rq.core, kind) BY <2>1 DEF Faulty
  <2>3. Valid(rq.core, in, tag) <=> tag = in.tag BY <1>1, <2>2 DEF Valid
  <2>4. CASE rq.mode = "dec" BY <1>2, <2>3, <2>4 DEF Accepts, Given
  <2>5. CASE rq.mode = "forged"
    <3>1. in.tag = <<rq.case, "other tag">> /\ tag = <<"none", "junk">>
      BY <1>2, <2>5 DEF Given, Junk
    <3>2. in.tag # tag BY <3>1, PairsEqual
    <3>. QED BY <1>2, <2>3, <2>5, <3>2 DEF Accepts
  <2>. QED BY <1>1, <2>4, <2>5
<1>3. CASE ~Sound(rq.core)
  <2>1. fault = <<rq.core, fault[2]>> BY <1>3 DEF Sound, Faults
  <2>2. CASE fault[2] = "accepts"
    BY <1>3, <2>1, <2>2 DEF Faulty, Valid, Accepts
  <2>3. CASE fault[2] = "rejects"
    <3>1. Faulty(rq.core, "rejects") BY <2>1, <2>3 DEF Faulty
    <3>2. ~Faulty(rq.core, "accepts") BY <2>1, <2>3, PairsEqual DEF Faulty
    <3>. QED BY <1>1, <1>3, <2>3, <3>1, <3>2 DEF Valid, Accepts
  <2>. QED BY <1>3, <2>2, <2>3
<1>. QED BY <1>2, <1>3

-------------------------------------------------------------------------------
(* What a clock does to the values in the core of the request *)

\* The registers hold what the core takes in this clock.
LEMMA ToBeFed ==
  ASSUME CoresInv, ValuesInv, Testing, doing \notin BeforeStart, Sound(rq.core),
         NEW c \in Cores, c = rq.core
  PROVE  /\ Put("key", 1) /\ Put("nonce", 1) /\ (rq.mode # "enc" => Put("tag", 1))
         /\ c \in strobe => Put("ad", 1) /\ Put("data", 1)
         /\ c \notin strobe => Fed(core[c].in)
         /\ c \notin strobe /\ core[c].state \in {"LATCH_AD", "PROC_AD"} => Put("ad", Ads(c) + 1)
         /\ c \notin strobe /\ core[c].state \in {"LATCH_DAT", "PROC_MSG"} => Put("data", Msgs(c) + 1)
<1>1. doing # "load" BY DEF BeforeStart
<1>2. RegsInv /\ FedInv BY DEF ValuesInv
<1>3. Started <=> c \notin strobe BY DEF Started
<1>4. Put("key", 1) /\ Put("nonce", 1) /\ (rq.mode # "enc" => Put("tag", 1))
  BY <1>1, <1>2 DEF RegsInv
<1>5. c \in strobe => Put("ad", 1) /\ Put("data", 1) BY <1>2 DEF RegsInv
<1>6. c \notin strobe => Fed(core[c].in) BY <1>2, <1>3 DEF FedInv, Fed, Ads, Msgs
<1>7. PICK blocks : blocks = Blocks(rq.case) OBVIOUS
<1>8. blocks \in {1, 2} BY <1>7, PlannedRequest
<1>12. c \notin strobe => TakenIn(c, blocks) BY <1>7 DEF CoresInv, TakenInv
<1>9. Ads(c) \in Nat /\ Msgs(c) \in Nat
  BY Counted DEF CoresInv, Shapes, InShape, Ads, Msgs
<1>10. ASSUME c \notin strobe, core[c].state \in {"LATCH_AD", "PROC_AD"} PROVE Put("ad", Ads(c) + 1)
  <2>1. Ads(c) = 0 \/ (core[c].state = "PROC_AD" /\ Ads(c) = 1)
    <3>1. CASE core[c].state = "LATCH_AD" BY <1>10, <1>12, <3>1 DEF TakenIn
    <3>2. CASE core[c].state = "PROC_AD"
      <4>1. Ads(c) < blocks BY <1>10, <1>12, <3>2 DEF TakenIn
      <4>. QED BY <1>8, <1>9, <3>2, <4>1
    <3>. QED BY <1>10, <3>1, <3>2
  <2>2. CASE Ads(c) = 0
    <3>1. Put("ad", 1) BY <1>2, <1>3, <1>10, <2>2 DEF RegsInv
    <3>2. Ads(c) + 1 = 1 BY <2>2
    <3>. QED BY <3>1, <3>2
  <2>3. CASE core[c].state = "PROC_AD" /\ Ads(c) = 1
    <3>1. Put("ad", 2) BY <1>2, <1>3, <1>10, <2>3 DEF RegsInv
    <3>2. Ads(c) + 1 = 2 BY <2>3
    <3>. QED BY <3>1, <3>2
  <2>. QED BY <2>1, <2>2, <2>3
<1>11. ASSUME c \notin strobe, core[c].state \in {"LATCH_DAT", "PROC_MSG"} PROVE Put("data", Msgs(c) + 1)
  <2>1. Msgs(c) = 0 \/ (core[c].state = "PROC_MSG" /\ Msgs(c) = 1)
    <3>1. CASE core[c].state = "LATCH_DAT" BY <1>11, <1>12, <3>1 DEF TakenIn
    <3>2. CASE core[c].state = "PROC_MSG"
      <4>1. Msgs(c) < blocks BY <1>11, <1>12, <3>2 DEF TakenIn
      <4>. QED BY <1>8, <1>9, <3>2, <4>1
    <3>. QED BY <1>11, <3>1, <3>2
  <2>2. CASE Msgs(c) = 0
    <3>1. Put("data", 1) BY <1>2, <1>3, <1>11, <2>2 DEF RegsInv
    <3>2. Msgs(c) + 1 = 1 BY <2>2
    <3>. QED BY <3>1, <3>2
  <2>3. CASE core[c].state = "PROC_MSG" /\ Msgs(c) = 1
    <3>1. Put("data", 2) BY <1>2, <1>3, <1>11, <2>3 DEF RegsInv
    <3>2. Msgs(c) + 1 = 2 BY <2>3
    <3>. QED BY <3>1, <3>2
  <2>. QED BY <2>1, <2>2, <2>3
<1>. QED BY <1>4, <1>5, <1>6, <1>10, <1>11

LEMMA ClockFed ==
  ASSUME CoresInv, ValuesInv, Hardware, Testing, doing \notin BeforeStart, Sound(rq.core),
         NEW c \in Cores, c = rq.core
  PROVE  Fed(core'[c].in)
<1> DEFINE in == core[c].in  next == core'[c].in
<1>1. /\ Put("key", 1) /\ Put("nonce", 1) /\ (rq.mode # "enc" => Put("tag", 1))
      /\ c \in strobe => Put("ad", 1) /\ Put("data", 1)
      /\ c \notin strobe => Fed(in)
      /\ c \notin strobe /\ core[c].state \in {"LATCH_AD", "PROC_AD"} => Put("ad", Len(in.ads) + 1)
      /\ c \notin strobe /\ core[c].state \in {"LATCH_DAT", "PROC_MSG"} => Put("data", Len(in.msgs) + 1)
  BY ToBeFed DEF Ads, Msgs
<1>2. InShape(in) BY DEF CoresInv, Shapes, InShape
<1>3. CASE c \in strobe
  <2> DEFINE latched == Latch(c)  withAd == TakeAd(c, latched)  both == TakeMsg(c, withAd)
  <2>1. /\ InShape(latched) /\ Fed(latched) /\ Len(latched.ads) = 0 /\ Len(latched.msgs) = 0
    BY <1>1, LatchedInputs, FedLatch
  <2> HIDE DEF latched
  <2>2. Put("ad", Len(latched.ads) + 1)
    <3>1. Len(latched.ads) + 1 = 1 BY <2>1
    <3>. QED BY <1>1, <1>3, <3>1
  <2>3. /\ InShape(withAd) /\ Len(withAd.msgs) = 0
    <3>1. InShape(withAd) /\ withAd.msgs = latched.msgs BY <2>1, AdTaken
    <3>. QED BY <2>1, <3>1
  <2>4. Fed(withAd)
    <3>1. InShape(latched) /\ Fed(latched) BY <2>1
    <3>2. Fed(TakeAd(rq.core, latched)) BY <2>2, <3>1, FedAd
    <3>. QED BY <3>2
  <2> HIDE DEF withAd
  <2>5. Put("data", Len(withAd.msgs) + 1)
    <3>1. Len(withAd.msgs) + 1 = 1 BY <2>3
    <3>. QED BY <1>1, <1>3, <3>1
  <2>6. Fed(both)
    <3>1. InShape(withAd) /\ Fed(withAd) BY <2>3, <2>4
    <3>2. Fed(TakeMsg(rq.core, withAd)) BY <2>5, <3>1, FedMsg
    <3>. QED BY <3>2
  <2>7. next = latched \/ next = both BY <1>3, ClockInputs DEF latched, withAd
  <2> HIDE DEF both, next
  <2>. QED BY <2>1, <2>6, <2>7 DEF next
<1>4. CASE c \notin strobe /\ next = in BY <1>1, <1>4
<1>5. CASE c \notin strobe /\ core[c].state \in {"LATCH_AD", "PROC_AD"}
  <2>1. InShape(TakeAd(c, in)) BY <1>2, AdTaken
  <2>2. Fed(TakeAd(c, in)) BY <1>1, <1>2, <1>5, FedAd
  <2>3. c = "gc" => Fed(Key(TakeAd(c, in))) BY <1>1, <2>1, <2>2, FedKey
  <2>. QED BY <1>1, <1>5, <2>2, <2>3, ClockInputs
<1>6. CASE c \notin strobe /\ core[c].state \in {"LATCH_DAT", "PROC_MSG"}
  <2>1. InShape(TakeMsg(c, in)) BY <1>2, MsgTaken
  <2>2. Fed(TakeMsg(c, in)) BY <1>1, <1>2, <1>6, FedMsg
  <2>3. c = "gc" => Fed(Key(TakeMsg(c, in))) BY <1>1, <2>1, <2>2, FedKey
  <2>. QED BY <1>1, <1>6, <2>2, <2>3, ClockInputs
<1>. QED BY <1>3, <1>4, <1>5, <1>6, ClockInputs

\* GIFT-COFB asks for a further block of associated data only.
LEMMA ClockAsks ==
  ASSUME CoresInv, ValuesInv, Hardware, Testing, doing \notin BeforeStart, Sound(rq.core),
         rq.core = "gc", core'["gc"].state = "REQ_AD"
  PROVE  Len(core'["gc"].in.ads) # 0
<1>1. core["gc"].state \in {"WAIT_AD", "REQ_AD"} BY ClockStates
<1>2. "gc" \in Cores BY DEF Cores
<1>3. "gc" \notin strobe BY <1>1, <1>2 DEF CoresInv, RestInv
<1>4. core'["gc"].in = core["gc"].in BY <1>1, <1>2, <1>3, ClockInputs
<1>5. CASE core["gc"].state = "REQ_AD"
  <2>1. Ads("gc") # 0 BY <1>3, <1>5 DEF ValuesInv, FedInv, Started
  <2>. QED BY <1>4, <2>1 DEF Ads
<1>6. CASE core["gc"].state = "WAIT_AD"
  <2>1. Ads("gc") \in 1 .. Blocks(rq.case) BY <1>3, <1>6 DEF CoresInv, TakenInv, TakenIn
  <2>2. Blocks(rq.case) \in {1, 2} BY PlannedRequest
  <2>. QED BY <1>4, <2>1, <2>2 DEF Ads
<1>. QED BY <1>1, <1>5, <1>6

\* What the core shows at the end of a clock, by the state it is in then.
LEMMA ClockResult ==
  ASSUME CoresInv, ValuesInv, Hardware, Testing, doing \notin BeforeStart, Sound(rq.core),
         NEW c \in Cores, c = rq.core, rq.mode # "forged"
  PROVE  /\ core'[c].state \in OutStates[c] => core'[c].out = Yields(rq, Len(core'[c].in.msgs))
         /\ core'[c].state \in TagStates[c] => core'[c].tag = <<rq.case, "tag">>
<1> DEFINE now == core[c]  next == core'[c]
<1>0. PICK blocks : blocks = Blocks(rq.case) OBVIOUS
<1>1. OutputsFrom(c, next) BY ClockOutputs
<1>2. Fed(next.in) BY ClockFed
<1>3. InShape(next.in) BY CoreTypes
<1>4. next.in.mode = Mode(rq) /\ TakenIn(c, blocks)' BY <1>0, StepTaken
<1>5. blocks \in {1, 2} BY <1>0, PlannedRequest
<1>6. ASSUME next.state \in OutStates[c] \cup TagStates[c]
      PROVE  Len(next.in.ads) = blocks /\ Len(next.in.msgs) \in 1 .. blocks
  <2>1. next.state \in {"WAIT_MSG", "REQ_MSG", "DONE", "IDLE"}
    BY <1>6 DEF OutStates, TagStates, Cores
  <2>2. \/ next.state = "REQ_MSG" /\ Ads(c)' = blocks /\ Msgs(c)' \in 1 .. blocks - 1
        \/ next.state = "WAIT_MSG" /\ Ads(c)' = blocks /\ Msgs(c)' \in 1 .. blocks
        \/ next.state \in {"DONE", "IDLE"} /\ Ads(c)' = blocks /\ Msgs(c)' = blocks
    BY <1>4, <2>1 DEF TakenIn
  <2>. QED BY <1>5, <2>2 DEF Ads, Msgs
<1>7. ASSUME next.state \in OutStates[c] \cup TagStates[c]
      PROVE  /\ Out(c, next.in) = Yields(rq, Len(next.in.msgs))
             /\ Tag(c, next.in) = <<rq.case, "tag">>
  BY <1>0, <1>2, <1>3, <1>4, <1>6, <1>7, Computes
<1>8. ASSUME c \notin strobe
      PROVE  /\ now.state \in OutStates[c] => now.out = Yields(rq, Len(now.in.msgs))
             /\ now.state \in TagStates[c] => now.tag = <<rq.case, "tag">>
  BY <1>8 DEF ValuesInv, ResultInv, Started, Msgs
<1> HIDE DEF next, now
<1>9. next.state \in OutStates[c] => next.out = Yields(rq, Len(next.in.msgs))
  BY <1>1, <1>7, <1>8 DEF OutputsFrom, now
<1>10. next.state \in TagStates[c] => next.tag = <<rq.case, "tag">>
  BY <1>1, <1>7, <1>8 DEF OutputsFrom, now
<1>. QED BY <1>9, <1>10 DEF next

\* A core without outputs, or without a tag, never shows any.
LEMMA ClockBroken == CoresInv /\ ValuesInv /\ Hardware => BrokenInv'
<1> SUFFICES ASSUME CoresInv, ValuesInv, Hardware, NEW c \in Cores
             PROVE  /\ Faulty(c, "out") => core'[c].out \in {Junk, Zero}
                    /\ Faulty(c, "tag") => core'[c].tag \in {Junk, Zero}
  BY DEF BrokenInv, Faulty, Hardware
<1>1. OutputsFrom(c, core'[c]) BY ClockOutputs
<1>2. /\ Faulty(c, "out") => core[c].out \in {Junk, Zero}
      /\ Faulty(c, "tag") => core[c].tag \in {Junk, Zero}
  BY DEF ValuesInv, BrokenInv
<1>3. /\ Faulty(c, "out") => Out(c, core'[c].in) = Junk
      /\ Faulty(c, "tag") => Tag(c, core'[c].in) = Junk
  BY DEF Out, Tag
<1>. QED BY <1>1, <1>2, <1>3 DEF OutputsFrom

\* The core's verdict, when it is done and in the register that keeps it.
Judges == rq.mode # "enc" /\ (Sound(rq.core) \/ fault[2] \in {"rejects", "accepts"})
LEMMA ClockValid ==
  ASSUME CoresInv, ValuesInv, Hardware, Testing, doing \notin BeforeStart, Judges,
         NEW c \in Cores, c = rq.core
  PROVE  /\ core'[c].done \/ (c = "jb" /\ core'["jb"].state = "DONE")
              => (core'[c].valid <=> Accepts)
         /\ sticky'[c].done => (sticky'[c].valid <=> Accepts)
<1> DEFINE now == core[c]  next == core'[c]
<1>0. PICK blocks : blocks = Blocks(rq.case) OBVIOUS
<1>1. OutputsFrom(c, next) BY ClockOutputs
<1>2. InShape(next.in) /\ InShape(now.in) BY CoreTypes DEF CoresInv, Shapes, InShape
<1>3. next.in.mode = Mode(rq) /\ TakenIn(c, blocks)' BY <1>0, StepTaken
<1>4. fault \in Faults BY DEF ValuesInv, JudgedInv
<1>5. rq.mode # "enc" /\ (Sound(rq.core) \/ fault[2] \in {"rejects", "accepts"}) BY DEF Judges
<1>6. blocks \in {1, 2} BY <1>0, PlannedRequest
<1>7. ASSUME c \notin strobe
      PROVE  /\ now.in.mode = Mode(rq)
             /\ now.done \/ (c = "jb" /\ now.state = "DONE") => (now.valid <=> Accepts)
             /\ sticky[c].done => (sticky[c].valid <=> Accepts)
  BY <1>5, <1>7 DEF ValuesInv, ValidInv, Started, CoresInv, TakenInv
<1>8. Sound(rq.core) => Fed(next.in) BY ClockFed
<1>9. ASSUME next.state \in TagStates[c]
      PROVE  Valid(c, next.in, Tag(c, next.in)) <=> Accepts
  <2>1. next.state \in {"DONE", "IDLE"} BY <1>9 DEF TagStates, Cores
  <2>2. Ads(c)' = blocks /\ Msgs(c)' = blocks BY <1>3, <2>1 DEF TakenIn
  <2>3. Len(next.in.ads) = blocks /\ Len(next.in.msgs) \in 1 .. blocks
    BY <1>6, <2>2 DEF Ads, Msgs
  <2>4. Sound(rq.core) => Tag(c, next.in) = IF rq.mode = "forged" THEN Junk ELSE <<rq.case, "tag">>
    BY <1>0, <1>2, <1>3, <1>8, <2>3, Computes
  <2>5. Sound(rq.core) => next.in.tag = Given(rq, "tag", 1) BY <1>5, <1>8 DEF Fed
  <2> DEFINE tag == Tag(c, next.in)  in == next.in
  <2>6. /\ in.mode = Mode(rq) /\ (in.tag = Given(rq, "tag", 1) \/ ~Sound(rq.core))
        /\ tag = (IF rq.mode = "forged" THEN Junk ELSE <<rq.case, "tag">>) \/ ~Sound(rq.core)
    BY <1>3, <2>4, <2>5
  <2> HIDE DEF tag, in
  <2>7. Valid(rq.core, in, tag) <=> Accepts BY <1>4, <1>5, <2>6, Verdicts
  <2>. QED BY <2>7 DEF tag, in
<1>10. ASSUME c = "gc", c \notin strobe, now.state = "DONE"
       PROVE  Valid(c, [now.in EXCEPT !.tag = Reg(c, "tag")], now.tag) <=> Accepts
  <2> DEFINE tag == now.tag  in == [now.in EXCEPT !.tag = Reg(c, "tag")]
  <2>1. in.mode = Mode(rq) /\ in.tag = Reg(c, "tag")
    BY <1>2, <1>7, <1>10 DEF InShape, InFields
  <2>2. Sound(rq.core) => Reg(c, "tag") = Given(rq, "tag", 1) BY <1>5, ToBeFed, RegIs
  <2>3. rq.mode # "forged" BY <1>10, PlannedRequest
  <2>4. Sound(rq.core) => tag = <<rq.case, "tag">>
    BY <1>10, <2>3 DEF ValuesInv, ResultInv, Started, TagStates
  <2>5. /\ in.tag = Given(rq, "tag", 1) \/ ~Sound(rq.core)
        /\ tag = (IF rq.mode = "forged" THEN Junk ELSE <<rq.case, "tag">>) \/ ~Sound(rq.core)
    BY <2>1, <2>2, <2>3, <2>4
  <2>6. in.mode = Mode(rq) BY <2>1
  <2> HIDE DEF tag, in
  <2>7. Valid(rq.core, in, tag) <=> Accepts BY <1>4, <1>5, <2>5, <2>6, Verdicts
  <2>. QED BY <2>7 DEF tag, in
<1> HIDE DEF now, next
<1>11. next.done \/ (c = "jb" /\ next.state = "DONE") => (next.valid <=> Accepts)
  <2> SUFFICES ASSUME next.done \/ (c = "jb" /\ next.state = "DONE") PROVE next.valid <=> Accepts
    OBVIOUS
  <2>1. CASE next.state \in TagStates[c] /\ (next.valid <=> Valid(c, next.in, Tag(c, next.in)))
    BY <1>9, <2>1
  <2>2. CASE c = "jb" /\ c \notin strobe /\ now.state = "DONE" /\ (next.valid <=> now.valid)
    BY <1>7, <2>2
  <2>3. CASE /\ c = "gc" /\ c \notin strobe /\ now.state = "DONE"
             /\ next.valid <=> Valid(c, [now.in EXCEPT !.tag = Reg(c, "tag")], now.tag)
    BY <1>10, <2>3
  <2>. QED BY <1>1, <2>1, <2>2, <2>3 DEF OutputsFrom, now
<1>12. sticky'[c].done => (sticky'[c].valid <=> Accepts)
  <2> SUFFICES ASSUME sticky'[c].done PROVE sticky'[c].valid <=> Accepts OBVIOUS
  <2>1. c \notin strobe BY DEF Hardware, StickyClock
  <2>2. CASE core[c].done
    <3>1. sticky'[c].valid = core[c].valid BY <2>1, <2>2 DEF Hardware, StickyClock
    <3>. QED BY <1>7, <2>1, <2>2, <3>1 DEF now
  <2>3. CASE ~core[c].done
    <3>1. sticky'[c] = sticky[c] BY <2>1, <2>3 DEF Hardware, StickyClock
    <3>. QED BY <1>7, <2>1, <3>1
  <2>. QED BY <2>2, <2>3
<1>. QED BY <1>11, <1>12 DEF next

-------------------------------------------------------------------------------
(* The driver's lists and sources *)

LEMMA InputsAre ==
  ASSUME NEW request
  PROVE  LET list == Inputs(request)
         IN  /\ Len(list) \in {4, 5}
             /\ list[1] = "key" /\ list[2] = "nonce" /\ list[3] = "ad" /\ list[4] = "data"
             /\ request.mode # "enc" => Len(list) = 5
             /\ Len(list) = 5 => list[5] = "tag"
             /\ \A e \in 1 .. Len(list) : list[e] \in RegWords
<1>1. CASE request.core = "jb" /\ request.mode = "enc"
  <2>1. Inputs(request) = <<"key", "nonce", "ad", "data">> BY <1>1 DEF Inputs
  <2>. QED BY <1>1, <2>1 DEF RegWords
<1>2. CASE ~(request.core = "jb" /\ request.mode = "enc")
  <2> DEFINE s == <<"key", "nonce", "ad", "data">>  t == <<"tag">>
  <2>1. Inputs(request) = s \o t BY <1>2 DEF Inputs
  <2>2. /\ s \in Seq(RegWords) /\ Len(s) = 4
        /\ s[1] = "key" /\ s[2] = "nonce" /\ s[3] = "ad" /\ s[4] = "data"
    BY DEF RegWords
  <2>3. t \in Seq(RegWords) /\ Len(t) = 1 /\ t[1] = "tag" BY DEF RegWords
  <2> HIDE DEF s, t
  <2>4. s \in Seq(RegWords) /\ t \in Seq(RegWords) BY <2>2, <2>3
  <2>5. /\ s \o t \in Seq(RegWords) /\ Len(s \o t) = Len(s) + Len(t)
        /\ \A i \in 1 .. Len(s) : (s \o t)[i] = s[i]
        /\ \A i \in 1 .. Len(t) : (s \o t)[Len(s) + i] = t[i]
    BY <2>4, Joined
  <2>6. Inputs(request) \in Seq(RegWords) /\ Len(Inputs(request)) = 5
    BY <2>1, <2>2, <2>3, <2>5
  <2>7. /\ Inputs(request)[1] = "key" /\ Inputs(request)[2] = "nonce"
        /\ Inputs(request)[3] = "ad" /\ Inputs(request)[4] = "data"
    <3>1. 1 \in 1 .. Len(s) /\ 2 \in 1 .. Len(s) /\ 3 \in 1 .. Len(s) /\ 4 \in 1 .. Len(s)
      BY <2>2
    <3>. QED BY <2>1, <2>2, <2>5, <3>1
  <2>8. Inputs(request)[5] = "tag"
    <3>1. (s \o t)[Len(s) + 1] = t[1] BY <2>3, <2>5
    <3>2. Len(s) + 1 = 5 BY <2>2
    <3>. QED BY <2>1, <2>3, <3>1, <3>2
  <2>9. \A e \in 1 .. Len(Inputs(request)) : Inputs(request)[e] \in RegWords BY <2>6
  <2>. QED BY <2>6, <2>7, <2>8, <2>9
<1>. QED BY <1>1, <1>2

LEMMA OutputsAre ==
  ASSUME NEW request, request.mode \in {"enc", "dec", "forged"}, Blocks(request.case) \in {1, 2},
         request.mode = "forged" => Blocks(request.case) = 1
  PROVE  LET list == OutputsOf(request, Blocks(request.case))
             last == OutName(request, Blocks(request.case))
         IN  /\ request.mode = "enc" => Len(list) = 2 /\ list[1] = last /\ list[2] = "tag"
             /\ request.mode = "dec" => Len(list) = 1 /\ list[1] = last
             /\ request.mode = "forged" => Len(list) = 0
             /\ last \in Names \ {"tag"}
             /\ Blocks(request.case) = 2 =>
                  /\ Len(OutputsOf(request, 1)) = 1
                  /\ OutputsOf(request, 1)[1] = OutName(request, 1)
                  /\ OutName(request, 1) \in Names \ {"tag", last}
<1>1. /\ Part["ct"][1] = "ct1" /\ Part["ct"][2] = "ct2" /\ Part["pt"][1] = "pt1" /\ Part["pt"][2] = "pt2"
  BY DEF Part
<1>2. Blocks(request.case) = 2 => 1 # Blocks(request.case) OBVIOUS
<1>3. CASE request.mode = "enc"
  <2> DEFINE len == Blocks(request.case)  s == <<Part["ct"][len]>>  t == <<"tag">>
  <2>1. OutputsOf(request, len) = s \o t BY <1>3 DEF OutputsOf
  <2>2. s \in Seq(Names) /\ Len(s) = 1 /\ s[1] = Part["ct"][len] BY <1>1 DEF Names
  <2>3. t \in Seq(Names) /\ Len(t) = 1 /\ t[1] = "tag" BY DEF Names
  <2>4. Blocks(request.case) = 2 => OutputsOf(request, 1) = <<Part["ct"][1]>>
    <3> SUFFICES ASSUME Blocks(request.case) = 2 PROVE OutputsOf(request, 1) = <<Part["ct"][1]>>
      OBVIOUS
    <3>1. OutputsOf(request, 1) = <<Part["ct"][1]>> \o << >> BY <1>3 DEF OutputsOf
    <3>. QED BY <1>1, <3>1
  <2> HIDE DEF s, t, len
  <2>5. s \in Seq(Names) /\ t \in Seq(Names) BY <2>2, <2>3
  <2>6. /\ Len(s \o t) = Len(s) + Len(t)
        /\ \A i \in 1 .. Len(s) : (s \o t)[i] = s[i]
        /\ \A i \in 1 .. Len(t) : (s \o t)[Len(s) + i] = t[i]
    BY <2>5, Joined
  <2>7. (s \o t)[1] = s[1] /\ (s \o t)[Len(s) + 1] = t[1] BY <2>2, <2>3, <2>6
  <2>8. /\ Len(OutputsOf(request, len)) = 2
        /\ OutputsOf(request, len)[1] = Part["ct"][len] /\ OutputsOf(request, len)[2] = "tag"
    BY <2>1, <2>2, <2>3, <2>6, <2>7
  <2>. QED BY <1>1, <1>3, <2>4, <2>8 DEF OutName, Names, len
<1>4. CASE request.mode = "dec"
  <2>1. OutputsOf(request, Blocks(request.case)) = <<Part["pt"][Blocks(request.case)]>>
    BY <1>4 DEF OutputsOf
  <2>2. OutputsOf(request, 1) = <<Part["pt"][1]>> BY <1>4 DEF OutputsOf
  <2>. QED BY <1>1, <1>4, <2>1, <2>2 DEF OutName, Names
<1>5. CASE request.mode = "forged"
  <2>1. OutputsOf(request, Blocks(request.case)) = << >> BY <1>5 DEF OutputsOf
  <2>. QED BY <1>1, <1>5, <2>1 DEF OutName, Names
<1>. QED BY <1>3, <1>4, <1>5

\* What the driver writes is what the request is to be fed with.
LEMMA SourceIsGiven ==
  ASSUME GotInv, Testing, Sound(rq.core), NEW name \in RegWords, NEW block \in 1 .. Blocks(rq.case),
         NEW w \in 1 .. Words
  PROVE  Source(rq, name, block, w) = Given(rq, name, block)
<1>1. rq.mode \in {"enc", "dec", "forged"} /\ Blocks(rq.case) \in {1, 2} BY PlannedRequest
<1>2. rq.mode = "dec" => /\ got[Part["ct"][block]][w] = <<rq.case, Part["ct"][block]>>
                         /\ got["tag"][w] = <<rq.case, "tag">>
  <2> SUFFICES ASSUME rq.mode = "dec"
               PROVE  /\ got[Part["ct"][block]][w] = <<rq.case, Part["ct"][block]>>
                      /\ got["tag"][w] = <<rq.case, "tag">>
    OBVIOUS
  <2>1. /\ got[Part["ct"][block]] = Spread(<<rq.case, Part["ct"][block]>>)
        /\ got["tag"] = Spread(<<rq.case, "tag">>)
    BY DEF GotInv
  <2>2. \A value : Spread(value)[w] = value BY DEF Spread
  <2>. QED BY <2>1, <2>2
<1>3. CASE name \in {"key", "nonce"} BY <1>3 DEF Source, Given
<1>4. CASE name = "ad" BY <1>4 DEF Source, Given
<1>5. CASE name = "data"
  <2>1. Source(rq, name, block, w) = DataSource(rq, block, w) BY <1>5 DEF Source
  <2>2. Given(rq, name, block) = IF rq.mode = "forged" THEN <<rq.case, "other ct">>
                                 ELSE <<rq.case, Part[IF rq.mode = "enc" THEN "pt" ELSE "ct"][block]>>
    BY <1>5 DEF Given
  <2>3. CASE rq.mode # "dec" BY <1>1, <2>1, <2>2, <2>3 DEF DataSource
  <2>4. CASE rq.mode = "dec" /\ rq.case # "gcA" BY <1>2, <2>1, <2>2, <2>4 DEF DataSource
  <2>5. CASE rq.mode = "dec" /\ rq.case = "gcA"
    <3>1. block = 1 BY <2>5 DEF Blocks
    <3>2. Part["ct"][1] = "ct1" BY DEF Part
    <3>. QED BY <2>1, <2>2, <2>5, <3>1, <3>2 DEF DataSource
  <2>. QED BY <2>3, <2>4, <2>5
<1>6. CASE name = "tag" BY <1>1, <1>2, <1>6 DEF Source, Given, TagSource
<1>. QED BY <1>3, <1>4, <1>5, <1>6 DEF RegWords

-------------------------------------------------------------------------------
(* Places in a list *)

LEMMA ListBegins ==
  ASSUME item' = 1
  PROVE  \A e, w \in Nat \ {0} : ~Before(e, w)'
<1>1. Words \in Nat \ {0} BY CoresAssumption
<1>2. 1 = 0 * Words + 1 /\ 1 \in 1 .. Words /\ 0 \in Nat BY <1>1
<1>3. (0 * Words + 1 - 1) \div Words = 0 /\ 1 + ((0 * Words + 1 - 1) % Words) = 1
  BY <1>1, <1>2, PlaceIsUnique
<1>4. Quot' = 0 /\ Word' = 1 BY <1>1, <1>3 DEF Quot, Word
<1>. QED BY <1>4 DEF Before

LEMMA ListGoesOn ==
  ASSUME item \in Nat \ {0}, item' = item + 1, NEW e \in Nat \ {0}, NEW w \in 1 .. Words
  PROVE  Before(e, w)' => Before(e, w) \/ (e = Quot + 1 /\ w = Word)
<1>1. Words \in Nat \ {0} BY CoresAssumption
<1>2. Quot \in Nat /\ Word \in 1 .. Words BY ItemPlace
<1>3. \/ Word < Words /\ Quot' = Quot /\ Word' = Word + 1
      \/ Word = Words /\ Quot' = Quot + 1 /\ Word' = 1
  BY NextPlace
<1>. QED BY <1>1, <1>2, <1>3 DEF Before

LEMMA ListEnds ==
  ASSUME item \in Nat \ {0}, NEW len \in Nat \ {0}, item = len * Words,
         NEW e \in 1 .. len, NEW w \in 1 .. Words
  PROVE  Before(e, w) \/ (e = Quot + 1 /\ w = Word)
<1>1. Words \in Nat \ {0} BY CoresAssumption
<1>2. Quot = len - 1 /\ Word = Words BY LastPlace
<1>. QED BY <1>1, <1>2 DEF Before

LEMMA InList ==
  ASSUME NEW len \in Nat \ {0}, item \in 1 .. len * Words
  PROVE  /\ item \in Nat \ {0} /\ Quot + 1 \in 1 .. len /\ Word \in 1 .. Words
         /\ item # len * Words => item + 1 \in 1 .. len * Words
<1>1. Words \in Nat \ {0} BY CoresAssumption
<1>2. len * Words \in Nat BY <1>1
<1>3. item \in Nat \ {0} BY <1>2
<1>4. Quot \in Nat /\ Word \in 1 .. Words BY <1>3, ItemPlace
<1>5. Quot < len BY <1>3, LastPlace
<1>. QED BY <1>2, <1>3, <1>4, <1>5

-------------------------------------------------------------------------------
(* Steps within a request *)

LEMMA SameRequest ==
  ASSUME Access \/ Idle, ~Judge
  PROVE  at' = at /\ rq' = rq /\ (Testing' <=> Testing) /\ failed' = failed
<1>1. at' = at BY DriverMoves DEF Idle
<1>2. failed' = failed
  BY DEF Access, Idle, Load, Start, Poll, AdBlock, AckAd, SaveBlock, MsgBlock, AckMsg, ReadResults,
         ReadValid, KeepPlan
<1>. QED BY <1>1, <1>2 DEF rq, Testing

LEMMA StartedBefore ==
  ASSUME Access \/ Idle, ~Judge, Started'
  PROVE  doing \notin BeforeStart
<1>1. rq' = rq BY SameRequest
<1>2. doing' \notin BeforeStart /\ rq.core \notin strobe' BY <1>1 DEF Started
<1>3. CASE Idle BY <1>2, <1>3 DEF Idle
<1>4. CASE Access BY <1>2, <1>4, DriverMoves DEF Leads, BeforeStart
<1>. QED BY <1>3, <1>4

LEMMA RegsKept ==
  ASSUME CoresInv, Access \/ Idle, doing # "load", NEW c \in Cores, NEW name \in RegWords,
         ~(name = "ad" /\ doing = "ad block"), ~(name = "data" /\ doing = "msg block")
  PROVE  regs'[c][name] = regs[c][name]
<1>1. DOMAIN regs = Cores /\ DOMAIN regs[c] = RegFields BY DEF CoresInv, Shapes
<1>2. name \notin {"mode", "ads", "msgs"} BY DEF RegWords
<1>3. CASE regs' = regs BY <1>3
<1>4. ASSUME NEW d, NEW field, NEW w, NEW value, regs' = [regs EXCEPT ![d][field][w] = value],
             name # field
      PROVE  regs'[c][name] = regs[c][name]
  <2>1. CASE c = d
    <3>1. regs'[c] = [regs[c] EXCEPT ![field] = [regs[c][field] EXCEPT ![w] = value]]
      BY <1>1, <1>4, <2>1
    <3>2. name \in DOMAIN regs[c] BY <1>1 DEF RegFields
    <3>. QED BY <1>4, <3>1, <3>2
  <2>2. CASE c # d BY <1>1, <1>4, <2>2
  <2>. QED BY <2>1, <2>2
<1>5. CASE doing = "ad block" /\ WriteInput("ad", 2)
  BY <1>4, <1>5 DEF WriteInput, WriteWord
<1>6. CASE doing = "msg block" /\ WriteInput("data", 2)
  BY <1>4, <1>6 DEF WriteInput, WriteWord
<1>7. ASSUME NEW d, NEW mode, NEW len,
             regs' = [regs EXCEPT ![d].mode = mode, ![d].ads = len, ![d].msgs = len]
      PROVE  regs'[c][name] = regs[c][name]
  <2>1. CASE c = d
    <3> DEFINE first == [regs EXCEPT ![d].mode = mode]
               second == [first EXCEPT ![d].ads = len]
    <3>1. regs' = [second EXCEPT ![d].msgs = len] BY <1>7
    <3>2. DOMAIN first = Cores /\ first[d] = [regs[d] EXCEPT !["mode"] = mode] BY <1>1, <2>1
    <3> HIDE DEF first
    <3>3. DOMAIN second = Cores /\ second[d] = [first[d] EXCEPT !["ads"] = len] BY <2>1, <3>2
    <3> HIDE DEF second
    <3>4. regs'[d] = [second[d] EXCEPT !["msgs"] = len] BY <2>1, <3>1, <3>3
    <3>5. name \in DOMAIN regs[c] BY <1>1 DEF RegFields
    <3>. QED BY <1>2, <2>1, <3>2, <3>3, <3>4, <3>5
  <2>2. CASE c # d BY <1>1, <1>2, <1>7, <2>2
  <2>. QED BY <2>1, <2>2
<1>8. CASE regs' = [regs EXCEPT ![rq.core].mode = Mode(rq), ![rq.core].ads = Blocks(rq.case),
                                ![rq.core].msgs = Blocks(rq.case)]
  BY <1>7, <1>8
<1>. QED BY <1>3, <1>5, <1>6, <1>8, RegsWritten

\* An input of the request after a step.
LEMMA PutAfter ==
  ASSUME rq' = rq, NEW name, NEW block
  PROVE  Put(name, block)' <=> \A w \in 1 .. Words : regs'[rq.core][name][w] = Given(rq, name, block)
<1>1. Given(rq, name, block)' = Given(rq, name, block) BY DEF Given
<1>. QED BY <1>1 DEF Put

-------------------------------------------------------------------------------
(* The registers of the request after a clock *)

\* A core takes in one block at a time.
LEMMA ClockCounts ==
  ASSUME CoresInv, Hardware, NEW c \in Cores, c \notin strobe
  PROVE  /\ Ads(c) \in Nat /\ Msgs(c) \in Nat
         /\ \/ Ads(c)' = Ads(c) /\ Msgs(c)' = Msgs(c)
            \/ core[c].state \in {"LATCH_AD", "PROC_AD"} /\ Ads(c)' = Ads(c) + 1 /\ Msgs(c)' = Msgs(c)
            \/ core[c].state \in {"LATCH_DAT", "PROC_MSG"} /\ Ads(c)' = Ads(c) /\ Msgs(c)' = Msgs(c) + 1
<1> DEFINE in == core[c].in  next == core'[c].in
<1>1. InShape(in) BY DEF CoresInv, Shapes, InShape
<1>2. Len(in.ads) \in Nat /\ Len(in.msgs) \in Nat BY <1>1, Counted
<1>3. /\ InShape(TakeAd(c, in))
      /\ Len(TakeAd(c, in).ads) = Len(in.ads) + 1 /\ TakeAd(c, in).msgs = in.msgs
  BY <1>1, AdTaken
<1>4. /\ InShape(TakeMsg(c, in))
      /\ Len(TakeMsg(c, in).msgs) = Len(in.msgs) + 1 /\ TakeMsg(c, in).ads = in.ads
  BY <1>1, MsgTaken
<1>5. /\ Key(TakeAd(c, in)).ads = TakeAd(c, in).ads /\ Key(TakeAd(c, in)).msgs = TakeAd(c, in).msgs
      /\ Key(TakeMsg(c, in)).ads = TakeMsg(c, in).ads /\ Key(TakeMsg(c, in)).msgs = TakeMsg(c, in).msgs
  BY <1>3, <1>4, KeyTaken
<1>6. \/ next = in
      \/ core[c].state \in {"LATCH_AD", "PROC_AD"} /\ next \in {TakeAd(c, in), Key(TakeAd(c, in))}
      \/ core[c].state \in {"LATCH_DAT", "PROC_MSG"} /\ next \in {TakeMsg(c, in), Key(TakeMsg(c, in))}
  BY ClockInputs
<1>7. CASE next = in BY <1>2, <1>7 DEF Ads, Msgs
<1>8. CASE core[c].state \in {"LATCH_AD", "PROC_AD"} /\ next \in {TakeAd(c, in), Key(TakeAd(c, in))}
  <2>1. Len(next.ads) = Len(in.ads) + 1 /\ next.msgs = in.msgs BY <1>3, <1>5, <1>8
  <2>. QED BY <1>2, <1>8, <2>1 DEF Ads, Msgs
<1>9. CASE core[c].state \in {"LATCH_DAT", "PROC_MSG"} /\ next \in {TakeMsg(c, in), Key(TakeMsg(c, in))}
  <2>1. Len(next.msgs) = Len(in.msgs) + 1 /\ next.ads = in.ads BY <1>4, <1>5, <1>9
  <2>. QED BY <1>2, <1>9, <2>1 DEF Ads, Msgs
<1>. QED BY <1>6, <1>7, <1>8, <1>9

\* A word is where it was written, and the rest of the register is as it was.
LEMMA WordPut ==
  ASSUME CoresInv, NEW c \in Cores, NEW field \in RegWords, NEW w \in 1 .. Words, NEW value
  PROVE  LET after == [regs EXCEPT ![c][field][w] = value]
         IN  /\ after[c][field][w] = value
             /\ \A name \in RegWords, v \in 1 .. Words :
                  ~(name = field /\ v = w) => after[c][name][v] = regs[c][name][v]
<1> DEFINE after == [regs EXCEPT ![c][field][w] = value]
<1>1. /\ DOMAIN regs = Cores /\ DOMAIN regs[c] = RegFields
      /\ \A name \in RegWords : DOMAIN regs[c][name] = 1 .. Words /\ name \in RegFields
  BY DEF CoresInv, Shapes, RegFields
<1> DEFINE block == [regs[c][field] EXCEPT ![w] = value]
<1>2. after = [regs EXCEPT ![c] = [regs[c] EXCEPT ![field] = block]] OBVIOUS
<1>3. block[w] = value /\ \A v \in 1 .. Words : v # w => block[v] = regs[c][field][v] BY <1>1
<1> HIDE DEF block, after
<1>4. after[c] = [regs[c] EXCEPT ![field] = block] BY <1>1, <1>2
<1>5. after[c][field] = block /\ \A name \in RegWords : name # field => after[c][name] = regs[c][name]
  BY <1>1, <1>4
<1>6. /\ after[c][field][w] = value
      /\ \A name \in RegWords, v \in 1 .. Words :
           ~(name = field /\ v = w) => after[c][name][v] = regs[c][name][v]
  BY <1>3, <1>5
<1>. QED BY <1>6 DEF after

\* While the inputs are loaded.
LEMMA RegsLoad ==
  ASSUME CoresInv, ValuesInv, Load, Sound(rq.core), fault' = fault
  PROVE  RegsInv'
<1> DEFINE list == Inputs(rq)  c == rq.core
<1>1. Testing /\ doing = "load" BY DEF Load, Doing
<1>2. c \in Cores /\ rq.mode \in {"enc", "dec", "forged"} /\ Blocks(rq.case) \in {1, 2}
  BY <1>1, PlannedRequest
<1>3. Access /\ ~Judge BY <1>1 DEF Access, Judge, Doing
<1>4. rq' = rq /\ (Testing' <=> Testing) BY <1>3, SameRequest
<1>5. /\ Len(list) \in {4, 5}
      /\ list[1] = "key" /\ list[2] = "nonce" /\ list[3] = "ad" /\ list[4] = "data"
      /\ rq.mode # "enc" => Len(list) = 5
      /\ Len(list) = 5 => list[5] = "tag"
      /\ \A e \in 1 .. Len(list) : list[e] \in RegWords
  BY InputsAre
<1>6. PICK len : len = Len(list) OBVIOUS
<1>7. /\ item \in 1 .. len * Words
      /\ \A e \in 1 .. len, w \in 1 .. Words :
           Before(e, w) => regs[c][list[e]][w] = Given(rq, list[e], 1)
  BY <1>1, <1>6 DEF ValuesInv, RegsInv
<1>8. len \in Nat \ {0} BY <1>5, <1>6
<1>9. /\ item \in Nat \ {0} /\ Quot + 1 \in 1 .. len /\ Word \in 1 .. Words
      /\ item # len * Words => item + 1 \in 1 .. len * Words
  BY <1>7, <1>8, InList
<1> DEFINE q == Quot + 1  name == list[q]
<1>10. name \in RegWords /\ Entry(list) = name
  <2>1. name \in RegWords BY <1>5, <1>6, <1>9
  <2>2. 1 + Quot = Quot + 1
    <3>1. Quot \in Nat BY <1>9, ItemPlace
    <3>. QED BY <3>1
  <2>. QED BY <2>1, <2>2 DEF Entry, Quot
<1>11. Source(rq, name, 1, Word) = Given(rq, name, 1)
  <2>1. 1 \in 1 .. Blocks(rq.case) BY <1>2
  <2>. QED BY <1>1, <1>9, <1>10, <2>1, SourceIsGiven DEF ValuesInv
<1> HIDE DEF list, name
<1>12. regs' = [regs EXCEPT ![c][name][Word] = Given(rq, name, 1)] /\ strobe' = {}
  BY <1>10, <1>11 DEF Load, WriteInput, WriteWord, list
<1>13. /\ regs'[c][name][Word] = Given(rq, name, 1)
       /\ \A field \in RegWords, v \in 1 .. Words :
            ~(field = name /\ v = Word) => regs'[c][field][v] = regs[c][field][v]
  <2> DEFINE here == Word
             value == Given(rq, name, 1)
             after == [regs EXCEPT ![c][name][here] = value]
  <2>1. here \in 1 .. Words /\ regs' = after BY <1>9, <1>12
  <2> HIDE DEF here, value, c
  <2>2. c \in Cores /\ name \in RegWords BY <1>2, <1>10 DEF c
  <2>3. /\ after[c][name][here] = value
        /\ \A field \in RegWords, v \in 1 .. Words :
             ~(field = name /\ v = here) => after[c][field][v] = regs[c][field][v]
    BY <2>1, <2>2, WordPut
  <2> HIDE DEF after
  <2>. QED BY <2>1, <2>3 DEF here, value
<1>14. ASSUME NEW e \in 1 .. len, NEW w \in 1 .. Words, Before(e, w) \/ (e = Quot + 1 /\ w = Word)
       PROVE  regs'[c][list[e]][w] = Given(rq, list[e], 1)
  <2>1. list[e] \in RegWords BY <1>5, <1>6 DEF list
  <2>2. CASE list[e] = name /\ w = Word BY <1>13, <2>2
  <2>3. CASE ~(list[e] = name /\ w = Word)
    <3>1. Before(e, w) BY <1>14, <2>3 DEF name
    <3>. QED BY <1>7, <1>13, <2>1, <2>3, <3>1
  <2>. QED BY <2>2, <2>3
<1>15. c' = c /\ Inputs(rq)' = list BY <1>4 DEF list, Inputs
<1>16. \A field, block : Given(rq, field, block)' = Given(rq, field, block) BY <1>4 DEF Given
<1>17. CASE item = len * Words
  <2>1. doing' = "start" /\ item' = 1 BY <1>6, <1>17 DEF Load, Through, LastOf, Then, list
  <2>2. \A e \in 1 .. len, w \in 1 .. Words : regs'[c][list[e]][w] = Given(rq, list[e], 1)
    BY <1>8, <1>9, <1>14, <1>17, ListEnds
  <2>3. /\ 1 \in 1 .. len /\ 2 \in 1 .. len /\ 3 \in 1 .. len /\ 4 \in 1 .. len
        /\ rq.mode # "enc" => 5 \in 1 .. len
    BY <1>5, <1>6 DEF list
  <2>4. /\ \A w \in 1 .. Words : regs'[c]["key"][w] = Given(rq, "key", 1)
        /\ \A w \in 1 .. Words : regs'[c]["nonce"][w] = Given(rq, "nonce", 1)
        /\ \A w \in 1 .. Words : regs'[c]["ad"][w] = Given(rq, "ad", 1)
        /\ \A w \in 1 .. Words : regs'[c]["data"][w] = Given(rq, "data", 1)
        /\ rq.mode # "enc" => \A w \in 1 .. Words : regs'[c]["tag"][w] = Given(rq, "tag", 1)
    BY <1>5, <2>2, <2>3 DEF list
  <2>5. /\ Put("key", 1)' /\ Put("nonce", 1)' /\ Put("ad", 1)' /\ Put("data", 1)'
        /\ rq.mode # "enc" => Put("tag", 1)'
    BY <1>4, <2>4, PutAfter
  <2>6. ~Started' BY <2>1 DEF Started, BeforeStart
  <2>. QED BY <1>4, <2>1, <2>5, <2>6 DEF RegsInv
<1>18. CASE item # len * Words
  <2>1. doing' = "load" /\ item' = item + 1
    BY <1>1, <1>6, <1>18 DEF Load, Through, LastOf, Then, list
  <2>2. item' \in 1 .. len * Words BY <1>9, <1>18, <2>1
  <2>3. ASSUME NEW e \in 1 .. len, NEW w \in 1 .. Words, Before(e, w)'
        PROVE  regs'[c][list[e]][w] = Given(rq, list[e], 1)
    <3>1. e \in Nat \ {0} BY <1>8
    <3>2. Before(e, w) \/ (e = Quot + 1 /\ w = Word) BY <1>9, <2>1, <2>3, <3>1, ListGoesOn
    <3>. QED BY <1>14, <3>2
  <2>4. /\ item' \in 1 .. Len(Inputs(rq)') * Words
        /\ \A e \in 1 .. Len(Inputs(rq)'), w \in 1 .. Words :
             Before(e, w)' => regs'[c'][Inputs(rq)'[e]][w] = Given(rq, Inputs(rq)[e], 1)'
    BY <1>6, <1>15, <1>16, <2>2, <2>3 DEF list
  <2>5. ~Started' /\ strobe' = {} BY <1>12, <2>1 DEF Started, BeforeStart
  <2>. QED BY <2>1, <2>4, <2>5 DEF RegsInv
<1>. QED BY <1>17, <1>18

\* When the last input is in and the core is started, and while nothing is done.
LEMMA RegsStart ==
  ASSUME CoresInv, ValuesInv, Access \/ Idle, doing = "start", fault' = fault, Testing, Sound(rq.core)
  PROVE  RegsInv'
<1> DEFINE c == rq.core
<1>1. ~Judge BY DEF Judge, Doing
<1>2. rq' = rq /\ (Testing' <=> Testing) BY <1>1, SameRequest
<1>3. c \in Cores BY PlannedRequest
<1>4. /\ Put("key", 1) /\ Put("nonce", 1) /\ (rq.mode # "enc" => Put("tag", 1))
      /\ Put("ad", 1) /\ Put("data", 1)
  BY DEF ValuesInv, RegsInv
<1>5. \A name \in RegWords : regs'[c][name] = regs[c][name] BY <1>3, RegsKept
<1>6. \A name \in RegWords : Put(name, 1) => Put(name, 1)' BY <1>2, <1>5, PutAfter DEF Put
<1>7. /\ Put("key", 1)' /\ Put("nonce", 1)' /\ (rq.mode # "enc" => Put("tag", 1)')
      /\ Put("ad", 1)' /\ Put("data", 1)'
  BY <1>4, <1>6 DEF RegWords
<1>8. doing' # "load" /\ ~Started'
  <2>1. CASE Idle BY <2>1 DEF Idle, Started, BeforeStart
  <2>2. CASE Access
    <3>1. doing' = "poll" /\ strobe' = {rq.core} BY <1>1, <2>2, DriverMoves DEF Leads
    <3>. QED BY <1>2, <3>1 DEF Started
  <2>. QED BY <2>1, <2>2
<1>. QED BY <1>2, <1>7, <1>8 DEF RegsInv

\* A second block is in its register when the core goes on with it.
LEMMA SecondBlock ==
  ASSUME CoresInv, ValuesInv, Hardware, Access \/ Idle, doing \notin BeforeStart,
         Testing, Sound(rq.core), NEW c \in Cores, c = rq.core, c \notin strobe
  PROVE  /\ core'[c].state = "PROC_AD" /\ Ads(c)' = 1
              => \A w \in 1 .. Words : regs'[c]["ad"][w] = Given(rq, "ad", 2)
         /\ core'[c].state = "PROC_MSG" /\ Msgs(c)' = 1
              => \A w \in 1 .. Words : regs'[c]["data"][w] = Given(rq, "data", 2)
<1>1. /\ Ads(c) \in Nat /\ Msgs(c) \in Nat
      /\ \/ Ads(c)' = Ads(c) /\ Msgs(c)' = Msgs(c)
         \/ core[c].state \in {"LATCH_AD", "PROC_AD"} /\ Ads(c)' = Ads(c) + 1 /\ Msgs(c)' = Msgs(c)
         \/ core[c].state \in {"LATCH_DAT", "PROC_MSG"} /\ Ads(c)' = Ads(c) /\ Msgs(c)' = Msgs(c) + 1
  BY ClockCounts
<1>2. PICK blocks : blocks = Blocks(rq.case) OBVIOUS
<1>3. blocks \in {1, 2} BY <1>2, PlannedRequest
<1>4. TakenIn(c, blocks) BY <1>2 DEF CoresInv, TakenInv
<1>5. core'[c].state \in {"PROC_AD", "PROC_MSG"} => c = "gc"
  <2>1. core'[c].state \in States[c] BY CoreTypes
  <2>. QED BY <2>1 DEF States, Cores
<1>6. ASSUME strobe # {} PROVE regs' = regs
  <2>1. Idle BY <1>6, NoStrobe
  <2>. QED BY <2>1 DEF Idle, NoWrite
<1>7. ASSUME blocks = 2, NEW name \in {"ad", "data"}, Written(name, Words), c = "gc", strobe # {}
      PROVE  \A w \in 1 .. Words : regs'[c][name][w] = Given(rq, name, 2)
  <2>1. \A w \in 1 .. Words : regs["gc"][name][w] = Source(rq, name, 2, w) BY <1>7 DEF Written
  <2>2. 2 \in 1 .. Blocks(rq.case) /\ name \in RegWords BY <1>2, <1>7 DEF RegWords
  <2>3. \A w \in 1 .. Words : Source(rq, name, 2, w) = Given(rq, name, 2)
    BY <2>2, SourceIsGiven DEF ValuesInv
  <2>. QED BY <1>6, <1>7, <2>1, <2>3
<1>8. ASSUME core'[c].state = "PROC_AD", Ads(c)' = 1
      PROVE  \A w \in 1 .. Words : regs'[c]["ad"][w] = Given(rq, "ad", 2)
  <2>1. c = "gc" BY <1>5, <1>8
  <2>2. core[c].state = "WAIT_NONCE" \/ (core[c].state = "REQ_AD" /\ "ad_ack" \in strobe)
    BY <1>8, <2>1, ClockStates
  <2>3. Ads(c) = 1 BY <1>1, <1>8, <2>2
  <2>4. core[c].state # "WAIT_NONCE"
    <3>1. core[c].state = "WAIT_NONCE" => Ads(c) = 0 BY <1>4 DEF TakenIn
    <3>. QED BY <2>3, <3>1
  <2>5. core[c].state = "REQ_AD" /\ "ad_ack" \in strobe BY <2>2, <2>4
  <2>6. blocks = 2
    <3>1. Ads(c) < blocks BY <1>4, <2>5 DEF TakenIn
    <3>. QED BY <1>3, <2>3, <3>1
  <2>7. Written("ad", Words) BY <2>5 DEF CoresInv, BlockInv
  <2>. QED BY <1>7, <2>1, <2>5, <2>6, <2>7
<1>9. ASSUME core'[c].state = "PROC_MSG", Msgs(c)' = 1
      PROVE  \A w \in 1 .. Words : regs'[c]["data"][w] = Given(rq, "data", 2)
  <2>1. c = "gc" BY <1>5, <1>9
  <2>2. core[c].state = "WAIT_AD" \/ (core[c].state = "REQ_MSG" /\ "msg_ack" \in strobe)
    BY <1>9, <2>1, ClockStates
  <2>3. Msgs(c) = 1 BY <1>1, <1>9, <2>2
  <2>4. core[c].state # "WAIT_AD"
    <3>1. core[c].state = "WAIT_AD" => Msgs(c) = 0 BY <1>4 DEF TakenIn
    <3>. QED BY <2>3, <3>1
  <2>5. core[c].state = "REQ_MSG" /\ "msg_ack" \in strobe BY <2>2, <2>4
  <2>6. blocks = 2
    <3>1. Msgs(c) \in 1 .. blocks - 1 BY <1>4, <2>5 DEF TakenIn
    <3>. QED BY <1>3, <3>1
  <2>7. Written("data", Words) BY <2>5 DEF CoresInv, BlockInv
  <2>. QED BY <1>7, <2>1, <2>5, <2>6, <2>7
<1>. QED BY <1>8, <1>9

LEMMA MessageAsked ==
  ASSUME CoresInv, Testing, doing \notin BeforeStart, NEW c \in Cores, c = rq.core, c \notin strobe,
         core[c].state = "REQ_MSG"
  PROVE  Msgs(c) # 0
<1>1. PICK blocks : blocks = Blocks(rq.case) OBVIOUS
<1>2. blocks \in {1, 2} BY <1>1, PlannedRequest
<1>3. TakenIn(c, blocks) BY <1>1 DEF CoresInv, TakenInv
<1>4. Msgs(c) \in 1 .. blocks - 1 BY <1>3 DEF TakenIn
<1>. QED BY <1>2, <1>4

\* The driver waits, or serves the core, or reads from it.
LEMMA RegsClock ==
  ASSUME CoresInv, ValuesInv, Hardware, Access \/ Idle, ~Judge, doing \notin BeforeStart,
         Testing, Sound(rq.core)
  PROVE  RegsInv'
<1>0. PICK c : c = rq.core OBVIOUS
<1>1. rq' = rq /\ (Testing' <=> Testing) BY SameRequest
<1>2. c \in Cores /\ Blocks(rq.case) \in {1, 2} /\ (Blocks(rq.case) = 2 => c = "gc")
  BY <1>0, PlannedRequest
<1>3. doing # "load" BY DEF BeforeStart
<1>4. ASSUME NEW name \in RegWords, ~(name = "ad" /\ doing = "ad block"),
             ~(name = "data" /\ doing = "msg block"), NEW block, Put(name, block)
      PROVE  Put(name, block)'
  <2>1. regs'[c][name] = regs[c][name] BY <1>2, <1>3, <1>4, RegsKept
  <2>. QED BY <1>0, <1>1, <1>4, <2>1, PutAfter DEF Put
<1>5. doing' \notin BeforeStart /\ c \notin strobe'
  <2>1. CASE Idle BY <2>1 DEF Idle, NoWrite
  <2>2. CASE Access
    <3>1. strobe' \in {{}, {"ad_ack"}, {"msg_ack"}} /\ doing' \notin BeforeStart
      BY <2>2, DriverMoves DEF Leads, BeforeStart
    <3>. QED BY <1>2, <3>1 DEF Cores
  <2>. QED BY <2>1, <2>2
<1>6. c \notin strobe => Ads(c) \in Nat /\ Msgs(c) \in Nat /\
         \/ Ads(c)' = Ads(c) /\ Msgs(c)' = Msgs(c)
         \/ core[c].state \in {"LATCH_AD", "PROC_AD"} /\ Ads(c)' = Ads(c) + 1 /\ Msgs(c)' = Msgs(c)
         \/ core[c].state \in {"LATCH_DAT", "PROC_MSG"} /\ Ads(c)' = Ads(c) /\ Msgs(c)' = Msgs(c) + 1
  BY <1>2, ClockCounts
<1>7. c \notin strobe <=> Started BY <1>0 DEF Started
<1>8. Put("key", 1)' /\ Put("nonce", 1)' /\ (rq.mode # "enc" => Put("tag", 1)')
  <2>1. Put("key", 1) /\ Put("nonce", 1) /\ (rq.mode # "enc" => Put("tag", 1))
    BY <1>3 DEF ValuesInv, RegsInv
  <2>. QED BY <1>4, <2>1 DEF RegWords
<1>9. ASSUME Ads(c)' = 0 PROVE Put("ad", 1)'
  <2>1. Started => Ads(c) = 0
    <3> SUFFICES ASSUME Started PROVE Ads(c) = 0 OBVIOUS
    <3>. QED BY <1>6, <1>7, <1>9
  <2>2. Put("ad", 1) BY <1>0, <1>7, <2>1 DEF ValuesInv, RegsInv
  <2>3. doing # "ad block"
    <3> SUFFICES ASSUME doing = "ad block" PROVE FALSE OBVIOUS
    <3>1. c = "gc" /\ core["gc"].state = "REQ_AD"
      BY <1>2 DEF CoresInv, PlaceInv, InBlock, RequestInv
    <3>2. c \notin strobe BY <1>0, <1>2, <3>1 DEF CoresInv, RestInv
    <3>. QED BY <1>0, <1>7, <2>1, <3>1, <3>2 DEF ValuesInv, FedInv
  <2>. QED BY <1>4, <2>2, <2>3 DEF RegWords
<1>10. ASSUME Msgs(c)' = 0 PROVE Put("data", 1)'
  <2>1. Started => Msgs(c) = 0
    <3> SUFFICES ASSUME Started PROVE Msgs(c) = 0 OBVIOUS
    <3>. QED BY <1>6, <1>7, <1>10
  <2>2. Put("data", 1) BY <1>0, <1>7, <2>1 DEF ValuesInv, RegsInv
  <2>3. doing # "msg block"
    <3> SUFFICES ASSUME doing = "msg block" PROVE FALSE OBVIOUS
    <3>1. c = "gc" /\ core["gc"].state = "REQ_MSG"
      BY <1>2 DEF CoresInv, PlaceInv, InBlock, RequestInv
    <3>2. c \notin strobe BY <1>0, <1>2, <3>1 DEF CoresInv, RestInv
    <3>. QED BY <1>0, <1>2, <1>7, <2>1, <3>1, <3>2, MessageAsked
  <2>. QED BY <1>4, <2>2, <2>3 DEF RegWords
<1>11. ASSUME core'[c].state \in {"PROC_AD", "PROC_MSG"} PROVE c \notin strobe
  <2>1. c = "gc"
    <3>1. core'[c].state \in States[c] BY <1>2, CoreTypes
    <3>. QED BY <1>2, <1>11, <3>1 DEF States, Cores
  <2>2. core[c].state # "IDLE" BY <1>11, <2>1, ClockStates
  <2>. QED BY <1>2, <2>2 DEF CoresInv, RestInv
<1>12. core'[c].state = "PROC_AD" /\ Ads(c)' = 1 => Put("ad", 2)'
  BY <1>0, <1>1, <1>2, <1>11, SecondBlock, PutAfter
<1>13. core'[c].state = "PROC_MSG" /\ Msgs(c)' = 1 => Put("data", 2)'
  BY <1>0, <1>1, <1>2, <1>11, SecondBlock, PutAfter
<1>14. rq'.core = c /\ rq'.mode = rq.mode BY <1>0, <1>1
<1>15. doing' # "load" /\ doing' # "start" BY <1>5 DEF BeforeStart
<1>16. (Ads(rq.core) = 0)' => Put("ad", 1)' BY <1>9, <1>14 DEF Ads
<1>17. (Msgs(rq.core) = 0)' => Put("data", 1)' BY <1>10, <1>14 DEF Msgs
<1>18. (core[rq.core].state = "PROC_AD" /\ Ads(rq.core) = 1)' => Put("ad", 2)'
  BY <1>12, <1>14 DEF Ads
<1>19. (core[rq.core].state = "PROC_MSG" /\ Msgs(rq.core) = 1)' => Put("data", 2)'
  BY <1>13, <1>14 DEF Msgs
<1>. QED BY <1>5, <1>8, <1>14, <1>15, <1>16, <1>17, <1>18, <1>19 DEF RegsInv

LEMMA StepRegsInv ==
  ASSUME CoresInv, ValuesInv, Hardware, Access \/ Idle
  PROVE  RegsInv'
<1>1. fault' = fault BY DEF Hardware
<1>2. CASE Judge
  <2>1. doing' = "load" /\ item' = 1 /\ strobe' = {} BY <1>2 DEF Judge, Then, NoWrite
  <2>2. ~Started' BY <2>1 DEF Started, BeforeStart
  <2>3. \A e, w \in Nat \ {0} : ~Before(e, w)' BY <2>1, ListBegins
  <2>4. PICK blocks : blocks = Len(Inputs(rq')) OBVIOUS
  <2>5. blocks \in {4, 5} BY <2>4, InputsAre
  <2>6. 1 \in 1 .. blocks * Words
    <3>1. blocks \in Nat \ {0} /\ Words \in Nat \ {0} BY <2>5, CoresAssumption
    <3>. QED BY <3>1
  <2>7. \A e \in 1 .. blocks, w \in 1 .. Words : e \in Nat \ {0} /\ w \in Nat \ {0}
    BY <2>5, CoresAssumption
  <2>8. Inputs(rq)' = Inputs(rq') OBVIOUS
  <2>. QED BY <2>1, <2>2, <2>3, <2>4, <2>6, <2>7, <2>8 DEF RegsInv
<1>3. CASE ~Judge
  <2>1. rq' = rq /\ (Testing' <=> Testing) BY <1>3, SameRequest
  <2> SUFFICES ASSUME Testing, Sound(rq.core) PROVE RegsInv' BY <1>1, <2>1 DEF RegsInv, Sound
  <2>2. CASE doing = "start" BY <1>1, <2>2, RegsStart
  <2>3. CASE doing \notin BeforeStart BY <1>3, <2>3, RegsClock
  <2>4. CASE doing = "load" /\ Access
    <3>1. Load
      BY <1>3, <2>4
      DEF Access, Start, Poll, AdBlock, AckAd, SaveBlock, MsgBlock, AckMsg, ReadResults, ReadValid, Doing
    <3>. QED BY <1>1, <3>1, RegsLoad
  <2>5. CASE doing = "load" /\ Idle
    <3>1. regs' = regs /\ doing' = doing /\ item' = item /\ strobe' = {} /\ at' = at
      BY <2>5 DEF Idle, NoWrite
    <3>2. ~Started' BY <2>5, <3>1 DEF Started, BeforeStart
    <3>3. \A e, w : Before(e, w)' <=> Before(e, w) BY <3>1 DEF Before, Quot, Word
    <3>4. RegsInv BY DEF ValuesInv
    <3>5. Inputs(rq)' = Inputs(rq) /\ \A name, block : Given(rq, name, block)' = Given(rq, name, block)
      BY <2>1 DEF Inputs, Given
    <3>. QED BY <2>1, <2>5, <3>1, <3>2, <3>3, <3>4, <3>5 DEF RegsInv
  <2>. QED BY <2>2, <2>3, <2>4, <2>5 DEF BeforeStart
<1>. QED BY <1>2, <1>3

-------------------------------------------------------------------------------
(* What is in the core of the request, and what it shows, after a clock *)

LEMMA StepFedInv ==
  ASSUME CoresInv, ValuesInv, Hardware, Access \/ Idle
  PROVE  FedInv'
<1> SUFFICES ASSUME Testing', Started', Sound(rq.core)' PROVE FedInv' BY DEF FedInv
<1>1. ~Judge BY DEF Judge, Then, Started, BeforeStart
<1>2. rq' = rq /\ Testing BY <1>1, SameRequest
<1>3. doing \notin BeforeStart BY <1>1, StartedBefore
<1>4. Sound(rq.core) BY <1>2 DEF Sound, Hardware
<1>5. PICK c : c = rq.core OBVIOUS
<1>6. c \in Cores BY <1>2, <1>5, PlannedRequest
<1>7. Fed(core'[c].in) BY <1>2, <1>3, <1>4, <1>5, <1>6, ClockFed
<1>8. core'[c].state = "REQ_AD" => Len(core'[c].in.ads) # 0
  <2> SUFFICES ASSUME core'[c].state = "REQ_AD" PROVE Len(core'[c].in.ads) # 0 OBVIOUS
  <2>1. c = "gc"
    <3>1. core'[c].state \in States[c] BY <1>6, CoreTypes
    <3>. QED BY <1>6, <3>1 DEF States, Cores
  <2>. QED BY <1>2, <1>3, <1>4, <1>5, <2>1, ClockAsks
<1>9. \A name, block : Given(rq, name, block)' = Given(rq, name, block) BY <1>2 DEF Given
<1>10. rq'.core = c /\ rq'.case = rq.case /\ rq'.mode = rq.mode BY <1>2, <1>5
<1>. QED BY <1>7, <1>8, <1>9, <1>10 DEF FedInv, Fed, Ads, Msgs

LEMMA StepResultInv ==
  ASSUME CoresInv, ValuesInv, Hardware, Access \/ Idle
  PROVE  ResultInv'
<1> SUFFICES ASSUME Testing', Started', Sound(rq.core)', rq'.mode # "forged" PROVE ResultInv'
  BY DEF ResultInv
<1>1. ~Judge BY DEF Judge, Then, Started, BeforeStart
<1>2. rq' = rq /\ Testing BY <1>1, SameRequest
<1>3. doing \notin BeforeStart BY <1>1, StartedBefore
<1>4. Sound(rq.core) BY <1>2 DEF Sound, Hardware
<1>5. PICK c : c = rq.core OBVIOUS
<1>6. c \in Cores BY <1>2, <1>5, PlannedRequest
<1>7. /\ core'[c].state \in OutStates[c] => core'[c].out = Yields(rq, Len(core'[c].in.msgs))
      /\ core'[c].state \in TagStates[c] => core'[c].tag = <<rq.case, "tag">>
  BY <1>2, <1>3, <1>4, <1>5, <1>6, ClockResult
<1>8. rq'.core = c /\ rq'.case = rq.case /\ rq'.mode = rq.mode BY <1>2, <1>5
<1>9. \A block : Yields(rq, block)' = Yields(rq, block) BY <1>8 DEF Yields, OutName
<1>10. OutStates' = OutStates /\ TagStates' = TagStates BY DEF OutStates, TagStates
<1>. QED BY <1>7, <1>8, <1>9, <1>10 DEF ResultInv, Msgs

LEMMA StepValidInv ==
  ASSUME CoresInv, ValuesInv, Hardware, Access \/ Idle
  PROVE  ValidInv'
<1> SUFFICES ASSUME Testing', Started' PROVE ValidInv' BY DEF ValidInv
<1>1. ~Judge BY DEF Judge, Then, Started, BeforeStart
<1>2. rq' = rq /\ Testing BY <1>1, SameRequest
<1>3. doing \notin BeforeStart BY <1>1, StartedBefore
<1>4. PICK c : c = rq.core OBVIOUS
<1>5. c \in Cores /\ rq.mode \in {"enc", "dec", "forged"} BY <1>2, <1>4, PlannedRequest
<1>6. doing' \in AfterDone => /\ doing \in AfterDone \cup {"poll"} /\ sticky[c].done /\ c \notin strobe
  <2> SUFFICES ASSUME doing' \in AfterDone
               PROVE  doing \in AfterDone \cup {"poll"} /\ sticky[c].done /\ c \notin strobe
    OBVIOUS
  <2>1. CASE doing \in AfterDone
    <3>1. doing # "poll" BY <2>1 DEF AfterDone
    <3>2. strobe = {} BY <3>1 DEF CoresInv, StrobeInv
    <3>. QED BY <1>2, <1>3, <1>4, <2>1, <3>2 DEF ValuesInv, ValidInv, Started
  <2>2. CASE doing \notin AfterDone
    <3>1. Access BY <2>2 DEF Idle
    <3>2. strobe = {} BY <3>1, NoStrobe
    <3>3. doing = "poll" /\ sticky[rq.core].done BY <1>1, <2>2, <3>1, DriverMoves DEF Leads, AfterDone
    <3>. QED BY <1>4, <3>2, <3>3
  <2>. QED BY <2>1, <2>2
<1>7. doing' \in AfterDone => sticky'[c].done
  <2> SUFFICES ASSUME doing' \in AfterDone PROVE sticky'[c].done OBVIOUS
  <2>1. sticky[c].done /\ c \notin strobe BY <1>6
  <2>2. sticky'[c] = IF core[c].done THEN [done |-> TRUE, valid |-> core[c].valid] ELSE sticky[c]
    BY <1>5, <2>1 DEF Hardware, StickyClock
  <2>. QED BY <2>1, <2>2
<1>8. Judges' <=> Judges BY <1>2 DEF Judges, Sound, Hardware
<1>9. (Accepts' <=> Accepts) BY <1>2 DEF Accepts, Sound, Hardware
<1>10. Judges => /\ core'[c].done \/ (c = "jb" /\ core'[c].state = "DONE") => (core'[c].valid <=> Accepts)
                 /\ sticky'[c].done => (sticky'[c].valid <=> Accepts)
  BY <1>2, <1>3, <1>4, <1>5, ClockValid
<1>11. Judges /\ doing' = "judge" => (status' <=> Accepts)
  <2> SUFFICES ASSUME Judges, doing' = "judge" PROVE status' <=> Accepts OBVIOUS
  <2>0. rq.mode # "enc" /\ (Sound(rq.core) \/ fault[2] \in {"rejects", "accepts"}) BY DEF Judges
  <2>1. sticky[c].done /\ c \notin strobe /\ doing \in AfterDone \cup {"poll"} BY <1>6 DEF AfterDone
  <2>2. Started BY <1>3, <1>4, <2>1 DEF Started
  <2>3. CASE Idle
    <3>1. status' = status /\ doing = "judge" BY <2>3 DEF Idle
    <3>. QED BY <1>2, <2>0, <2>2, <3>1 DEF ValuesInv, ValidInv
  <2>4. CASE ReadValid
    <3>1. status' = sticky[c].valid BY <1>4, <2>4 DEF ReadValid
    <3>. QED BY <1>2, <1>4, <2>0, <2>1, <2>2, <3>1 DEF ValuesInv, ValidInv
  <2>5. CASE ReadResults
    <3>1. doing' = "valid" \/ doing' = doing
      BY <2>0, <2>5 DEF ReadResults, Through, Then
    <3>. QED BY <2>5, <3>1 DEF ReadResults, Doing
  <2>6. CASE Poll
    <3>1. doing' # "judge" BY <2>6 DEF Poll, Then, Doing
    <3>. QED BY <3>1
  <2>. QED
    BY <1>1, <2>1, <2>3, <2>4, <2>5, <2>6
    DEF Access, Load, Start, AdBlock, AckAd, SaveBlock, MsgBlock, AckMsg, Doing, AfterDone
<1>12. rq'.core = c /\ rq'.mode = rq.mode BY <1>2, <1>4
<1>13. Judges <=> rq'.mode # "enc" /\ (Sound(rq.core)' \/ fault'[2] \in {"rejects", "accepts"})
  BY <1>8 DEF Judges
<1>. QED BY <1>7, <1>9, <1>10, <1>11, <1>12, <1>13 DEF ValidInv

-------------------------------------------------------------------------------
(* What the driver has read *)

\* A core at rest shows what it showed.
LEMMA RestKeeps ==
  ASSUME CoresInv, Hardware, NEW c \in Cores, core[c].state = "IDLE", c \notin strobe
  PROVE  core'[c].out = core[c].out /\ core'[c].tag = core[c].tag
<1>1. PICK d \in 1 .. MaxRun : \A x \in Cores : SameFields(core'[x], Moved(x, d)) BY ClockFields
<1>2. core'[c].out = Moved(c, d).out /\ core'[c].tag = Moved(c, d).tag
  BY <1>1 DEF SameFields, CoreFields
<1>3. DOMAIN core[c] = CoreFields BY DEF CoresInv, Shapes
<1>4. CASE c \in {"jb", "xd"}
  <2> DEFINE new == [done |-> FALSE]
  <2>1. Moved(c, d) = With(c, new) BY <1>4 DEF Moved, JbStep, XdStep
  <2>2. \A f \in CoreFields \ DOMAIN new : With(c, new)[f] = core[c][f] BY <1>3, WithFields
  <2>3. {"out", "tag"} \subseteq CoreFields \ DOMAIN new BY DEF CoreFields
  <2>. QED BY <1>2, <2>1, <2>2, <2>3
<1>5. CASE c = "gc"
  <2> DEFINE new == [in |-> core[c].in, done |-> FALSE, valid |-> FALSE]
  <2>1. Moved(c, d) = Move(c, Go("IDLE"), new) BY <1>5 DEF Moved, GcMove, Waiting
  <2>2. \A f \in CoreFields \ ({"state", "left"} \cup DOMAIN new) :
          Move(c, [state |-> "IDLE", left |-> 0], new)[f] = core[c][f]
    BY <1>3, MoveFields
  <2>3. {"out", "tag"} \subseteq CoreFields \ ({"state", "left"} \cup DOMAIN new) BY DEF CoreFields
  <2>. QED BY <1>2, <2>1, <2>2, <2>3 DEF Go
<1>. QED BY <1>4, <1>5 DEF Cores

GotShape == DOMAIN got = Names /\ \A name \in Names : got[name] = [w \in 1 .. Words |-> got[name][w]]
GotWith(name, w, value) == [got EXCEPT ![name][w] = value]
LEMMA GotPut ==
  ASSUME GotShape, NEW name \in Names, NEW w \in 1 .. Words, NEW value
  PROVE  LET after == GotWith(name, w, value)
         IN  /\ DOMAIN after = Names
             /\ \A other \in Names : after[other] = [v \in 1 .. Words |-> after[other][v]]
             /\ after[name][w] = value
             /\ \A other \in Names, v \in 1 .. Words :
                  ~(other = name /\ v = w) => after[other][v] = got[other][v]
             /\ \A other \in Names : other # name => after[other] = got[other]
<1> DEFINE after == GotWith(name, w, value)
           words == [got[name] EXCEPT ![w] = value]
<1>1. DOMAIN got = Names /\ \A other \in Names : got[other] = [v \in 1 .. Words |-> got[other][v]]
  BY DEF GotShape
<1>2. after = [got EXCEPT ![name] = words] BY DEF GotWith
<1>3. /\ words = [v \in 1 .. Words |-> words[v]]
      /\ words[w] = value /\ \A v \in 1 .. Words : v # w => words[v] = got[name][v]
  BY <1>1
<1> HIDE DEF words, after
<1>4. /\ DOMAIN after = Names /\ after[name] = words
      /\ \A other \in Names : other # name => after[other] = got[other]
  BY <1>1, <1>2
<1>5. /\ DOMAIN after = Names
      /\ \A other \in Names : after[other] = [v \in 1 .. Words |-> after[other][v]]
      /\ after[name][w] = value
      /\ \A other \in Names, v \in 1 .. Words :
           ~(other = name /\ v = w) => after[other][v] = got[other][v]
      /\ \A other \in Names : other # name => after[other] = got[other]
  BY <1>1, <1>3, <1>4
<1>. QED BY <1>5 DEF after

\* All words of a result.
LEMMA SpreadIs ==
  ASSUME GotShape, NEW name \in Names, NEW value
  PROVE  got[name] = Spread(value) <=> \A w \in 1 .. Words : got[name][w] = value
<1>1. got[name] = [w \in 1 .. Words |-> got[name][w]] BY DEF GotShape
<1>2. got[name] = Spread(value) => \A w \in 1 .. Words : got[name][w] = value BY DEF Spread
<1>3. ASSUME \A w \in 1 .. Words : got[name][w] = value PROVE got[name] = Spread(value)
  BY <1>1, <1>3 DEF Spread
<1>. QED BY <1>2, <1>3

-------------------------------------------------------------------------------
(* The driver's verdict on a request *)

LEMMA AtTheVerdict ==
  ASSUME CoresInv, ValuesInv, Testing, doing = "judge"
  PROVE  /\ Started
         /\ core[rq.core].state = "IDLE" /\ Msgs(rq.core) = Blocks(rq.case)
         /\ rq.mode # "forged" => \A w \in 1 .. Words :
              got[OutName(rq, Blocks(rq.case))][w] = core[rq.core].out
         /\ rq.mode = "enc" => \A w \in 1 .. Words : got["tag"][w] = core[rq.core].tag
<1>0. PICK blocks : blocks = Blocks(rq.case) OBVIOUS
<1>1. /\ rq.core \in Cores /\ rq.mode \in {"enc", "dec", "forged"} /\ Blocks(rq.case) \in {1, 2}
      /\ rq.mode = "forged" => Blocks(rq.case) = 1
  BY PlannedRequest
<1>2. strobe = {} BY DEF CoresInv, StrobeInv
<1>3. Started BY <1>2 DEF Started, BeforeStart
<1>4. core[rq.core].state = "IDLE" BY <1>1 DEF CoresInv, RestInv, AfterDone
<1>5. TakenIn(rq.core, blocks) BY <1>0, <1>2 DEF CoresInv, TakenInv, BeforeStart
<1>6. Msgs(rq.core) = blocks BY <1>4, <1>5 DEF TakenIn
<1>7. PICK list : list = OutputsOf(rq, Blocks(rq.case)) OBVIOUS
<1>8. \A e \in 1 .. Len(list), w \in 1 .. Words : got[list[e]][w] = Held(list[e])
  BY <1>7 DEF ValuesInv, ReadInv
<1>9. PICK last : last = OutName(rq, Blocks(rq.case)) OBVIOUS
<1>10. /\ rq.mode = "enc" => Len(list) = 2 /\ list[1] = last /\ list[2] = "tag"
       /\ rq.mode = "dec" => Len(list) = 1 /\ list[1] = last
       /\ last \in Names \ {"tag"}
  BY <1>1, <1>7, <1>9, OutputsAre
<1>11. rq.mode # "forged" => \A w \in 1 .. Words : got[last][w] = core[rq.core].out
  <2> SUFFICES ASSUME rq.mode # "forged", NEW w \in 1 .. Words PROVE got[last][w] = core[rq.core].out
    OBVIOUS
  <2>1. 1 \in 1 .. Len(list) /\ list[1] = last BY <1>1, <1>10
  <2>2. Held(last) = core[rq.core].out BY <1>10 DEF Held
  <2>. QED BY <1>8, <2>1, <2>2
<1>12. rq.mode = "enc" => \A w \in 1 .. Words : got["tag"][w] = core[rq.core].tag
  <2> SUFFICES ASSUME rq.mode = "enc", NEW w \in 1 .. Words PROVE got["tag"][w] = core[rq.core].tag
    OBVIOUS
  <2>1. 2 \in 1 .. Len(list) /\ list[2] = "tag" BY <1>10
  <2>2. Held("tag") = core[rq.core].tag BY DEF Held
  <2>. QED BY <1>8, <2>1, <2>2
<1>. QED BY <1>0, <1>3, <1>4, <1>6, <1>9, <1>11, <1>12

\* A sound core passes.
LEMMA SoundPasses ==
  ASSUME CoresInv, ValuesInv, Testing, doing = "judge", Sound(rq.core)
  PROVE  Passes(rq)
<1>0. PICK blocks : blocks = Blocks(rq.case) OBVIOUS
<1>1. /\ rq.core \in Cores /\ rq.mode \in {"enc", "dec", "forged"} /\ blocks \in {1, 2}
  BY <1>0, PlannedRequest
<1>2. /\ Started
      /\ core[rq.core].state = "IDLE" /\ Msgs(rq.core) = blocks
      /\ rq.mode # "forged" => \A w \in 1 .. Words : got[OutName(rq, blocks)][w] = core[rq.core].out
      /\ rq.mode = "enc" => \A w \in 1 .. Words : got["tag"][w] = core[rq.core].tag
  BY <1>0, AtTheVerdict
<1>3. GotShape BY DEF ValuesInv, GotInv, GotShape
<1>4. \A block \in {1, 2} : OutName(rq, block) \in Names BY DEF OutName, Part, Names
<1>5. "IDLE" \in OutStates[rq.core] /\ "IDLE" \in TagStates[rq.core]
  BY <1>1 DEF Cores, OutStates, TagStates
<1>6. rq.mode # "forged" =>
        core[rq.core].out = Yields(rq, blocks) /\ core[rq.core].tag = <<rq.case, "tag">>
  BY <1>2, <1>5 DEF ValuesInv, ResultInv
<1>7. rq.mode # "forged" => got[OutName(rq, blocks)] = Spread(Yields(rq, blocks))
  <2> SUFFICES ASSUME rq.mode # "forged" PROVE got[OutName(rq, blocks)] = Spread(Yields(rq, blocks))
    OBVIOUS
  <2>1. PICK value : value = Yields(rq, blocks) OBVIOUS
  <2>2. PICK name : name = OutName(rq, blocks) OBVIOUS
  <2>3. \A w \in 1 .. Words : got[name][w] = value BY <1>2, <1>6, <2>1, <2>2
  <2>4. name \in Names BY <1>1, <1>4, <2>2
  <2>5. got[name] = Spread(value) BY <1>3, <2>3, <2>4, SpreadIs
  <2>. QED BY <2>1, <2>2, <2>5
<1>8. blocks = 2 => got[OutName(rq, 1)] = Spread(Yields(rq, 1))
  BY <1>0, <1>2 DEF ValuesInv, ReadInv, Saved
<1>9. rq.mode # "forged" => \A i \in 1 .. blocks : got[OutName(rq, i)] = Spread(Yields(rq, i))
  BY <1>1, <1>7, <1>8
<1>10. rq.mode = "enc" => got["tag"] = Spread(<<rq.case, "tag">>)
  <2> SUFFICES ASSUME rq.mode = "enc" PROVE got["tag"] = Spread(<<rq.case, "tag">>) OBVIOUS
  <2>1. PICK value : value = <<rq.case, "tag">> OBVIOUS
  <2>2. \A w \in 1 .. Words : got["tag"][w] = value BY <1>2, <1>6, <2>1
  <2>3. "tag" \in Names BY DEF Names
  <2>4. got["tag"] = Spread(value) BY <1>3, <2>2, <2>3, SpreadIs
  <2>. QED BY <2>1, <2>4
<1>11. rq.mode = "enc" => Expected(rq.case, "ct")
  BY <1>0, <1>9 DEF Expected, OutName, Yields
<1>12. rq.mode = "dec" => Expected(rq.case, "pt")
  BY <1>0, <1>9 DEF Expected, OutName, Yields
<1>13. rq.mode # "enc" => (status <=> rq.mode = "dec")
  BY <1>2 DEF ValuesInv, ValidInv, Accepts
<1>. QED BY <1>1, <1>10, <1>11, <1>12, <1>13 DEF Passes

\* A defect that the request shows fails it.
LEMMA DefectFails ==
  ASSUME CoresInv, ValuesInv, Testing, doing = "judge", Shows(rq)
  PROVE  ~Passes(rq)
<1>0. PICK blocks : blocks = Blocks(rq.case) OBVIOUS
<1>1. /\ rq.core \in Cores /\ rq.mode \in {"enc", "dec", "forged"} /\ blocks \in {1, 2}
      /\ rq.case \in Cases[rq.core]
  BY <1>0, PlannedRequest
<1>2. /\ Started
      /\ rq.mode # "forged" => \A w \in 1 .. Words : got[OutName(rq, blocks)][w] = core[rq.core].out
      /\ rq.mode = "enc" => \A w \in 1 .. Words : got["tag"][w] = core[rq.core].tag
  BY <1>0, AtTheVerdict
<1>3. rq.case # "none" BY <1>1 DEF Cases, Cores
<1>4. 1 \in 1 .. Words BY CoresAssumption
<1>5. \A kind, value : value \in {Junk, Zero} => value # <<rq.case, kind>>
  BY <1>3, PairsEqual DEF Junk, Zero
<1>6. \A value : Spread(value)[1] = value BY <1>4 DEF Spread
<1>7. CASE rq.mode = "enc" /\ Faulty(rq.core, "out")
  <2>1. core[rq.core].out \in {Junk, Zero} BY <1>1, <1>7 DEF ValuesInv, BrokenInv
  <2>2. OutName(rq, blocks) = Part["ct"][blocks] BY <1>7 DEF OutName
  <2>3. got[Part["ct"][blocks]][1] \in {Junk, Zero} BY <1>2, <1>4, <1>7, <2>1, <2>2
  <2>4. got[Part["ct"][blocks]] # Spread(<<rq.case, Part["ct"][blocks]>>)
    BY <1>5, <1>6, <2>3
  <2>5. blocks \in 1 .. blocks BY <1>1
  <2>. QED BY <1>0, <1>7, <2>4, <2>5 DEF Passes, Expected
<1>8. CASE rq.mode = "enc" /\ Faulty(rq.core, "tag")
  <2>1. core[rq.core].tag \in {Junk, Zero} BY <1>1, <1>8 DEF ValuesInv, BrokenInv
  <2>2. got["tag"][1] \in {Junk, Zero} BY <1>2, <1>4, <1>8, <2>1
  <2>3. got["tag"] # Spread(<<rq.case, "tag">>) BY <1>5, <1>6, <2>2
  <2>. QED BY <1>8, <2>3 DEF Passes
<1>9. ASSUME NEW kind, Faulty(rq.core, kind) PROVE fault[2] = kind /\ ~Sound(rq.core)
  BY <1>9 DEF Faulty, Sound
<1>10. CASE rq.mode = "dec" /\ Faulty(rq.core, "rejects")
  <2>1. fault[2] = "rejects" /\ ~Sound(rq.core) BY <1>9, <1>10
  <2>2. ~status BY <1>2, <1>10, <2>1 DEF ValuesInv, ValidInv, Accepts
  <2>. QED BY <1>10, <2>2 DEF Passes
<1>11. CASE rq.mode = "forged" /\ Faulty(rq.core, "accepts")
  <2>1. fault[2] = "accepts" /\ ~Sound(rq.core) BY <1>9, <1>11
  <2>2. status BY <1>2, <1>11, <2>1 DEF ValuesInv, ValidInv, Accepts
  <2>. QED BY <1>11, <2>2 DEF Passes
<1>. QED BY <1>7, <1>8, <1>10, <1>11 DEF Shows

-------------------------------------------------------------------------------
(* What the driver reads in a clock *)

\* The block it saves is the first, and comes from a core that waits for the second.
LEMMA SavedWord ==
  ASSUME CoresInv, ValuesInv, SaveBlock
  PROVE  /\ Testing /\ Blocks(rq.case) = 2 /\ rq.core = "gc" /\ Started
         /\ core["gc"].state = "REQ_MSG" /\ Msgs("gc") = 1 /\ strobe = {}
         /\ item \in 1 .. Words /\ Word = item
         /\ got' = GotWith(OutName(rq, 1), item, core[rq.core].out)
         /\ Sound(rq.core) => core[rq.core].out = Yields(rq, 1)
         /\ \/ doing' = "msg block" /\ item = Words
            \/ doing' = "save block" /\ item' = item + 1 /\ item # Words
<1>1. Testing /\ doing = "save block" BY DEF SaveBlock, Doing
<1>2. Blocks(rq.case) = 2 BY <1>1 DEF CoresInv, PlaceInv, InBlock
<1>3. rq.core = "gc" /\ rq.mode \in {"enc", "dec"} BY <1>1, <1>2, PlannedRequest
<1>4. strobe = {} BY <1>1 DEF CoresInv, StrobeInv
<1>5. Started BY <1>1, <1>4 DEF Started, BeforeStart
<1>6. core["gc"].state = "REQ_MSG" BY <1>1 DEF CoresInv, RequestInv
<1>7. Msgs("gc") = 1
  <2>1. PICK blocks : blocks = Blocks(rq.case) OBVIOUS
  <2>2. TakenIn("gc", blocks) BY <1>1, <1>3, <1>4, <2>1 DEF CoresInv, TakenInv, BeforeStart
  <2>3. Msgs("gc") \in 1 .. 2 - 1 BY <1>2, <1>6, <2>1, <2>2 DEF TakenIn
  <2>. QED BY <2>3
<1>8. item \in 1 .. Words BY <1>1 DEF ValuesInv, ReadInv
<1>9. Word = item
  <2>1. Words \in Nat \ {0} /\ 0 \in Nat BY CoresAssumption
  <2>2. 1 + ((0 * Words + item - 1) % Words) = item BY <1>8, <2>1, PlaceIsUnique
  <2>3. 0 * Words + item - 1 = item - 1 BY <1>8, <2>1
  <2>. QED BY <2>2, <2>3 DEF Word
<1>10. Len(OutputsOf(rq, 1)) = 1 /\ OutputsOf(rq, 1)[1] = OutName(rq, 1)
  BY <1>2, <1>3, OutputsAre
<1>11. got' = GotWith(OutName(rq, 1), item, core[rq.core].out)
  <2>1. OutName(rq, 1) # "tag" BY <1>2, <1>3, OutputsAre DEF Names
  <2>. QED BY <1>9, <1>10, <2>1 DEF SaveBlock, ReadOutput, GotWith
<1>12. Sound(rq.core) => core[rq.core].out = Yields(rq, 1)
  <2> SUFFICES ASSUME Sound(rq.core) PROVE core[rq.core].out = Yields(rq, 1) OBVIOUS
  <2>1. "REQ_MSG" \in OutStates["gc"] BY DEF OutStates
  <2>2. rq.mode # "forged" BY <1>3
  <2>3. core["gc"].out = Yields(rq, Msgs("gc"))
    BY <1>1, <1>3, <1>5, <1>6, <2>1, <2>2 DEF ValuesInv, ResultInv
  <2>. QED BY <1>3, <1>7, <2>3
<1>13. \/ doing' = "msg block" /\ item = Words
       \/ doing' = "save block" /\ item' = item + 1 /\ item # Words
  <2>1. LastOf(OutputsOf(rq, 1)) <=> item = Words
    <3>1. 1 * Words = Words BY CoresAssumption
    <3>. QED BY <1>10, <3>1 DEF LastOf
  <2>. QED BY <1>1, <2>1 DEF SaveBlock, Through, Then
<1>. QED BY <1>1, <1>2, <1>3, <1>4, <1>5, <1>6, <1>7, <1>8, <1>9, <1>11, <1>12, <1>13

\* The results come from a core at rest.
LEMMA ResultWord ==
  ASSUME CoresInv, ValuesInv, ReadResults
  PROVE  LET list == OutputsOf(rq, Blocks(rq.case))
             len == Len(list)
         IN  /\ Testing /\ rq.mode \in {"enc", "dec"} /\ Started
             /\ core[rq.core].state = "IDLE" /\ strobe = {}
             /\ len \in {1, 2} /\ item \in 1 .. len * Words /\ item \in Nat \ {0}
             /\ Quot + 1 \in 1 .. len /\ Word \in 1 .. Words /\ list[Quot + 1] \in Names
             /\ got' = GotWith(list[Quot + 1], Word, Held(list[Quot + 1]))
             /\ \/ doing' \in {"judge", "valid"} /\ item = len * Words
                \/ doing' = "results" /\ item' = item + 1 /\ item' \in 1 .. len * Words
<1>01. PICK list : list = OutputsOf(rq, Blocks(rq.case)) OBVIOUS
<1>02. PICK len : len = Len(list) OBVIOUS
<1>1. Testing /\ doing = "results" BY DEF ReadResults, Doing
<1>2. /\ rq.mode \in {"enc", "dec", "forged"} /\ Blocks(rq.case) \in {1, 2} /\ rq.core \in Cores
      /\ rq.mode = "forged" => Blocks(rq.case) = 1
  BY <1>1, PlannedRequest
<1>3. rq.mode \in {"enc", "dec"} BY <1>1, <1>2 DEF CoresInv, PlaceInv
<1>4. strobe = {} BY <1>1 DEF CoresInv, StrobeInv
<1>5. Started BY <1>1, <1>4 DEF Started, BeforeStart
<1>6. core[rq.core].state = "IDLE" BY <1>1, <1>2 DEF CoresInv, RestInv, AfterDone
<1>7. item \in 1 .. len * Words BY <1>01, <1>02, <1>1 DEF ValuesInv, ReadInv
<1>8. PICK last : last = OutName(rq, Blocks(rq.case)) OBVIOUS
<1>9. /\ rq.mode = "enc" => len = 2 /\ list[1] = last /\ list[2] = "tag"
      /\ rq.mode = "dec" => len = 1 /\ list[1] = last
      /\ last \in Names \ {"tag"}
  BY <1>01, <1>02, <1>2, <1>8, OutputsAre
<1>10. len \in {1, 2} BY <1>3, <1>9
<1>11. len \in Nat \ {0} BY <1>10
<1>12. /\ item \in Nat \ {0} /\ Quot + 1 \in 1 .. len /\ Word \in 1 .. Words
       /\ item # len * Words => item + 1 \in 1 .. len * Words
  BY <1>7, <1>11, InList
<1>13. \A e \in 1 .. len : list[e] \in Names BY <1>3, <1>9 DEF Names
<1>14. Entry(list) = list[Quot + 1]
  <2>1. Quot \in Nat BY <1>12, ItemPlace
  <2>2. 1 + Quot = Quot + 1 BY <2>1
  <2>. QED BY <2>2 DEF Entry, Quot
<1>15. got' = GotWith(list[Quot + 1], Word, Held(list[Quot + 1]))
  BY <1>01, <1>14 DEF ReadResults, ReadOutput, Held, GotWith
<1>16. \/ doing' \in {"judge", "valid"} /\ item = len * Words
       \/ doing' = "results" /\ item' = item + 1 /\ item # len * Words
  BY <1>01, <1>02, <1>1 DEF ReadResults, Through, Then, LastOf
<1>. QED BY <1>01, <1>02, <1>1, <1>3, <1>4, <1>5, <1>6, <1>7, <1>10, <1>12, <1>13, <1>15, <1>16

\* Any other step leaves what it has read.
LEMMA GotKept ==
  ASSUME Access \/ Idle, ~SaveBlock, ~ReadResults
  PROVE  got' = got
  BY DEF Access, Idle, Load, Start, Poll, AdBlock, AckAd, MsgBlock, AckMsg, ReadValid, Judge

\* Decryption does not write over the ciphertext and the tag it is fed with.
LEMMA GotAfter ==
  ASSUME CoresInv, ValuesInv, Access \/ Idle
  PROVE  /\ GotShape'
         /\ Testing /\ rq.mode = "dec" =>
              /\ got'["tag"] = got["tag"]
              /\ \A i \in 1 .. Blocks(rq.case) : got'[Part["ct"][i]] = got[Part["ct"][i]]
<1>1. GotShape BY DEF ValuesInv, GotInv, GotShape
<1>2. ASSUME NEW name \in Names, NEW w \in 1 .. Words, NEW value,
             got' = GotWith(name, w, value),
             rq.mode = "dec" => name \in {"pt1", "pt2"}
      PROVE  /\ GotShape'
             /\ Testing /\ rq.mode = "dec" =>
                  /\ got'["tag"] = got["tag"]
                  /\ \A i \in 1 .. Blocks(rq.case) : got'[Part["ct"][i]] = got[Part["ct"][i]]
  <2> DEFINE after == GotWith(name, w, value)
  <2>0. name \in Names /\ w \in 1 .. Words BY <1>2
  <2>1. /\ DOMAIN after = Names
        /\ \A other \in Names : after[other] = [v \in 1 .. Words |-> after[other][v]]
        /\ after[name][w] = value
        /\ \A other \in Names, v \in 1 .. Words :
             ~(other = name /\ v = w) => after[other][v] = got[other][v]
        /\ \A other \in Names : other # name => after[other] = got[other]
    BY <1>1, <2>0, GotPut
  <2>2. got' = after BY <1>2
  <2> HIDE DEF after
  <2>3. GotShape' BY <2>1, <2>2 DEF GotShape, Names
  <2> SUFFICES ASSUME Testing, rq.mode = "dec"
               PROVE  /\ got'["tag"] = got["tag"]
                      /\ \A i \in 1 .. Blocks(rq.case) : got'[Part["ct"][i]] = got[Part["ct"][i]]
    BY <2>3
  <2>4. {"tag", Part["ct"][1], Part["ct"][2]} \subseteq Names \ {"pt1", "pt2"} BY DEF Part, Names
  <2>5. \A i \in 1 .. Blocks(rq.case) : i \in {1, 2} BY PlannedRequest
  <2>. QED BY <1>2, <2>1, <2>2, <2>4, <2>5
<1>3. CASE SaveBlock
  <2>1. /\ Testing /\ Blocks(rq.case) = 2 /\ item \in 1 .. Words
        /\ got' = GotWith(OutName(rq, 1), item, core[rq.core].out)
    BY <1>3, SavedWord
  <2>2. OutName(rq, 1) \in Names /\ (rq.mode = "dec" => OutName(rq, 1) \in {"pt1", "pt2"})
    BY DEF OutName, Part, Names
  <2> DEFINE name == OutName(rq, 1)  value == core[rq.core].out
  <2>3. name \in Names /\ (rq.mode = "dec" => name \in {"pt1", "pt2"}) BY <2>2
  <2>4. got' = GotWith(name, item, value) BY <2>1
  <2> HIDE DEF name, value
  <2>. QED BY <1>2, <2>1, <2>3, <2>4
<1>4. CASE ReadResults
  <2>1. PICK list : list = OutputsOf(rq, Blocks(rq.case)) OBVIOUS
  <2>2. PICK len : len = Len(list) OBVIOUS
  <2>3. /\ Testing /\ rq.mode \in {"enc", "dec"} /\ len \in {1, 2}
        /\ Quot + 1 \in 1 .. len /\ Word \in 1 .. Words /\ list[Quot + 1] \in Names
        /\ got' = GotWith(list[Quot + 1], Word, Held(list[Quot + 1]))
    BY <1>4, <2>1, <2>2, ResultWord
  <2>4. rq.mode = "dec" => len = 1 /\ list[1] = OutName(rq, Blocks(rq.case))
    BY <2>1, <2>2, <2>3, PlannedRequest, OutputsAre
  <2>5. rq.mode = "dec" => list[Quot + 1] \in {"pt1", "pt2"}
    <3>1. Blocks(rq.case) \in {1, 2} BY <2>3, PlannedRequest
    <3>2. rq.mode = "dec" => OutName(rq, Blocks(rq.case)) \in {"pt1", "pt2"}
      BY <3>1 DEF OutName, Part
    <3>3. rq.mode = "dec" => Quot + 1 = 1 BY <2>3, <2>4
    <3>. QED BY <2>4, <3>2, <3>3
  <2> DEFINE name == list[Quot + 1]  here == Word  value == Held(list[Quot + 1])
  <2>6. name \in Names /\ (rq.mode = "dec" => name \in {"pt1", "pt2"}) /\ here \in 1 .. Words
    BY <2>3, <2>5
  <2>7. got' = GotWith(name, here, value) BY <2>3
  <2> HIDE DEF name, value, here
  <2>. QED BY <1>2, <2>6, <2>7
<1>5. CASE ~SaveBlock /\ ~ReadResults
  <2>1. got' = got BY <1>5, GotKept
  <2>. QED BY <1>1, <2>1 DEF GotShape, Names
<1>. QED BY <1>3, <1>4, <1>5

LEMMA StepGotInv ==
  ASSUME CoresInv, ValuesInv, Hardware, Access \/ Idle
  PROVE  GotInv'
<1>1. GotShape' BY GotAfter
<1> SUFFICES ASSUME Testing', Sound(rq.core)', rq'.mode = "dec"
             PROVE  /\ \A i \in 1 .. Blocks(rq'.case) :
                         got'[Part["ct"][i]] = Spread(<<rq'.case, Part["ct"][i]>>)
                    /\ got'["tag"] = Spread(<<rq'.case, "tag">>)
  BY <1>1 DEF GotInv, GotShape
<1>2. CASE ~Judge
  <2>1. rq' = rq /\ Testing BY <1>2, SameRequest
  <2>2. Sound(rq.core) BY <2>1 DEF Sound, Hardware
  <2>. QED BY <2>1, <2>2, GotAfter DEF ValuesInv, GotInv
<1>3. CASE Judge
  <2>1. Testing /\ doing = "judge" /\ at' = at + 1 /\ got' = got BY <1>3 DEF Judge, Doing
  <2>2. at \in 1 .. Len(Plan) /\ at + 1 \in 1 .. Len(Plan) /\ rq' = Plan[at + 1]
    BY <2>1 DEF Testing, rq
  <2>3. PICK i \in 1 .. Len(Plan) : i = at + 1 BY <2>2
  <2>4. Plan[i].mode = "dec" BY <2>2, <2>3
  <2>5. Plan[i - 1] = Request(Plan[i].core, Plan[i].case, "enc") BY <2>4, PlanPairs
  <2>6. i - 1 = at BY <2>2, <2>3
  <2>7. rq = Request(rq'.core, rq'.case, "enc") BY <2>2, <2>3, <2>5, <2>6 DEF rq
  <2>8. rq.core = rq'.core /\ rq.case = rq'.case /\ rq.mode = "enc" BY <2>7 DEF Request
  <2>9. Sound(rq.core) BY <2>8 DEF Sound, Hardware
  <2>10. Passes(rq) BY <2>1, <2>9, SoundPasses
  <2>11. Expected(rq.case, "ct") /\ got["tag"] = Spread(<<rq.case, "tag">>)
    BY <2>8, <2>10 DEF Passes
  <2>. QED BY <2>1, <2>8, <2>11 DEF Expected
<1>. QED BY <1>2, <1>3

\* The first block that it saves.
Saving == doing = "save block"
TwoBlocks == Blocks(rq.case) = 2
LEMMA SaveGoesOn ==
  ASSUME CoresInv, ValuesInv, Access \/ Idle, ~Judge, Saving'
  PROVE  /\ item' \in 1 .. Words
         /\ Sound(rq.core) => \A w \in 1 .. item' - 1 : got'[OutName(rq, 1)][w] = Yields(rq, 1)
<1>0. Words \in Nat \ {0} BY CoresAssumption
<1>1. CASE Idle
  <2>1. doing = "save block" /\ item' = item /\ got' = got BY <1>1 DEF Idle, Saving
  <2>2. Testing BY <2>1 DEF CoresInv, PlaceInv
  <2>. QED BY <2>1, <2>2 DEF ValuesInv, ReadInv
<1>2. CASE SaveBlock
  <2>1. /\ Testing /\ Blocks(rq.case) = 2 /\ rq.core = "gc"
        /\ item \in 1 .. Words
        /\ got' = GotWith(OutName(rq, 1), item, core[rq.core].out)
        /\ Sound(rq.core) => core[rq.core].out = Yields(rq, 1)
        /\ item' = item + 1 /\ item # Words
    BY <1>2, SavedWord DEF Saving
  <2>2. GotShape BY DEF ValuesInv, GotInv, GotShape
  <2>3. OutName(rq, 1) \in Names BY DEF OutName, Part, Names
  <2> DEFINE name == OutName(rq, 1)  value == core[rq.core].out
  <2>4. name \in Names /\ got' = GotWith(name, item, value) BY <2>1, <2>3
  <2>5. Sound(rq.core) => \A w \in 1 .. item - 1 : got[name][w] = Yields(rq, 1)
    BY <1>2, <2>1 DEF ValuesInv, ReadInv, SaveBlock, Doing
  <2>6. Sound(rq.core) => value = Yields(rq, 1) BY <2>1
  <2> HIDE DEF name, value
  <2>7. /\ got'[name][item] = value
        /\ \A w \in 1 .. Words : w # item => got'[name][w] = got[name][w]
    <3>1. item \in 1 .. Words BY <2>1
    <3> DEFINE after == GotWith(name, item, value)
    <3>2. /\ after[name][item] = value
          /\ \A other \in Names, v \in 1 .. Words :
               ~(other = name /\ v = item) => after[other][v] = got[other][v]
      BY <2>2, <2>4, <3>1, GotPut
    <3>3. got' = after BY <2>4
    <3> HIDE DEF after
    <3>. QED BY <2>4, <3>2, <3>3
  <2>11. ASSUME NEW k \in 1 .. Words, k # Words
         PROVE  /\ k + 1 \in 1 .. Words
                /\ \A w \in 1 .. (k + 1) - 1 : w \in 1 .. Words /\ (w = k \/ w \in 1 .. k - 1)
    BY <1>0, <2>11
  <2>12. item \in 1 .. Words /\ item # Words BY <2>1
  <2>13. /\ item + 1 \in 1 .. Words
         /\ \A w \in 1 .. (item + 1) - 1 : w \in 1 .. Words /\ (w = item \/ w \in 1 .. item - 1)
    BY <2>11, <2>12
  <2>14. item' = item + 1 BY <2>1
  <2>8. item' \in 1 .. Words BY <2>13, <2>14
  <2>9. \A w \in 1 .. item' - 1 : w \in 1 .. Words /\ (w = item \/ w \in 1 .. item - 1)
    BY <2>13, <2>14
  <2>10. Sound(rq.core) => \A w \in 1 .. item' - 1 : got'[name][w] = Yields(rq, 1)
    BY <2>5, <2>6, <2>7, <2>9
  <2>. QED BY <2>8, <2>10 DEF name
<1>3. CASE Access /\ ~SaveBlock
  <2>1. Poll /\ item' = 1
    BY <1>3
    DEF Access, Load, Start, Poll, AdBlock, AckAd, MsgBlock, AckMsg, ReadResults, ReadValid, Judge, Doing,
        Through, Then, Saving
  <2>2. 1 \in 1 .. Words /\ 1 .. 1 - 1 = {} BY <1>0
  <2>. QED BY <2>1, <2>2
<1>. QED BY <1>1, <1>2, <1>3

\* Once it is saved it stays.
LEMMA SavedBefore ==
  ASSUME CoresInv, ValuesInv, Hardware, Access \/ Idle, ~Judge, Testing, TwoBlocks, Saved'
  PROVE  Saved \/ (SaveBlock /\ item = Words)
<1>1. rq' = rq BY SameRequest
<1>2. rq.core = "gc" /\ "gc" \in Cores BY PlannedRequest DEF Cores, TwoBlocks
<1>3. CASE SaveBlock
  <2>1. /\ rq.core = "gc" /\ Started /\ core["gc"].state = "REQ_MSG" /\ Msgs("gc") = 1 /\ strobe = {}
        /\ item = Words \/ doing' = "save block"
    BY <1>3, SavedWord
  <2> SUFFICES ASSUME item # Words PROVE FALSE BY <1>3
  <2>2. doing' = "save block" /\ strobe' = {} BY <1>3, <2>1 DEF SaveBlock, NoWrite
  <2>3. core'["gc"].state = "REQ_MSG" BY <2>1, RequestStands
  <2>4. Msgs("gc")' = 1 BY <1>2, <2>1, ClockCounts
  <2>5. rq'.core = "gc" BY <1>1, <1>2
  <2>6. Msgs("gc")' # 2 BY <2>4
  <2>7. Msgs(rq.core)' # 2 BY <2>5, <2>6 DEF Msgs
  <2>. QED BY <2>2, <2>3, <2>5, <2>7 DEF Saved
<1>4. CASE ~SaveBlock /\ doing' \in {"msg block", "ack msg"}
  <2>1. doing \in {"msg block", "ack msg"}
    BY <1>4
    DEF Access, Idle, Load, Start, Poll, AdBlock, AckAd, MsgBlock, AckMsg, ReadResults, ReadValid, Judge, Doing,
        Through, Then
  <2>. QED BY <2>1 DEF Saved
<1>5. CASE "msg_ack" \in strobe'
  <2>1. ~Idle BY <1>5 DEF Idle, NoWrite
  <2>2. strobe' # {} /\ strobe' # {"ad_ack"} /\ strobe' # {rq.core} BY <1>2, <1>5
  <2>3. doing = "ack msg" BY <2>1, <2>2, DriverMoves DEF Leads
  <2>. QED BY <2>3 DEF Saved
<1>6. CASE Started' /\ \/ Msgs(rq.core)' = 2
                       \/ core'["gc"].state = "PROC_MSG" /\ Msgs(rq.core)' = 1
  <2>0. doing \notin BeforeStart BY <1>6, StartedBefore
  <2>1. Msgs("gc")' \in {1, 2} /\ (Msgs("gc")' = 2 \/ core'["gc"].state = "PROC_MSG")
    BY <1>1, <1>2, <1>6 DEF Msgs
  <2>2. CASE "gc" \in strobe
    <3>1. core'["gc"].in = Latch("gc") BY <1>2, <2>2, ClockInputs
    <3>2. Len(Latch("gc").msgs) = 0 BY LatchedInputs
    <3>3. Msgs("gc")' = 0 BY <3>1, <3>2 DEF Msgs
    <3>4. Msgs("gc")' # 0 BY <2>1
    <3>. QED BY <3>3, <3>4
  <2>3. CASE "gc" \notin strobe
    <3>1. Started BY <1>2, <2>0, <2>3 DEF Started
    <3>2. /\ Msgs("gc") \in Nat
          /\ \/ Msgs("gc")' = Msgs("gc")
             \/ core["gc"].state \in {"LATCH_DAT", "PROC_MSG"} /\ Msgs("gc")' = Msgs("gc") + 1
      BY <1>2, <2>3, ClockCounts
    <3>3. core["gc"].state \in States["gc"] BY <1>2 DEF CoresInv, TakenInv
    <3>4. CASE Msgs("gc")' = 2
      <4>1. Msgs("gc") = 2 \/ (core["gc"].state = "PROC_MSG" /\ Msgs("gc") = 1)
        BY <3>2, <3>3, <3>4 DEF States
      <4>. QED BY <1>2, <3>1, <4>1 DEF Saved
    <3>5. CASE Msgs("gc")' = 1 /\ core'["gc"].state = "PROC_MSG"
      <4>1. \/ core["gc"].state = "WAIT_AD"
            \/ core["gc"].state = "REQ_MSG" /\ "msg_ack" \in strobe
        BY <3>5, ClockStates
      <4>2. CASE core["gc"].state = "WAIT_AD"
        <5>1. PICK blocks : blocks = Blocks(rq.case) OBVIOUS
        <5>2. TakenIn("gc", blocks) BY <1>2, <2>0, <2>3, <5>1 DEF CoresInv, TakenInv
        <5>3. Msgs("gc") = 0 BY <4>2, <5>2 DEF TakenIn
        <5>4. Msgs("gc")' = Msgs("gc") BY <3>2, <4>2
        <5>. QED BY <3>5, <5>3, <5>4
      <4>. QED BY <4>1, <4>2 DEF Saved
    <3>. QED BY <2>1, <3>4, <3>5
  <2>. QED BY <2>2, <2>3
<1>. QED BY <1>1, <1>2, <1>3, <1>4, <1>5, <1>6 DEF Saved

LEMMA SavedStays ==
  ASSUME CoresInv, ValuesInv, Hardware, Access \/ Idle, ~Judge, Testing, TwoBlocks,
         Sound(rq.core), Saved'
  PROVE  got'[OutName(rq, 1)] = Spread(Yields(rq, 1))
<1>1. Saved \/ (SaveBlock /\ item = Words) BY SavedBefore
<1>2. GotShape /\ GotShape' BY GotAfter DEF ValuesInv, GotInv, GotShape
<1>3. OutName(rq, 1) \in Names BY DEF OutName, Part, Names
<1>4. PICK name : name = OutName(rq, 1) OBVIOUS
<1>5. PICK value : value = Yields(rq, 1) OBVIOUS
<1>6. name \in Names BY <1>3, <1>4
<1>7. (\A w \in 1 .. Words : got'[name][w] = value) => got'[name] = Spread(value)
  <2>1. got'[name] = [w \in 1 .. Words |-> got'[name][w]] BY <1>2, <1>6 DEF GotShape, Names
  <2> DEFINE after == got'[name]
  <2>2. after = [w \in 1 .. Words |-> after[w]] BY <2>1
  <2> HIDE DEF after
  <2>3. (\A w \in 1 .. Words : after[w] = value) => after = Spread(value) BY <2>2 DEF Spread
  <2>. QED BY <2>3 DEF after
<1>8. CASE SaveBlock
  <2>1. /\ rq.core = "gc" /\ Started /\ core["gc"].state = "REQ_MSG" /\ Msgs("gc") = 1 /\ strobe = {}
        /\ doing = "save block"
    BY <1>8, SavedWord DEF SaveBlock, Doing
  <2>2. ~Saved
    <3>1. Msgs("gc") = 1 BY <2>1
    <3>2. Msgs("gc") # 2 BY <3>1
    <3>. QED BY <2>1, <3>2 DEF Saved
  <2>3. item = Words BY <1>1, <2>2
  <2>4. /\ item \in 1 .. Words
        /\ got' = GotWith(name, item, core[rq.core].out) /\ core[rq.core].out = value
    BY <1>4, <1>5, <1>8, SavedWord
  <2>5. \A w \in 1 .. item - 1 : got[name][w] = value
    BY <1>4, <1>5, <2>1 DEF ValuesInv, ReadInv
  <2>6. got' = GotWith(name, item, value) BY <2>4
  <2>7. /\ got'[name][item] = value
        /\ \A w \in 1 .. Words : w # item => got'[name][w] = got[name][w]
    BY <1>2, <1>6, <2>4, <2>6, GotPut
  <2>8. \A w \in 1 .. Words : w = item \/ w \in 1 .. item - 1 BY <2>3, CoresAssumption
  <2>9. \A w \in 1 .. Words : got'[name][w] = value BY <2>5, <2>7, <2>8
  <2>. QED BY <1>4, <1>5, <1>7, <2>9
<1>9. CASE ~SaveBlock
  <2>1. got[name] = Spread(value) BY <1>1, <1>4, <1>5, <1>9 DEF ValuesInv, ReadInv, TwoBlocks
  <2>2. CASE ReadResults
    <3>1. PICK list : list = OutputsOf(rq, Blocks(rq.case)) OBVIOUS
    <3>2. /\ rq.mode \in {"enc", "dec"} /\ Len(list) \in {1, 2} /\ Quot + 1 \in 1 .. Len(list)
          /\ Word \in 1 .. Words /\ list[Quot + 1] \in Names
          /\ got' = GotWith(list[Quot + 1], Word, Held(list[Quot + 1]))
      BY <2>2, <3>1, ResultWord
    <3>3. PICK last : last = OutName(rq, Blocks(rq.case)) OBVIOUS
    <3>4. /\ rq.mode = "enc" => Len(list) = 2 /\ list[1] = last /\ list[2] = "tag"
          /\ rq.mode = "dec" => Len(list) = 1 /\ list[1] = last
          /\ name \notin {"tag", last}
      BY <1>4, <3>1, <3>2, <3>3, OutputsAre DEF TwoBlocks
    <3>5. \A e \in 1 .. Len(list) : list[e] # name
      <4>1. \A k \in {1, 2} : \A e \in 1 .. k : e \in {1, 2} OBVIOUS
      <4>2. Len(list) \in {1, 2} BY <3>2
      <4>3. \A e \in 1 .. Len(list) : e \in {1, 2} BY <4>1, <4>2
      <4>. QED BY <3>2, <3>4, <4>3
    <3> DEFINE written == list[Quot + 1]  here == Word  held == Held(list[Quot + 1])
    <3>6. /\ written \in Names /\ written # name /\ here \in 1 .. Words
          /\ got' = GotWith(written, here, held)
      BY <3>2, <3>5
    <3> HIDE DEF written, here, held
    <3>7. got'[name] = got[name] BY <1>2, <1>6, <3>6, GotPut
    <3>. QED BY <1>4, <1>5, <2>1, <3>7
  <2>3. CASE ~ReadResults
    <3>1. got' = got BY <1>9, <2>3, GotKept
    <3>. QED BY <1>4, <1>5, <2>1, <3>1
  <2>. QED BY <2>2, <2>3
<1>. QED BY <1>8, <1>9

\* The results read so far.
ResultList(list) == list = OutputsOf(rq, Blocks(rq.case))
ResultsRead(list) ==
  /\ doing = "results" =>
       /\ item \in 1 .. Len(list) * Words
       /\ \A e \in 1 .. Len(list), w \in 1 .. Words : Before(e, w) => got[list[e]][w] = Held(list[e])
  /\ doing \in {"valid", "judge"} =>
       \A e \in 1 .. Len(list), w \in 1 .. Words : got[list[e]][w] = Held(list[e])

LEMMA HeldStays ==
  ASSUME CoresInv, Hardware, Access \/ Idle, ~Judge, Testing, doing \in AfterDone
  PROVE  \A name : Held(name)' = Held(name)
<1>1. rq' = rq BY SameRequest
<1>2. PICK c : c = rq.core OBVIOUS
<1>3. c \in Cores BY <1>2, PlannedRequest
<1>4. doing # "poll" BY DEF AfterDone
<1>5. strobe = {} BY <1>4 DEF CoresInv, StrobeInv
<1>6. core[c].state = "IDLE" BY <1>3 DEF CoresInv, RestInv
<1>7. core'[c].out = core[c].out /\ core'[c].tag = core[c].tag BY <1>3, <1>5, <1>6, RestKeeps
<1>. QED BY <1>1, <1>2, <1>7 DEF Held

LEMMA ResultsGoOn ==
  ASSUME CoresInv, ValuesInv, Hardware, ReadResults, NEW list, ResultList(list)
  PROVE  ResultsRead(list)'
<1>1. /\ Testing /\ doing \in AfterDone /\ doing = "results"
      /\ Access /\ ~Judge
  BY DEF ReadResults, Doing, AfterDone, Access, Judge
<1>2. PICK len : len = Len(list) OBVIOUS
<1>3. /\ len \in {1, 2} /\ item \in 1 .. len * Words /\ item \in Nat \ {0}
      /\ Quot + 1 \in 1 .. len /\ Word \in 1 .. Words /\ list[Quot + 1] \in Names
      /\ got' = GotWith(list[Quot + 1], Word, Held(list[Quot + 1]))
      /\ \/ doing' \in {"judge", "valid"} /\ item = len * Words
         \/ doing' = "results" /\ item' = item + 1 /\ item' \in 1 .. len * Words
  BY <1>2, ResultWord DEF ResultList
<1>4. len \in Nat \ {0} BY <1>3
<1>5. \A name : Held(name)' = Held(name) BY <1>1, HeldStays
<1>6. GotShape BY DEF ValuesInv, GotInv, GotShape
<1>7. \A e \in 1 .. len, w \in 1 .. Words : Before(e, w) => got[list[e]][w] = Held(list[e])
  BY <1>1, <1>2 DEF ValuesInv, ReadInv, ResultList
<1>8. \A e \in 1 .. len : list[e] \in Names
  <2>1. /\ rq.mode \in {"enc", "dec"} /\ Blocks(rq.case) \in {1, 2} BY <1>1, PlannedRequest, ResultWord
  <2>2. PICK last : last = OutName(rq, Blocks(rq.case)) OBVIOUS
  <2>3. /\ rq.mode = "enc" => len = 2 /\ list[1] = last /\ list[2] = "tag"
        /\ rq.mode = "dec" => len = 1 /\ list[1] = last
        /\ last \in Names \ {"tag"}
    BY <1>2, <2>1, <2>2, OutputsAre DEF ResultList
  <2>. QED BY <2>1, <2>3 DEF Names
<1> DEFINE name == list[Quot + 1]  here == Word  held == Held(list[Quot + 1])
<1>9. name \in Names /\ here \in 1 .. Words /\ got' = GotWith(name, here, held) BY <1>3
<1>10. held = Held(name) OBVIOUS
<1> HIDE DEF name, here, held
<1>11. /\ got'[name][here] = held
       /\ \A other \in Names, v \in 1 .. Words :
            ~(other = name /\ v = here) => got'[other][v] = got[other][v]
  <2> DEFINE after == GotWith(name, here, held)
  <2>1. /\ after[name][here] = held
        /\ \A other \in Names, v \in 1 .. Words :
             ~(other = name /\ v = here) => after[other][v] = got[other][v]
    BY <1>6, <1>9, GotPut
  <2>2. got' = after BY <1>9
  <2> HIDE DEF after
  <2>. QED BY <2>1, <2>2
<1>12. ASSUME NEW e \in 1 .. len, NEW w \in 1 .. Words, Before(e, w) \/ (e = Quot + 1 /\ w = Word)
       PROVE  got'[list[e]][w] = Held(list[e])
  <2>1. list[e] \in Names BY <1>8
  <2>2. CASE list[e] = name /\ w = here BY <1>10, <1>11, <2>2
  <2>3. CASE ~(list[e] = name /\ w = here)
    <3>1. Before(e, w) BY <1>12, <2>3 DEF name, here
    <3>. QED BY <1>7, <1>11, <2>1, <2>3, <3>1
  <2>. QED BY <2>2, <2>3
<1>13. CASE doing' \in {"judge", "valid"} /\ item = len * Words
  <2>1. \A e \in 1 .. len, w \in 1 .. Words : got'[list[e]][w] = Held(list[e])
    BY <1>3, <1>4, <1>12, <1>13, ListEnds
  <2>. QED BY <1>2, <1>5, <1>13, <2>1 DEF ResultsRead
<1>14. CASE doing' = "results" /\ item' = item + 1 /\ item' \in 1 .. len * Words
  <2>1. ASSUME NEW e \in 1 .. len, NEW w \in 1 .. Words, Before(e, w)'
        PROVE  got'[list[e]][w] = Held(list[e])
    <3>1. e \in Nat \ {0} BY <1>4
    <3>2. Before(e, w) \/ (e = Quot + 1 /\ w = Word) BY <1>3, <1>14, <2>1, <3>1, ListGoesOn
    <3>. QED BY <1>12, <3>2
  <2>. QED BY <1>2, <1>5, <1>14, <2>1 DEF ResultsRead
<1>. QED BY <1>3, <1>13, <1>14

LEMMA ResultsStay ==
  ASSUME CoresInv, ValuesInv, Hardware, Access \/ Idle, ~Judge, Testing, NEW list, ResultList(list)
  PROVE  ResultsRead(list)'
<1>1. ResultsRead(list) BY DEF ValuesInv, ReadInv, ResultList, ResultsRead
<1>2. CASE ReadResults BY <1>2, ResultsGoOn
<1>3. CASE Idle
  <2>1. doing' = doing /\ item' = item /\ got' = got BY <1>3 DEF Idle
  <2>2. \A e, w : Before(e, w)' <=> Before(e, w) BY <2>1 DEF Before, Quot, Word
  <2>3. CASE doing \in AfterDone
    <3>1. \A name : Held(name)' = Held(name) BY <2>3, HeldStays
    <3>. QED BY <1>1, <2>1, <2>2, <3>1 DEF ResultsRead
  <2>4. CASE doing \notin AfterDone BY <2>1, <2>4 DEF ResultsRead, AfterDone
  <2>. QED BY <2>3, <2>4
<1>4. CASE ReadValid
  <2>1. doing = "valid" /\ doing' = "judge" /\ got' = got BY <1>4 DEF ReadValid, Doing, Then
  <2>2. \A name : Held(name)' = Held(name) BY <2>1, HeldStays DEF AfterDone
  <2>. QED BY <1>1, <2>1, <2>2 DEF ResultsRead
<1>5. CASE Poll
  <2>0. /\ rq.mode \in {"enc", "dec", "forged"} /\ Blocks(rq.case) \in {1, 2}
        /\ rq.mode = "forged" => Blocks(rq.case) = 1
    BY PlannedRequest
  <2>1. PICK len : len = Len(list) OBVIOUS
  <2>2. rq.mode = "forged" => len = 0 BY <2>0, <2>1, OutputsAre DEF ResultList
  <2>3. rq.mode # "forged" => len \in {1, 2} BY <2>0, <2>1, OutputsAre DEF ResultList
  <2>4. \/ doing' \notin AfterDone
        \/ doing' = "valid" /\ rq.mode = "forged"
        \/ doing' = "results" /\ rq.mode # "forged" /\ item' = 1
    BY <1>5 DEF Poll, Then, Doing, AfterDone
  <2>5. CASE doing' \notin AfterDone BY <2>5 DEF ResultsRead, AfterDone
  <2>6. CASE doing' = "valid" /\ rq.mode = "forged"
    <3>1. 1 .. len = {} BY <2>2, <2>6
    <3>. QED BY <2>1, <2>6, <3>1 DEF ResultsRead
  <2>7. CASE doing' = "results" /\ rq.mode # "forged" /\ item' = 1
    <3>1. len \in Nat \ {0} /\ Words \in Nat \ {0} BY <2>3, <2>7, CoresAssumption
    <3>2. 1 \in 1 .. len * Words BY <3>1
    <3>3. \A e, w \in Nat \ {0} : ~Before(e, w)' BY <2>7, ListBegins
    <3>4. \A e \in 1 .. len, w \in 1 .. Words : e \in Nat \ {0} /\ w \in Nat \ {0} BY <3>1
    <3>. QED BY <2>1, <2>7, <3>2, <3>3, <3>4 DEF ResultsRead
  <2>. QED BY <2>4, <2>5, <2>6, <2>7
<1>6. CASE Access /\ ~ReadResults /\ ~ReadValid /\ ~Poll
  <2>1. doing' \notin AfterDone
    BY <1>6
    DEF Access, Load, Start, AdBlock, AckAd, SaveBlock, MsgBlock, AckMsg, Judge, Doing, Through, Then, AfterDone
  <2>. QED BY <2>1 DEF ResultsRead, AfterDone
<1>. QED BY <1>2, <1>3, <1>4, <1>5, <1>6

LEMMA StepReadInv ==
  ASSUME CoresInv, ValuesInv, Hardware, Access \/ Idle
  PROVE  ReadInv'
<1>1. CASE Judge
  <2>1. doing' = "load" /\ strobe' = {} BY <1>1 DEF Judge, Then, NoWrite
  <2>2. ~Saved' BY <2>1 DEF Saved, Started, BeforeStart
  <2>. QED BY <2>1, <2>2 DEF ReadInv
<1>2. CASE ~Judge
  <2> SUFFICES ASSUME Testing' PROVE ReadInv' BY DEF ReadInv
  <2>1. rq' = rq /\ Testing BY <1>2, SameRequest
  <2>2. Sound(rq.core)' <=> Sound(rq.core) BY <2>1 DEF Sound, Hardware
  <2>3. PICK list : list = OutputsOf(rq, Blocks(rq.case)) OBVIOUS
  <2>4. ResultsRead(list)' BY <1>2, <2>1, <2>3, ResultsStay DEF ResultList
  <2>5. doing' = "save block" =>
          /\ item' \in 1 .. Words
          /\ Sound(rq.core) => \A w \in 1 .. item' - 1 : got'[OutName(rq, 1)][w] = Yields(rq, 1)
    BY <1>2, SaveGoesOn DEF Saving
  <2>6. Blocks(rq.case) = 2 /\ Sound(rq.core) /\ Saved' => got'[OutName(rq, 1)] = Spread(Yields(rq, 1))
    BY <1>2, <2>1, SavedStays DEF TwoBlocks
  <2>7. /\ Blocks(rq.case)' = Blocks(rq.case) /\ OutName(rq, 1)' = OutName(rq, 1)
        /\ Yields(rq, 1)' = Yields(rq, 1)
        /\ OutputsOf(rq, Blocks(rq.case))' = list
    BY <2>1, <2>3 DEF OutName, Yields, Blocks, OutputsOf
  <2>. QED BY <2>2, <2>4, <2>5, <2>6, <2>7 DEF ReadInv, ResultsRead
<1>. QED BY <1>1, <1>2

-------------------------------------------------------------------------------
(* The values are as they should be, for ever *)

LEMMA StepJudgedInv ==
  ASSUME CoresInv, ValuesInv, Hardware, Access \/ Idle
  PROVE  JudgedInv'
<1>1. fault' = fault BY DEF Hardware
<1>2. /\ fault \in Faults /\ failed \subseteq {fault[1]} \cap Cores
      /\ \A i \in 1 .. Len(Plan) : i < at /\ Shows(Plan[i]) => Plan[i].core \in failed
  BY DEF ValuesInv, JudgedInv
<1>3. \A request : Shows(request)' <=> Shows(request) BY <1>1 DEF Shows, Faulty
<1>4. CASE ~Judge
  <2>1. at' = at /\ failed' = failed BY <1>4, SameRequest
  <2>. QED BY <1>1, <1>2, <1>3, <2>1 DEF JudgedInv
<1>5. CASE Judge
  <2>1. /\ Testing /\ doing = "judge" /\ at' = at + 1
        /\ failed' = IF Passes(rq) THEN failed ELSE failed \cup {rq.core}
    BY <1>5 DEF Judge, Doing
  <2>2. rq.core \in Cores BY <2>1, PlannedRequest
  <2>3. ~Passes(rq) => rq.core = fault[1] BY <2>1, SoundPasses DEF Sound
  <2>4. Shows(rq) => ~Passes(rq) BY <2>1, DefectFails
  <2>5. failed \subseteq failed' /\ failed' \subseteq {fault[1]} \cap Cores BY <1>2, <2>1, <2>2, <2>3
  <2>6. Shows(rq) => rq.core \in failed' BY <2>1, <2>4
  <2>7. ASSUME NEW i \in 1 .. Len(Plan), i < at', Shows(Plan[i]) PROVE Plan[i].core \in failed'
    <3>1. i < at \/ i = at
      <4>1. at \in Nat BY <2>1, PlanLength DEF Testing
      <4>. QED BY <2>1, <2>7, <4>1
    <3>2. CASE i < at BY <1>2, <2>5, <2>7, <3>2
    <3>3. CASE i = at BY <2>6, <2>7, <3>3 DEF rq
    <3>. QED BY <3>1, <3>2, <3>3
  <2>. QED BY <1>1, <1>2, <1>3, <2>5, <2>7 DEF JudgedInv
<1>. QED BY <1>4, <1>5

LEMMA ClockOver ==
  ASSUME CoresInv, ValuesInv, Access \/ Idle, UNCHANGED testVars
  PROVE  OverInv'
<1>1. place' = place BY DEF testVars, sdVars
<1>2. OverInv BY DEF ValuesInv
<1>3. at' = at \/ (Judge /\ Testing) BY DriverMoves DEF Idle, Judge, Doing
<1>4. place # "start" => at' = Len(Plan) + 1
  <2> SUFFICES ASSUME place # "start" PROVE at' = Len(Plan) + 1 OBVIOUS
  <2>1. at = Len(Plan) + 1 BY <1>2 DEF OverInv
  <2>2. ~Testing BY <2>1, PlanLength DEF Testing
  <2>. QED BY <1>3, <2>1, <2>2
<1>5. out_byte' \in {out_byte, 48, 112}
  <2>1. CASE Judge BY <2>1 DEF Judge, Progress
  <2>2. CASE ~Judge
    BY <2>2
    DEF Access, Idle, Load, Start, Poll, AdBlock, AckAd, SaveBlock, MsgBlock, AckMsg, ReadResults,
        ReadValid, KeepPlan
  <2>. QED BY <2>1, <2>2
<1>6. at' # 0
  <2>1. at > 0
    <3>1. CASE Judge BY <3>1, PlanLength DEF Judge, Doing, Testing
    <3>2. CASE Idle BY <3>2 DEF Idle
    <3>3. CASE Access /\ ~Judge
      <4>1. Testing BY <3>3, DriverMoves
      <4>. QED BY <4>1, PlanLength DEF Testing
    <3>. QED BY <3>1, <3>2, <3>3
  <2>2. at \in Nat BY PlanLength DEF CoresInv, PlaceInv
  <2>3. at' = at \/ at' = at + 1 BY <1>3 DEF Judge
  <2>. QED BY <2>1, <2>2, <2>3
<1>. QED BY <1>1, <1>2, <1>4, <1>5, <1>6 DEF OverInv

LEMMA ClockValues ==
  ASSUME CoresInv, ValuesInv, Aead
  PROVE  ValuesInv'
<1>1. Hardware /\ (Access \/ Idle) /\ UNCHANGED testVars BY DEF Aead, AeadClock
<1>2. GotInv' BY <1>1, StepGotInv
<1>3. RegsInv' BY <1>1, StepRegsInv
<1>4. FedInv' BY <1>1, StepFedInv
<1>5. ResultInv' BY <1>1, StepResultInv
<1>6. BrokenInv' BY <1>1, ClockBroken
<1>7. ValidInv' BY <1>1, StepValidInv
<1>8. ReadInv' BY <1>1, StepReadInv
<1>9. JudgedInv' BY <1>1, StepJudgedInv
<1>10. OverInv' BY <1>1, ClockOver
<1>. QED BY <1>2, <1>3, <1>4, <1>5, <1>6, <1>7, <1>8, <1>9, <1>10 DEF ValuesInv

\* The card and the report do not touch the cores and their driver.
AeadParts == /\ GotInv /\ RegsInv /\ FedInv /\ ResultInv /\ BrokenInv /\ ValidInv /\ ReadInv /\ JudgedInv
LEMMA OthersLeaveValues ==
  ASSUME AeadParts, UNCHANGED <<hwVars, at, doing, item, got, status, failed>>
  PROVE  AeadParts'
<1>1. /\ regs' = regs /\ strobe' = strobe /\ core' = core /\ sticky' = sticky /\ fault' = fault
      /\ at' = at /\ doing' = doing /\ item' = item /\ got' = got /\ status' = status /\ failed' = failed
  BY DEF hwVars
<1>2. rq' = rq /\ (Testing' <=> Testing) /\ (Started' <=> Started) BY <1>1 DEF rq, Testing, Started
<1>3. \A e, w : Before(e, w)' <=> Before(e, w) BY <1>1 DEF Before, Quot, Word
<1>4. /\ Sound(rq.core)' <=> Sound(rq.core)
      /\ Ads(rq.core)' = Ads(rq.core) /\ Msgs(rq.core)' = Msgs(rq.core)
      /\ Inputs(rq)' = Inputs(rq) /\ OutputsOf(rq, Blocks(rq.case))' = OutputsOf(rq, Blocks(rq.case))
      /\ \A name, block : Given(rq, name, block)' = Given(rq, name, block)
      /\ \A block : OutName(rq, block)' = OutName(rq, block) /\ Yields(rq, block)' = Yields(rq, block)
      /\ Blocks(rq.case)' = Blocks(rq.case)
  BY <1>1, <1>2 DEF Sound, Ads, Msgs, Inputs, OutputsOf, Given, OutName, Yields, Blocks
<1>5. \A name, block : Put(name, block)' <=> Put(name, block) BY <1>1, <1>2, <1>4 DEF Put
<1>6. \A name : Held(name)' = Held(name) BY <1>1, <1>2 DEF Held
<1>7. (Saved' <=> Saved) /\ (Accepts' <=> Accepts) BY <1>1, <1>2, <1>4 DEF Saved, Accepts
<1>8. /\ \A request : Shows(request)' <=> Shows(request)
      /\ \A c, kind : Faulty(c, kind)' <=> Faulty(c, kind)
  BY <1>1 DEF Shows, Faulty
<1>9. GotInv' BY <1>1, <1>2, <1>4 DEF AeadParts, GotInv
<1>10. RegsInv' BY <1>1, <1>2, <1>3, <1>4, <1>5 DEF AeadParts, RegsInv
<1>11. FedInv' BY <1>1, <1>2, <1>4 DEF AeadParts, FedInv
<1>12. ResultInv' BY <1>1, <1>2, <1>4 DEF AeadParts, ResultInv, OutStates, TagStates
<1>13. BrokenInv' BY <1>1, <1>8 DEF AeadParts, BrokenInv
<1>14. ValidInv' BY <1>1, <1>2, <1>4, <1>7 DEF AeadParts, ValidInv
<1>15. ReadInv' BY <1>1, <1>2, <1>3, <1>4, <1>6, <1>7 DEF AeadParts, ReadInv
<1>16. JudgedInv' BY <1>1, <1>8 DEF AeadParts, JudgedInv
<1>. QED BY <1>9, <1>10, <1>11, <1>12, <1>13, <1>14, <1>15, <1>16 DEF AeadParts

LEMMA BeginValues ==
  ASSUME CoresInv, ValuesInv, Begin
  PROVE  ValuesInv'
<1>1. /\ at = 0 /\ at' = 1 /\ out_byte' = 1 /\ place' = place
      /\ regs' = regs /\ strobe' = strobe /\ core' = core /\ sticky' = sticky /\ fault' = fault
      /\ doing' = doing /\ item' = item /\ got' = got /\ status' = status /\ failed' = failed
  BY DEF Begin, hwVars, testVars, sdVars
<1>2. ~Testing BY <1>1 DEF Testing
<1>3. doing = "load" /\ strobe = {} BY <1>2 DEF CoresInv, PlaceInv, StrobeInv
<1>4. item' = 1 BY <1>1 DEF ValuesInv, OverInv
<1>5. rq' = Plan[1] BY <1>1 DEF rq
<1>6. rq'.mode = "enc" BY <1>5, PlanIs DEF Asks, Request
<1>7. ~Started' /\ ~Saved' BY <1>1, <1>3 DEF Started, Saved, BeforeStart
<1>8. GotInv' BY <1>1, <1>6 DEF ValuesInv, GotInv, Names
<1>9. RegsInv'
  <2>1. \A e, w \in Nat \ {0} : ~Before(e, w)' BY <1>4, ListBegins
  <2>2. PICK len : len = Len(Inputs(rq')) OBVIOUS
  <2>3. len \in {4, 5} BY <2>2, InputsAre
  <2>4. 1 \in 1 .. len * Words
    <3>1. len \in Nat \ {0} /\ Words \in Nat \ {0} BY <2>3, CoresAssumption
    <3>. QED BY <3>1
  <2>5. \A e \in 1 .. len, w \in 1 .. Words : e \in Nat \ {0} /\ w \in Nat \ {0}
    BY <2>3, CoresAssumption
  <2>6. Inputs(rq)' = Inputs(rq') OBVIOUS
  <2>. QED BY <1>1, <1>3, <1>4, <1>7, <2>1, <2>2, <2>4, <2>5, <2>6 DEF RegsInv
<1>10. FedInv' /\ ResultInv' /\ ValidInv' BY <1>7 DEF FedInv, ResultInv, ValidInv
<1>11. BrokenInv' BY <1>1 DEF ValuesInv, BrokenInv, Faulty
<1>12. ReadInv' BY <1>1, <1>3, <1>7 DEF ReadInv
<1>13. JudgedInv'
  <2>1. \A i \in 1 .. Len(Plan) : ~(i < 1) BY PlanLength
  <2>. QED BY <1>1, <2>1 DEF ValuesInv, JudgedInv
<1>14. OverInv'
  <2>1. place = "start"
    <3>1. at = Len(Plan) + 1 => at # 0 BY PlanLength
    <3>. QED BY <1>1, <3>1 DEF ValuesInv, OverInv
  <2>. QED BY <1>1, <2>1 DEF OverInv
<1>. QED BY <1>8, <1>9, <1>10, <1>11, <1>12, <1>13, <1>14 DEF ValuesInv

\* The card test is over once and for all.
LEMMA OverIsOver == PollInv /\ place = "over" => ~SdStep
  BY DEF PollInv, SdStep, InitCard, Select, SendCmd, PollCmd, Cmd0, Cmd8, Cmd55, Acmd41, Cmd58, Cmd16, Cmd17,
         Token, Answered, Commands

LEMMA OtherValues ==
  ASSUME ValuesInv, IInv, Sd \/ Report \/ UNCHANGED vars
  PROVE  ValuesInv'
<1>1. UNCHANGED <<hwVars, at, doing, item, got, status, failed>>
  BY DEF Sd, Report, vars, aeadVars, driverVars
<1>2. AeadParts BY DEF ValuesInv, AeadParts
<1>3. AeadParts' BY <1>1, <1>2, OthersLeaveValues
<1>4. OverInv BY DEF ValuesInv
<1>5. OverInv'
  <2>1. CASE Sd
    <3>1. at = Len(Plan) + 1 /\ at' = at /\ item' = item /\ out_byte' = out_byte
      BY <2>1 DEF Sd, AeadOver, aeadVars, driverVars
    <3>2. place # "over" BY <2>1, OverIsOver DEF IInv, Sd
    <3>. QED BY <1>4, <3>1, <3>2 DEF OverInv
  <2>2. CASE Report
    BY <1>4, <2>2 DEF Report, SdOver, AeadOver, OverInv, testVars, sdVars
  <2>3. CASE UNCHANGED vars
    BY <1>4, <2>3 DEF vars, aeadVars, driverVars, testVars, sdVars, OverInv
  <2>. QED BY <2>1, <2>2, <2>3
<1>. QED BY <1>3, <1>5 DEF ValuesInv, AeadParts

LEMMA FirstValues == Init => ValuesInv
<1> SUFFICES ASSUME Init PROVE ValuesInv OBVIOUS
<1>1. HwInit /\ at = 0 /\ doing = "load" /\ item = 1 /\ failed = {} /\ out_byte = 0 /\ place = "start"
  BY DEF Init, AeadInit, SdInit
<1>2. ~Testing BY <1>1 DEF Testing
<1>3. GotInv
  <2>1. got = [name \in Names |-> Spread(Junk)] BY DEF Init, AeadInit, Names
  <2>2. Spread(Junk) = [w \in 1 .. Words |-> Spread(Junk)[w]] BY DEF Spread
  <2> DEFINE junk == Spread(Junk)
  <2>3. got = [name \in Names |-> junk] /\ junk = [w \in 1 .. Words |-> junk[w]] BY <2>1, <2>2
  <2> HIDE DEF junk
  <2>4. DOMAIN got = Names /\ \A name \in Names : got[name] = [w \in 1 .. Words |-> got[name][w]]
    BY <2>3
  <2>. QED BY <1>2, <2>4 DEF GotInv
<1>4. RegsInv /\ FedInv /\ ResultInv /\ ValidInv /\ ReadInv
  BY <1>2 DEF RegsInv, FedInv, ResultInv, ValidInv, ReadInv
<1>5. BrokenInv
  <2>1. \A c \in Cores : core[c].out = Zero /\ core[c].tag = Zero BY <1>1 DEF HwInit
  <2>. QED BY <2>1 DEF BrokenInv
<1>6. JudgedInv
  <2>1. \A i \in 1 .. Len(Plan) : ~(i < 0) BY PlanLength
  <2>2. fault \in Faults BY <1>1 DEF HwInit
  <2>. QED BY <1>1, <2>1, <2>2 DEF JudgedInv
<1>7. OverInv BY <1>1 DEF OverInv
<1>. QED BY <1>3, <1>4, <1>5, <1>6, <1>7 DEF ValuesInv

LEMMA StepValues == CoresInv /\ IInv /\ ValuesInv /\ [Next]_vars => ValuesInv'
<1> SUFFICES ASSUME CoresInv, IInv, ValuesInv, [Next]_vars PROVE ValuesInv' OBVIOUS
<1>. QED BY BeginValues, ClockValues, OtherValues DEF Next

-------------------------------------------------------------------------------
(* The refinement of the promise *)

\* The tests of a core are over when the driver is behind its last request.
Ended(a, c) == a > 0 /\ \A i \in a .. Len(Plan) : Plan[i].core # c
LEMMA WhenEnded ==
  ASSUME NEW a \in 0 .. Len(Plan) + 1
  PROVE  /\ Ended(a, "jb") <=> a > 9
         /\ Ended(a, "xd") <=> a > 11
         /\ Ended(a, "gc") <=> a > 15
<1>1. Len(Plan) = 15 BY PlanIs
<1>2. \A i \in 1 .. 15 : Plan[i].core = IF i <= 9 THEN "jb" ELSE IF i <= 11 THEN "xd" ELSE "gc"
  BY PlanCores, <1>1
<1>3. a \in 0 .. 16 BY <1>1
<1>4. Plan[9].core = "jb" /\ Plan[11].core = "xd" /\ Plan[15].core = "gc" BY <1>2
<1>5. a > 9 => \A i \in a .. 15 : i \in 1 .. 15 /\ ~(i <= 9) BY <1>3
<1>6. a > 11 => \A i \in a .. 15 : i \in 1 .. 15 /\ ~(i <= 9) /\ ~(i <= 11) BY <1>3
<1>7. a > 15 => \A i \in a .. 15 : FALSE BY <1>3
<1>8. /\ ~(a > 9) => 9 \in a .. 15
      /\ ~(a > 11) => 11 \in a .. 15
      /\ ~(a > 15) => 15 \in a .. 15
  BY <1>3
<1>9. /\ a > 9 => a > 0
      /\ a > 11 => a > 0
      /\ a > 15 => a > 0
  BY <1>3
<1>10. Ended(a, "jb") <=> a > 9 BY <1>1, <1>2, <1>4, <1>5, <1>8, <1>9 DEF Ended
<1>11. Ended(a, "xd") <=> a > 11 BY <1>1, <1>2, <1>4, <1>6, <1>8, <1>9 DEF Ended
<1>12. Ended(a, "gc") <=> a > 15 BY <1>1, <1>4, <1>7, <1>8, <1>9 DEF Ended
<1>. QED BY <1>10, <1>11, <1>12

\* They are over in the order of the promise, one core after the other.
EndedCount(a) == IF a <= 9 THEN 0 ELSE IF a <= 11 THEN 1 ELSE IF a <= 15 THEN 2 ELSE 3
LEMMA HowManyEnded ==
  ASSUME NEW a \in 0 .. Len(Plan) + 1
  PROVE  Cardinality({c \in Cores : Ended(a, c)}) = EndedCount(a)
<1>1. Len(Plan) = 15 BY PlanIs
<1>2. a \in 0 .. 16 BY <1>1
<1> DEFINE E == {c \in Cores : Ended(a, c)}
<1>3. IsFiniteSet({}) /\ Cardinality({}) = 0 BY FS_EmptySet
<1>4. IsFiniteSet({"jb"}) /\ Cardinality({"jb"}) = 1 BY FS_Singleton
<1>5. IsFiniteSet({"jb"} \cup {"xd"}) /\ Cardinality({"jb"} \cup {"xd"}) = 2
  <2>1. "xd" \notin {"jb"} OBVIOUS
  <2>. QED BY <1>4, <2>1, FS_AddElement
<1>6. Cardinality(({"jb"} \cup {"xd"}) \cup {"gc"}) = 3
  <2> DEFINE two == {"jb"} \cup {"xd"}
  <2>1. "gc" \notin two OBVIOUS
  <2>2. IsFiniteSet(two) /\ Cardinality(two) = 2 BY <1>5
  <2> HIDE DEF two
  <2>3. Cardinality(two \cup {"gc"}) = 2 + 1 BY <2>1, <2>2, FS_AddElement
  <2>. QED BY <2>3 DEF two
<1>7. /\ "jb" \in E <=> a > 9
      /\ "xd" \in E <=> a > 11
      /\ "gc" \in E <=> a > 15
  BY WhenEnded DEF Cores
<1>8. E \subseteq {"jb", "xd", "gc"} BY DEF Cores
<1> HIDE DEF E
<1>9. CASE a <= 9
  <2>1. ~(a > 9) /\ ~(a > 11) /\ ~(a > 15) BY <1>2, <1>9
  <2>2. E = {} BY <1>7, <1>8, <2>1
  <2>. QED BY <1>3, <1>9, <2>2 DEF E, EndedCount
<1>10. CASE a > 9 /\ a <= 11
  <2>1. a > 9 /\ ~(a > 11) /\ ~(a > 15) /\ ~(a <= 9) BY <1>2, <1>10
  <2>2. E = {"jb"} BY <1>7, <1>8, <2>1
  <2>. QED BY <1>4, <1>10, <2>1, <2>2 DEF E, EndedCount
<1>11. CASE a > 11 /\ a <= 15
  <2>1. a > 9 /\ ~(a > 15) /\ ~(a <= 9) /\ ~(a <= 11) BY <1>2, <1>11
  <2>2. E = {"jb"} \cup {"xd"} BY <1>7, <1>8, <1>11, <2>1
  <2>. QED BY <1>5, <1>11, <2>1, <2>2 DEF E, EndedCount
<1>12. CASE a > 15
  <2>1. a > 9 /\ a > 11 /\ ~(a <= 9) /\ ~(a <= 11) /\ ~(a <= 15) BY <1>2, <1>12
  <2>2. E = ({"jb"} \cup {"xd"}) \cup {"gc"} BY <1>7, <1>8, <1>12, <2>1
  <2>. QED BY <1>6, <2>1, <2>2 DEF E, EndedCount
<1>. QED
  <2>1. a <= 9 \/ (a > 9 /\ a <= 11) \/ (a > 11 /\ a <= 15) \/ a > 15 BY <1>2
  <2>. QED BY <1>9, <1>10, <1>11, <1>12, <2>1

\* When its tests are over, a core has failed exactly if it is defective.
LEMMA EndedVerdict ==
  ASSUME CoresInv, JudgedInv, NEW c \in Cores, Ended(at, c)
  PROVE  c \in failed <=> c = fault[1]
<1>1. Len(Plan) = 15 BY PlanIs
<1>2. at \in 0 .. Len(Plan) + 1 BY DEF CoresInv, PlaceInv
<1>3. failed \subseteq {fault[1]} /\ fault \in Faults BY DEF JudgedInv
<1>4. ASSUME c = fault[1], NEW i \in 1 .. 15, Plan[i].core = c, Shows(Plan[i])
      PROVE  c \in failed
  <2>1. i < at
    <3>1. at > 0 /\ ~(i \in at .. 15) BY <1>1, <1>4 DEF Ended
    <3>. QED BY <1>1, <1>2, <3>1
  <2>. QED BY <1>1, <1>4, <2>1 DEF JudgedInv
<1>5. c = fault[1] => \E i \in 1 .. 15 : Plan[i].core = c /\ Shows(Plan[i])
  <2> SUFFICES ASSUME c = fault[1] PROVE \E i \in 1 .. 15 : Plan[i].core = c /\ Shows(Plan[i])
    OBVIOUS
  <2>1. \/ fault[2] \in {"out", "tag", "rejects"}
        \/ c = "jb" /\ fault[2] = "accepts"
    BY <1>3 DEF Faults, Cores
  <2>2. Faulty(c, fault[2])
    <3>1. fault = <<fault[1], fault[2]>> BY <1>3 DEF Faults
    <3>. QED BY <3>1 DEF Faulty
  <2>3. /\ Plan[9].core = "jb" /\ Plan[9].mode = "forged"
        /\ Plan[1].core = "jb" /\ Plan[1].mode = "enc" /\ Plan[2].core = "jb" /\ Plan[2].mode = "dec"
        /\ Plan[10].core = "xd" /\ Plan[10].mode = "enc" /\ Plan[11].core = "xd" /\ Plan[11].mode = "dec"
        /\ Plan[12].core = "gc" /\ Plan[12].mode = "enc" /\ Plan[13].core = "gc" /\ Plan[13].mode = "dec"
    BY PlanIs DEF Asks, Request
  <2>4. 9 \in 1 .. 15 /\ 1 \in 1 .. 15 /\ 2 \in 1 .. 15 /\ 10 \in 1 .. 15 /\ 11 \in 1 .. 15
        /\ 12 \in 1 .. 15 /\ 13 \in 1 .. 15
    OBVIOUS
  <2>5. CASE fault[2] = "accepts" BY <2>1, <2>2, <2>3, <2>4, <2>5 DEF Shows
  <2>6. CASE fault[2] = "rejects"
    <3>1. CASE c = "jb" BY <2>2, <2>3, <2>4, <2>6, <3>1 DEF Shows
    <3>2. CASE c = "xd" BY <2>2, <2>3, <2>4, <2>6, <3>2 DEF Shows
    <3>3. CASE c = "gc" BY <2>2, <2>3, <2>4, <2>6, <3>3 DEF Shows
    <3>. QED BY <3>1, <3>2, <3>3 DEF Cores
  <2>7. CASE fault[2] \in {"out", "tag"}
    <3>1. CASE c = "jb" BY <2>2, <2>3, <2>4, <2>7, <3>1 DEF Shows
    <3>2. CASE c = "xd" BY <2>2, <2>3, <2>4, <2>7, <3>2 DEF Shows
    <3>3. CASE c = "gc" BY <2>2, <2>3, <2>4, <2>7, <3>3 DEF Shows
    <3>. QED BY <3>1, <3>2, <3>3 DEF Cores
  <2>. QED BY <2>1, <2>5, <2>6, <2>7
<1>. QED BY <1>3, <1>4, <1>5

\* By the time the last request is judged, the cores have come to rest.
LEMMA AtTheEnd == CoresInv => (AeadOver <=> at = Len(Plan) + 1)
<1> SUFFICES ASSUME CoresInv, at = Len(Plan) + 1 PROVE Settled BY DEF AeadOver
<1>1. ~Testing BY PlanLength DEF Testing
<1>2. doing = "load" BY <1>1 DEF CoresInv, PlaceInv
<1>. QED BY <1>2 DEF CoresInv, RestInv, Settled, BeforeStart

LEMMA AtTheEndNext == CoresInv' => (AeadOver' <=> at' = Len(Plan) + 1)
<1>1. CoresInv => (AeadOver <=> at = Len(Plan) + 1) BY AtTheEnd
<1>2. (CoresInv => (AeadOver <=> at = Len(Plan) + 1))' BY <1>1, PTL
<1>. QED BY <1>2
LEMMA EndedVerdictNext ==
  CoresInv' /\ JudgedInv' => \A c \in Cores : Ended(at', c) => (c \in failed' <=> c = fault'[1])
<1>1. CoresInv /\ JudgedInv => \A c \in Cores : Ended(at, c) => (c \in failed <=> c = fault[1])
  BY EndedVerdict
<1>2. (CoresInv /\ JudgedInv => \A c \in Cores : Ended(at, c) => (c \in failed <=> c = fault[1]))'
  BY <1>1, PTL
<1>. QED BY <1>2

\* What the promise sees of the self-test.
SoundUnits == (Cores \ {fault[1]}) \cup (IF card.signed THEN {"sd"} ELSE {})
UnitsTested == CoresTested + (IF SdOver THEN 1 ELSE 0)
UnitsFailed ==
  {c \in failed : \A i \in 1 .. Len(Plan) : Plan[i].core = c => i < at}
    \cup (IF SdOver /\ ~sd_pass THEN {"sd"} ELSE {})
Shown == CASE out_byte = 255 -> "pass" [] out_byte = 85 -> "fail" [] OTHER -> "none"
Seen == <<SoundUnits, UnitsTested, UnitsFailed, Shown>>

Units == <<"jb", "xd", "gc", "sd">>
TestsUnit ==
  /\ UnitsTested \in 0 .. Len(Units) - 1 /\ UnitsTested' = UnitsTested + 1
  /\ LET unit == Units[UnitsTested']
     IN  \/ unit \in SoundUnits /\ UnitsFailed' = UnitsFailed
         \/ unit \notin SoundUnits \ {"sd"} /\ UnitsFailed' = UnitsFailed \cup {unit}
  /\ UNCHANGED <<SoundUnits, Shown>>
Reports ==
  /\ UnitsTested = Len(Units) /\ Shown = "none"
  /\ Shown' = IF UnitsFailed = {} THEN "pass" ELSE "fail"
  /\ UNCHANGED <<SoundUnits, UnitsTested, UnitsFailed>>

LEMMA PromisedSteps ==
  TestsUnit \/ Reports \/ UNCHANGED Seen
    => [Promise!Next]_<<SoundUnits, UnitsTested, UnitsFailed, Shown>>
<1>1. TestsUnit => Promise!Test
  BY DEF TestsUnit, Promise!Test, Units, SoundUnits, UnitsTested, UnitsFailed, Shown
<1>2. Reports => Promise!Report
  BY DEF Reports, Promise!Report, Units, SoundUnits, UnitsTested, UnitsFailed, Shown
<1>. QED BY <1>1, <1>2 DEF Promise!Next, Seen

\* In terms of the driver's place in the plan and of the chip's defect.
TestOver == at = Len(Plan) + 1 /\ place = "over"
Broken(f, a) == {c \in Cores : c = f[1] /\ Ended(a, c)}
SeenInv ==
  /\ UnitsTested = EndedCount(at) + (IF TestOver THEN 1 ELSE 0)
  /\ UnitsFailed = Broken(fault, at) \cup (IF TestOver /\ ~sd_pass THEN {"sd"} ELSE {})

LEMMA EveryCoreAsked ==
  ASSUME NEW a \in 0 .. Len(Plan) + 1, NEW c \in Cores
  PROVE  (\A i \in 1 .. Len(Plan) : Plan[i].core = c => i < a) <=> Ended(a, c)
<1>1. Len(Plan) = 15 BY PlanIs
<1>2. a \in 0 .. 16 BY <1>1
<1>3. ASSUME Ended(a, c), NEW i \in 1 .. 15, Plan[i].core = c PROVE i < a
  <2>1. a > 0 /\ ~(i \in a .. 15) BY <1>1, <1>3 DEF Ended
  <2>. QED BY <1>2, <2>1
<1>4. ASSUME \A i \in 1 .. 15 : Plan[i].core = c => i < a PROVE Ended(a, c)
  <2>1. a > 0
    <3>1. \E i \in 1 .. 15 : Plan[i].core = c
      <4>1. Plan[1].core = "jb" /\ Plan[10].core = "xd" /\ Plan[12].core = "gc"
        BY PlanIs DEF Asks, Request
      <4>2. 1 \in 1 .. 15 /\ 10 \in 1 .. 15 /\ 12 \in 1 .. 15 OBVIOUS
      <4>. QED BY <4>1, <4>2 DEF Cores
    <3>2. PICK i \in 1 .. 15 : i < a BY <1>4, <3>1
    <3>. QED BY <1>2, <3>2
  <2>2. ASSUME NEW i \in a .. 15, Plan[i].core = c PROVE FALSE
    <3>1. i \in 1 .. 15 /\ ~(i < a) BY <1>2, <2>1, <2>2
    <3>. QED BY <1>4, <2>2, <3>1
  <2>. QED BY <1>1, <2>1, <2>2 DEF Ended
<1>. QED BY <1>1, <1>3, <1>4

LEMMA WhatIsSeen == CoresInv /\ JudgedInv => SeenInv
<1> SUFFICES ASSUME CoresInv, JudgedInv PROVE SeenInv OBVIOUS
<1>1. at \in 0 .. Len(Plan) + 1 BY DEF CoresInv, PlaceInv
<1>2. SdOver <=> TestOver BY AtTheEnd DEF SdOver, TestOver
<1>3. CoresTested = EndedCount(at)
  <2>1. {c \in Cores : at > 0 /\ \A i \in at .. Len(Plan) : Plan[i].core # c} = {c \in Cores : Ended(at, c)}
    BY DEF Ended
  <2>. QED BY <1>1, <2>1, HowManyEnded DEF CoresTested
<1>4. {c \in failed : \A i \in 1 .. Len(Plan) : Plan[i].core = c => i < at} = Broken(fault, at)
  <2>1. failed \subseteq Cores BY DEF JudgedInv
  <2>2. \A c \in Cores :
          (\A i \in 1 .. Len(Plan) : Plan[i].core = c => i < at) <=> Ended(at, c)
    BY <1>1, EveryCoreAsked
  <2>3. \A c \in Cores : Ended(at, c) => (c \in failed <=> c = fault[1]) BY EndedVerdict
  <2>. QED BY <2>1, <2>2, <2>3 DEF Broken
<1>. QED BY <1>2, <1>3, <1>4 DEF SeenInv, UnitsTested, UnitsFailed

LEMMA WhatIsSeenNext == CoresInv' /\ JudgedInv' => SeenInv'
<1>1. CoresInv /\ JudgedInv => SeenInv BY WhatIsSeen
<1>2. (CoresInv /\ JudgedInv => SeenInv)' BY <1>1, PTL
<1>. QED BY <1>2

\* A request that is not the last of its core ends nothing; the last one does.
Last == [jb |-> 9, xd |-> 11, gc |-> 15]
LEMMA NothingEnds ==
  ASSUME NEW f, NEW a \in 0 .. Len(Plan), a \notin {9, 11, 15}
  PROVE  EndedCount(a + 1) = EndedCount(a) /\ Broken(f, a + 1) = Broken(f, a)
<1>1. a \in 0 .. 15 BY PlanIs
<1>2. a \in 0 .. Len(Plan) + 1 /\ a + 1 \in 0 .. Len(Plan) + 1 BY <1>1, PlanIs
<1>3. /\ a + 1 > 9 <=> a > 9
      /\ a + 1 > 11 <=> a > 11
      /\ a + 1 > 15 <=> a > 15
  BY <1>1
<1>4. \A c \in Cores : Ended(a + 1, c) <=> Ended(a, c)
  <2>1. Ended(a + 1, "jb") <=> Ended(a, "jb") BY <1>2, <1>3, WhenEnded
  <2>2. Ended(a + 1, "xd") <=> Ended(a, "xd") BY <1>2, <1>3, WhenEnded
  <2>3. Ended(a + 1, "gc") <=> Ended(a, "gc") BY <1>2, <1>3, WhenEnded
  <2>. QED BY <2>1, <2>2, <2>3 DEF Cores
<1>5. EndedCount(a + 1) = EndedCount(a) BY <1>1, <1>3 DEF EndedCount
<1>. QED BY <1>4, <1>5 DEF Broken

LEMMA ACoreEnds ==
  ASSUME NEW f, NEW k \in 1 .. 3, NEW a, a = Last[Units[k]]
  PROVE  /\ EndedCount(a) = k - 1 /\ EndedCount(a + 1) = k
         /\ Broken(f, a + 1) = Broken(f, a) \cup (IF f[1] = Units[k] THEN {Units[k]} ELSE {})
<1>1. \A b \in {9, 10, 11, 12, 15, 16} :
        b \in 0 .. Len(Plan) + 1 /\ b \in Nat
  BY PlanIs
<1>2. \A b \in {9, 10, 11, 12, 15, 16} :
        (Ended(b, "jb") <=> b > 9) /\ (Ended(b, "xd") <=> b > 11) /\ (Ended(b, "gc") <=> b > 15)
  BY <1>1, WhenEnded
<1>3. CASE k = 1
  <2>1. Units[k] = "jb" /\ a = 9 /\ a + 1 = 10 BY <1>3 DEF Units, Last
  <2>2. ~Ended(9, "jb") /\ ~Ended(9, "xd") /\ ~Ended(9, "gc") BY <1>2
  <2>3. Ended(10, "jb") /\ ~Ended(10, "xd") /\ ~Ended(10, "gc") BY <1>2
  <2>4. EndedCount(9) = 0 /\ EndedCount(10) = 1 BY DEF EndedCount
  <2>. QED BY <1>3, <2>1, <2>2, <2>3, <2>4 DEF Broken, Cores
<1>4. CASE k = 2
  <2>1. Units[k] = "xd" /\ a = 11 /\ a + 1 = 12 BY <1>4 DEF Units, Last
  <2>2. Ended(11, "jb") /\ ~Ended(11, "xd") /\ ~Ended(11, "gc") BY <1>2
  <2>3. Ended(12, "jb") /\ Ended(12, "xd") /\ ~Ended(12, "gc") BY <1>2
  <2>4. EndedCount(11) = 1 /\ EndedCount(12) = 2 BY DEF EndedCount
  <2>. QED BY <1>4, <2>1, <2>2, <2>3, <2>4 DEF Broken, Cores
<1>5. CASE k = 3
  <2>1. Units[k] = "gc" /\ a = 15 /\ a + 1 = 16 BY <1>5 DEF Units, Last
  <2>2. Ended(15, "jb") /\ Ended(15, "xd") /\ ~Ended(15, "gc") BY <1>2
  <2>3. Ended(16, "jb") /\ Ended(16, "xd") /\ Ended(16, "gc") BY <1>2
  <2>4. EndedCount(15) = 2 /\ EndedCount(16) = 3 BY DEF EndedCount
  <2>. QED BY <1>5, <2>1, <2>2, <2>3, <2>4 DEF Broken, Cores
<1>. QED BY <1>3, <1>4, <1>5

\* The first clock.
LEMMA BeginSeen ==
  ASSUME SeenInv, SeenInv', OverInv, Begin
  PROVE  UNCHANGED Seen
<1>1. /\ at = 0 /\ at' = 1 /\ out_byte' = 1 /\ place' = place /\ fault' = fault /\ card' = card
  BY DEF Begin, hwVars, testVars, sdVars, cardVars
<1>2. 0 \in 0 .. Len(Plan) /\ 0 \notin {9, 11, 15} /\ 0 + 1 = 1 /\ 0 # Len(Plan) + 1 /\ 1 # Len(Plan) + 1
  BY PlanIs
<1>3. EndedCount(at') = EndedCount(at) /\ Broken(fault', at') = Broken(fault, at)
  <2>1. EndedCount(0 + 1) = EndedCount(0) /\ Broken(fault, 0 + 1) = Broken(fault, 0)
    BY <1>2, NothingEnds
  <2>. QED BY <1>1, <1>2, <2>1
<1>4. ~TestOver /\ ~TestOver' BY <1>1, <1>2 DEF TestOver
<1>5. UnitsTested' = UnitsTested /\ UnitsFailed' = UnitsFailed BY <1>3, <1>4 DEF SeenInv
<1>6. SoundUnits' = SoundUnits BY <1>1 DEF SoundUnits
<1>7. Shown' = Shown
  <2>1. place = "start" /\ Shown' = "none"
    <3>1. place = "start" BY <1>1, <1>2 DEF OverInv
    <3>2. out_byte' # 255 /\ out_byte' # 85 BY <1>1
    <3>. QED BY <3>1, <3>2 DEF Shown
  <2>2. out_byte \notin {85, 255} BY <2>1 DEF OverInv
  <2>. QED BY <2>1, <2>2 DEF Shown
<1>. QED BY <1>5, <1>6, <1>7 DEF Seen

\* A clock of the cores: only the judgement of the last request of a core is seen.
LEMMA AeadShows ==
  ASSUME CoresInv, OverInv, OverInv', Aead
  PROVE  /\ Shown' = Shown /\ SoundUnits' = SoundUnits /\ fault' = fault
         /\ place' = place /\ sd_pass' = sd_pass
<1>1. place' = place /\ sd_pass' = sd_pass /\ card' = card BY DEF Aead, testVars, sdVars, cardVars
<1>2. fault' = fault BY DEF Aead, AeadClock, Hardware
<1>3. SoundUnits' = SoundUnits BY <1>1, <1>2 DEF SoundUnits
<1>4. Shown' = Shown
  <2>1. CASE Aead /\ Judge
    <3>1. Testing BY <2>1 DEF Judge, Doing
    <3>2. at # Len(Plan) + 1 BY <3>1, PlanLength DEF Testing
    <3>3. place = "start" /\ place' = "start" BY <1>1, <3>2 DEF OverInv
    <3>4. out_byte \notin {85, 255} /\ out_byte' \notin {85, 255} BY <3>3 DEF OverInv
    <3>. QED BY <3>4 DEF Shown
  <2>2. CASE ~Judge
    <3>1. out_byte' = out_byte
      BY <2>2 DEF Aead, AeadClock, Access, Idle, Load, Start, Poll, AdBlock, AckAd, SaveBlock, MsgBlock,
                  AckMsg, ReadResults, ReadValid, KeepPlan
    <3>. QED BY <3>1 DEF Shown
  <2>. QED BY <2>1, <2>2
<1>. QED BY <1>1, <1>2, <1>3, <1>4

LEMMA AeadSeen ==
  ASSUME CoresInv, SeenInv, SeenInv', OverInv, OverInv', Aead
  PROVE  TestsUnit \/ UNCHANGED Seen
<1>1. /\ Shown' = Shown /\ SoundUnits' = SoundUnits /\ fault' = fault
      /\ place' = place /\ sd_pass' = sd_pass
  BY AeadShows
<1>2. Access \/ Idle BY DEF Aead, AeadClock
<1>3. CASE ~Judge
  <2>1. at' = at BY <1>2, <1>3, SameRequest
  <2>2. UnitsTested' = UnitsTested /\ UnitsFailed' = UnitsFailed BY <1>1, <2>1 DEF SeenInv, TestOver
  <2>. QED BY <1>1, <2>2 DEF Seen
<1>4. CASE Judge
  <2>1. Testing /\ at' = at + 1 BY <1>4 DEF Judge, Doing
  <2>2. at \in 1 .. 15 /\ at # Len(Plan) + 1 BY <2>1, PlanIs DEF Testing
  <2>3. ~TestOver /\ ~TestOver'
    <3>1. place = "start" /\ place' = "start" BY <1>1, <2>2 DEF OverInv
    <3>. QED BY <3>1 DEF TestOver
  <2>4. CASE at \notin {9, 11, 15}
    <3>1. at \in 0 .. Len(Plan) BY <2>2, PlanIs
    <3>2. EndedCount(at + 1) = EndedCount(at) /\ Broken(fault, at + 1) = Broken(fault, at)
      BY <2>4, <3>1, NothingEnds
    <3>3. UnitsTested' = UnitsTested /\ UnitsFailed' = UnitsFailed
      BY <1>1, <2>1, <2>3, <3>2 DEF SeenInv
    <3>. QED BY <1>1, <3>3 DEF Seen
  <2>5. CASE at \in {9, 11, 15}
    <3>1. PICK k \in 1 .. 3 : at = Last[Units[k]]
      <4>1. 9 = Last[Units[1]] /\ 11 = Last[Units[2]] /\ 15 = Last[Units[3]] BY DEF Last, Units
      <4>2. 1 \in 1 .. 3 /\ 2 \in 1 .. 3 /\ 3 \in 1 .. 3 OBVIOUS
      <4>. QED BY <2>5, <4>1, <4>2
    <3>2. /\ EndedCount(at) = k - 1 /\ EndedCount(at + 1) = k
          /\ Broken(fault, at + 1) = Broken(fault, at) \cup (IF fault[1] = Units[k] THEN {Units[k]} ELSE {})
      BY <3>1, ACoreEnds
    <3>3. UnitsTested = k - 1 /\ UnitsTested' = k
      <4>1. UnitsTested = EndedCount(at) + 0 /\ UnitsTested' = EndedCount(at') + 0 BY <2>3 DEF SeenInv
      <4>. QED BY <2>1, <3>2, <4>1
    <3>4. UnitsFailed' = UnitsFailed \cup (IF fault[1] = Units[k] THEN {Units[k]} ELSE {})
      BY <1>1, <2>1, <2>3, <3>2 DEF SeenInv
    <3>5. Units[k] \in Cores
      <4>1. Units[1] = "jb" /\ Units[2] = "xd" /\ Units[3] = "gc" BY DEF Units
      <4>2. k = 1 \/ k = 2 \/ k = 3 OBVIOUS
      <4>. QED BY <4>1, <4>2 DEF Cores
    <3>6. Units[k] \in SoundUnits <=> fault[1] # Units[k] BY <3>5 DEF SoundUnits, Cores
    <3>7. Units[k] # "sd" BY <3>5 DEF Cores
    <3>8. Len(Units) = 4 BY DEF Units
    <3>9. UnitsTested \in 0 .. Len(Units) - 1 /\ UnitsTested' = UnitsTested + 1 BY <3>3, <3>8
    <3>10. \/ Units[k] \in SoundUnits /\ UnitsFailed' = UnitsFailed
           \/ Units[k] \notin SoundUnits \ {"sd"} /\ UnitsFailed' = UnitsFailed \cup {Units[k]}
      BY <3>4, <3>6
    <3>. QED BY <1>1, <3>3, <3>9, <3>10 DEF TestsUnit
  <2>. QED BY <2>4, <2>5
<1>. QED BY <1>3, <1>4

\* The card: its test ends with its first and only verdict.
LEMMA CardVerdict ==
  ASSUME IInv, SdStep
  PROVE  /\ card'.signed = card.signed
         /\ place' = "over" => (sd_pass' => card.signed)
<1>1. card'.signed = card.signed
  BY DEF SdStep, InitCard, Select, SendCmd, PollCmd, Cmd0, Cmd8, Cmd55, Acmd41, Cmd58, Cmd16, Cmd17, Token,
         KeepCard, Cards
<1>2. ASSUME place' = "over" PROVE sd_pass' => card.signed
  <2>1. place \in Commands \cup {"start", "over"} /\ place # "over" BY OverIsOver DEF IInv, PollInv
  <2>2. CASE InitCard BY <1>2, <2>2 DEF InitCard, sd_send_cmd
  <2>3. CASE Select \/ SendCmd \/ PollCmd BY <1>2, <2>1, <2>3 DEF Select, SendCmd, PollCmd
  <2>4. CASE Cmd0 BY <1>2, <2>4 DEF Cmd0, Proceed, sd_send_cmd, Fail, Over
  <2>5. CASE Cmd8 BY <1>2, <2>5 DEF Cmd8, Proceed, sd_send_cmd, Fail, Over
  <2>6. CASE Cmd55 BY <1>2, <2>6 DEF Cmd55, sd_send_cmd
  <2>7. CASE Acmd41 BY <1>2, <2>7 DEF Acmd41, Proceed, sd_send_cmd, Fail, Over
  <2>8. CASE Cmd58 BY <1>2, <2>8 DEF Cmd58, Initialised, sd_send_cmd, Fail, Over
  <2>9. CASE Cmd16 BY <1>2, <2>9 DEF Cmd16, Initialised, sd_send_cmd, Fail, Over
  <2>10. CASE Cmd17 BY <1>2, <2>1, <2>10 DEF Cmd17, Fail, Over
  <2>11. CASE Token BY <1>2, <2>1, <2>11 DEF Token, Fail, Over
  <2>. QED BY <2>2, <2>3, <2>4, <2>5, <2>6, <2>7, <2>8, <2>9, <2>10, <2>11 DEF SdStep
<1>. QED BY <1>1, <1>2

LEMMA SdSeen ==
  ASSUME IInv, SeenInv, SeenInv', Sd
  PROVE  TestsUnit \/ UNCHANGED Seen
<1>1. at = Len(Plan) + 1 /\ at' = at /\ fault' = fault /\ out_byte' = out_byte /\ SdStep
  BY DEF Sd, AeadOver, aeadVars, driverVars, hwVars
<1>2. place # "over" BY <1>1, OverIsOver DEF IInv
<1>3. card'.signed = card.signed /\ (place' = "over" => (sd_pass' => card.signed)) BY <1>1, CardVerdict
<1>4. SoundUnits' = SoundUnits BY <1>1, <1>3 DEF SoundUnits
<1>5. Shown' = Shown BY <1>1 DEF Shown
<1>6. ~TestOver /\ (TestOver' <=> place' = "over") BY <1>1, <1>2 DEF TestOver
<1>7. EndedCount(at) = 3
  <2>1. Len(Plan) + 1 = 16 /\ EndedCount(16) = 3 BY PlanIs DEF EndedCount
  <2>. QED BY <1>1, <2>1
<1>8. UnitsTested = 3 /\ UnitsTested' = 3 + (IF TestOver' THEN 1 ELSE 0)
  BY <1>1, <1>6, <1>7 DEF SeenInv
<1>9. UnitsFailed' = UnitsFailed \cup (IF TestOver' /\ ~sd_pass' THEN {"sd"} ELSE {})
  BY <1>1, <1>6 DEF SeenInv
<1>10. CASE ~TestOver' BY <1>4, <1>5, <1>8, <1>9, <1>10 DEF Seen
<1>11. CASE TestOver'
  <2>1. Units[4] = "sd" /\ Len(Units) = 4 BY DEF Units
  <2>2. UnitsTested \in 0 .. Len(Units) - 1 /\ UnitsTested' = UnitsTested + 1 /\ UnitsTested' = 4
    BY <1>8, <1>11, <2>1
  <2>3. \/ "sd" \in SoundUnits /\ UnitsFailed' = UnitsFailed
        \/ "sd" \notin SoundUnits \ {"sd"} /\ UnitsFailed' = UnitsFailed \cup {"sd"}
    <3>1. CASE sd_pass' BY <1>3, <1>6, <1>9, <1>11, <3>1 DEF SoundUnits
    <3>2. CASE ~sd_pass' BY <1>9, <1>11, <3>2
    <3>. QED BY <3>1, <3>2
  <2>. QED BY <1>4, <1>5, <2>1, <2>2, <2>3 DEF TestsUnit
<1>. QED BY <1>10, <1>11

\* The LEDs: all of the units have been tested, and what is shown is their verdict.
LEMMA ReportSeen ==
  ASSUME CoresInv, JudgedInv, SeenInv, SeenInv', Report
  PROVE  Reports
<1>1. /\ SdOver /\ out_byte \notin {85, 255}
      /\ out_byte' = IF failed = {} /\ sd_pass THEN 255 ELSE 85
      /\ at' = at /\ fault' = fault /\ place' = place /\ sd_pass' = sd_pass /\ card' = card
  BY DEF Report, hwVars, testVars, sdVars, cardVars
<1>2. TestOver BY <1>1, AtTheEnd DEF SdOver, TestOver
<1>3. TestOver' BY <1>1, <1>2 DEF TestOver
<1>4. UnitsTested = Len(Units)
  <2>1. Len(Plan) + 1 = 16 /\ EndedCount(16) = 3 BY PlanIs DEF EndedCount
  <2>2. EndedCount(at) = 3 BY <1>2, <2>1 DEF TestOver
  <2>3. UnitsTested = 4 BY <1>2, <2>2 DEF SeenInv
  <2>. QED BY <2>3 DEF Units
<1>5. UnitsFailed = {} <=> failed = {} /\ sd_pass
  <2>1. at = 16 /\ at \in 0 .. Len(Plan) + 1 BY <1>2, PlanIs DEF TestOver
  <2>2. \A c \in Cores : Ended(at, c)
    <3>1. at > 9 /\ at > 11 /\ at > 15 BY <2>1
    <3>. QED BY <2>1, <3>1, WhenEnded DEF Cores
  <2>3. \A c \in Cores : c \in failed <=> c = fault[1] BY <2>2, EndedVerdict
  <2>4. Broken(fault, at) = failed BY <2>2, <2>3 DEF Broken, JudgedInv
  <2>. QED BY <1>2, <2>4 DEF SeenInv
<1>6. SoundUnits' = SoundUnits BY <1>1 DEF SoundUnits
<1>7. UnitsTested' = UnitsTested /\ UnitsFailed' = UnitsFailed BY <1>1, <1>2, <1>3 DEF SeenInv
<1>8. Shown = "none" BY <1>1 DEF Shown
<1>9. Shown' = IF UnitsFailed = {} THEN "pass" ELSE "fail" BY <1>1, <1>5 DEF Shown
<1>. QED BY <1>4, <1>6, <1>7, <1>8, <1>9 DEF Reports

LEMMA UnchangedSeen ==
  ASSUME SeenInv, SeenInv', UNCHANGED vars
  PROVE  UNCHANGED Seen
<1>1. /\ at' = at /\ fault' = fault /\ place' = place /\ sd_pass' = sd_pass /\ card' = card
      /\ out_byte' = out_byte
  BY DEF vars, aeadVars, driverVars, hwVars, testVars, sdVars, cardVars
<1>. QED BY <1>1 DEF SeenInv, TestOver, SoundUnits, Shown, Seen

LEMMA FirstSeen == Init /\ SeenInv => Promise!Init
<1> SUFFICES ASSUME Init, SeenInv PROVE Promise!Init OBVIOUS
<1>1. at = 0 /\ place = "start" /\ out_byte = 0 BY DEF Init, AeadInit, SdInit
<1>2. ~TestOver BY <1>1 DEF TestOver
<1>3. 0 \in 0 .. Len(Plan) + 1 BY PlanIs
<1>4. UnitsTested = 0 BY <1>1, <1>2 DEF SeenInv, EndedCount
<1>5. UnitsFailed = {}
  <2>1. Broken(fault, 0) = {} BY DEF Broken, Ended
  <2>. QED BY <1>1, <1>2, <2>1 DEF SeenInv
<1>6. Shown = "none" BY <1>1 DEF Shown
<1>7. SoundUnits \subseteq {Units[i] : i \in DOMAIN Units}
  <2>1. /\ Units[1] = "jb" /\ Units[2] = "xd" /\ Units[3] = "gc" /\ Units[4] = "sd"
        /\ 1 \in DOMAIN Units /\ 2 \in DOMAIN Units /\ 3 \in DOMAIN Units /\ 4 \in DOMAIN Units
    BY DEF Units
  <2>2. SoundUnits \subseteq {"jb", "xd", "gc", "sd"} BY DEF SoundUnits, Cores
  <2>. QED BY <2>1, <2>2
<1>. QED BY <1>4, <1>5, <1>6, <1>7 DEF Promise!Init, Units, SoundUnits, UnitsTested, UnitsFailed, Shown

LEMMA StepSeen ==
  ASSUME CoresInv, IInv, ValuesInv, CoresInv', ValuesInv', [Next]_vars
  PROVE  [Promise!Next]_<<SoundUnits, UnitsTested, UnitsFailed, Shown>>
<1>1. JudgedInv /\ OverInv /\ JudgedInv' /\ OverInv' BY DEF ValuesInv
<1>2. SeenInv /\ SeenInv' BY <1>1, WhatIsSeen, WhatIsSeenNext
<1>3. TestsUnit \/ Reports \/ UNCHANGED Seen
  BY <1>1, <1>2, BeginSeen, AeadSeen, SdSeen, ReportSeen, UnchangedSeen DEF Next
<1>. QED BY <1>3, PromisedSteps

\* Whatever times the cores take and whichever core is defective, every word of key,
\* nonce, data and tag that the driver writes reaches a sound core, every word it reads
\* is the one the core returned for this request, and only a defective core is counted as
\* failed, at the latest with the first of its tests that cannot but show the defect
\* (test_tinyjambu, test_xoodyak, test_giftcofb).
THEOREM ValuesAreRight == Spec => []ValuesInv
<1>1. IInv /\ CoresInv /\ ValuesInv /\ [Next]_vars => CoresInv' /\ ValuesInv'
  BY StepCores, StepValues
<1>2. Init => CoresInv /\ ValuesInv BY CoresAtRest, FirstValues
<1>. QED BY <1>1, <1>2, CardInvariant, PTL DEF Spec

\* main keeps the promise of SelfTest: the units are tested in order and once each, a
\* sound core passes and a defective one fails, the card passes only with a good
\* signature, and after the last test 0xFF is shown if and only if all have passed.
THEOREM SelfTestKeepsItsPromise == Spec => ImplementsSelfTest
<1>1. Init => Promise!Init
  <2>1. Init => SeenInv BY CoresAtRest, FirstValues, WhatIsSeen DEF ValuesInv
  <2>. QED BY <2>1, FirstSeen
<1>2. CoresInv /\ IInv /\ ValuesInv /\ CoresInv' /\ ValuesInv' /\ [Next]_vars
        => [Promise!Next]_<<SoundUnits, UnitsTested, UnitsFailed, Shown>>
  BY StepSeen
<1>3. ImplementsSelfTest
      <=> Promise!Init /\ [][Promise!Next]_<<SoundUnits, UnitsTested, UnitsFailed, Shown>>
  BY DEF ImplementsSelfTest, Promise!Spec, SoundUnits, UnitsTested, UnitsFailed, Shown
<1>. QED BY <1>1, <1>2, <1>3, CoresInvariant, CardInvariant, ValuesAreRight, PTL DEF Spec
================================================================================
