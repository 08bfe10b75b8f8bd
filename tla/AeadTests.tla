------------------------------- MODULE AeadTests -------------------------------
(***************************************************************************)
(* The self-test of the encryption cores (firmware.c): test_tinyjambu,     *)
(* test_xoodyak and test_giftcofb drive the cores of AeadCores with the    *)
(* published vectors and compare what comes back.                          *)
(*                                                                         *)
(* A step is one clock.  In it the processor makes one access to a core,   *)
(* or none: it fetches an instruction between two data accesses, so they   *)
(* are at least MinGap clocks apart, and may be any time apart.            *)
(***************************************************************************)
EXTENDS AeadCores

CONSTANT MinGap     \* clocks between two data accesses of the core, at least

\* A fetch alone takes two clocks, since mem_ready is registered.
ASSUME GapAssumption == MinGap \in Nat \ {0, 1}

VARIABLES
  at,         \* which request of the plan
  doing,      \* what the driver is doing with it
  item,       \* the next access of that, counted from 1
  got,        \* the driver's ct, tag and dec
  status,     \* the valid bit it read
  failed,     \* cores of which a test failed
  gap,        \* clocks since the last access, up to MinGap
  out_byte    \* the LEDs

driverVars == <<at, doing, item, got, status, failed, gap, out_byte>>
aeadVars == <<hwVars, driverVars>>

-------------------------------------------------------------------------------
(* What the tests ask for, in order.  forged: a tag that must be rejected. *)

Request(c, case, mode) == [core |-> c, case |-> case, mode |-> mode]
EncDec(c, case) == <<Request(c, case, "enc"), Request(c, case, "dec")>>

jb_test(case) == EncDec("jb", case)
rejects == <<Request("jb", "jb1", "forged")>>
test_tinyjambu ==
  jb_test("jb1") \o jb_test("jb2") \o jb_test("jb3") \o jb_test("jb4") \o rejects
test_xoodyak == EncDec("xd", "xd")
testA == EncDec("gc", "gcA")
testB == EncDec("gc", "gcB")
test_giftcofb == testA \o testB

Plan == test_tinyjambu \o test_xoodyak \o test_giftcofb
rq == Plan[at]
Testing == at \in 1 .. Len(Plan)

\* test_xoodyak shows on the LEDs how far it is.
Progress(next) ==
  IF next > Len(Plan) \/ Plan[next].core # "xd" THEN out_byte
  ELSE IF Plan[next].mode = "enc" THEN 48 ELSE 112

-------------------------------------------------------------------------------
(* What a request writes, before it is started and when the core asks for the
   next block.  Decryption is fed with the ciphertext that was read, and with
   the tag that was read, except where the test uses the published ones. *)

\* jb_test has no tag to write before it encrypts.
Inputs(r) ==
  <<"key", "nonce", "ad", "data">> \o
    (IF r.core = "jb" /\ r.mode = "enc" THEN <<>> ELSE <<"tag">>)

DataSource(r, block, w) ==
  CASE r.mode = "enc" -> <<r.case, Part["pt"][block]>>
    [] r.mode = "forged" -> <<r.case, "other ct">>
    [] r.mode = "dec" /\ r.case = "gcA" -> <<r.case, "ct1">>
    [] r.mode = "dec" /\ r.case # "gcA" -> got[Part["ct"][block]][w]
TagSource(r, w) ==
  CASE r.mode = "enc" -> Zero
    [] r.mode = "forged" -> <<r.case, "other tag">>
    [] r.mode = "dec" /\ r.core = "gc" -> <<r.case, "tag">>
    [] r.mode = "dec" /\ r.core # "gc" -> got["tag"][w]

Source(r, name, block, w) ==
  CASE name \in {"key", "nonce"} -> <<r.case, name>>
    [] name = "ad" -> <<r.case, Part["ad"][block]>>
    [] name = "data" -> DataSource(r, block, w)
    [] name = "tag" -> TagSource(r, w)

\* The item-th access of a list that takes Words accesses for each entry.
Entry(list) == list[1 + (item - 1) \div Words]
Word == 1 + ((item - 1) % Words)
LastOf(list) == item = Len(list) * Words

WriteInput(name, block) == WriteWord(rq.core, name, Word, Source(rq, name, block, Word))

-------------------------------------------------------------------------------
(* What it reads *)

\* The results that are there for the taking once all blocks but the last, or
\* all, are through; the test with a forged tag looks at none of them.
OutputsOf(r, block) ==
  CASE r.mode = "enc" -> <<Part["ct"][block]>> \o
                           (IF block = Blocks(r.case) THEN <<"tag">> ELSE <<>>)
    [] r.mode = "dec" -> <<Part["pt"][block]>>
    [] r.mode = "forged" -> <<>>

ReadOutput(name) ==
  got' = [got EXCEPT ![name][Word] = IF name = "tag" THEN core[rq.core].tag ELSE core[rq.core].out]

\* The driver's verdict on the request.
Expected(case, kind) ==
  \A i \in 1 .. Blocks(case) : got[Part[kind][i]] = Spread(<<case, Part[kind][i]>>)
Passes_IgnoresTag(r) ==
  CASE r.mode = "enc" -> Expected(r.case, "ct")
    [] r.mode = "dec" -> status /\ Expected(r.case, "pt")
    [] r.mode = "forged" -> ~status
Passes(r) ==
  CASE r.mode = "enc" -> Expected(r.case, "ct") /\ got["tag"] = Spread(<<r.case, "tag">>)
    [] r.mode = "dec" -> status /\ Expected(r.case, "pt")
    [] r.mode = "forged" -> ~status

-------------------------------------------------------------------------------
(* The driver.  Each action but Judge makes one access. *)

Doing(what) == Testing /\ doing = what
Accesses == gap = MinGap /\ gap' = 0
KeepPlan == UNCHANGED <<at, failed, out_byte>>
Then(what) == doing' = what /\ item' = 1
\* On to the next item of the list, or to what comes behind it.
Through(list, what) ==
  IF LastOf(list) THEN Then(what) ELSE item' = item + 1 /\ UNCHANGED doing

Load ==
  /\ Doing("load") /\ Accesses
  /\ WriteInput(Entry(Inputs(rq)), 1) /\ Through(Inputs(rq), "start")
  /\ KeepPlan /\ UNCHANGED <<got, status>>

Start ==
  /\ Doing("start") /\ Accesses
  /\ WriteCtrl(rq.core, IF rq.mode = "enc" THEN "enc" ELSE "dec", Blocks(rq.case))
  /\ Then("poll")
  /\ KeepPlan /\ UNCHANGED <<got, status>>

\* STATUS: the loops of the two-block test serve requests before they look at
\* done, the others look at done only.
Wants(line) == Blocks(rq.case) = 2 /\ core["gc"][line]
Poll ==
  /\ Doing("poll") /\ Accesses /\ NoWrite
  /\ CASE Wants("ad_req") -> Then("ad block")
       [] ~Wants("ad_req") /\ Wants("msg_req") -> Then("save block")
       [] OTHER ->
            IF ~sticky[rq.core].done THEN UNCHANGED <<doing, item>>
            ELSE Then(IF rq.mode = "forged" THEN "valid" ELSE "results")
  /\ KeepPlan /\ UNCHANGED <<got, status>>

AdBlock ==
  /\ Doing("ad block") /\ Accesses
  /\ WriteInput("ad", 2) /\ Through(<<"ad">>, "ack ad")
  /\ KeepPlan /\ UNCHANGED <<got, status>>
AckAd == Doing("ack ad") /\ Accesses /\ WriteAck("ad_ack") /\ Then("poll")
         /\ KeepPlan /\ UNCHANGED <<got, status>>

SaveBlock ==
  /\ Doing("save block") /\ Accesses /\ NoWrite
  /\ ReadOutput(OutputsOf(rq, 1)[1]) /\ Through(OutputsOf(rq, 1), "msg block")
  /\ KeepPlan /\ UNCHANGED status
MsgBlock ==
  /\ Doing("msg block") /\ Accesses
  /\ WriteInput("data", 2) /\ Through(<<"data">>, "ack msg")
  /\ KeepPlan /\ UNCHANGED <<got, status>>
AckMsg == Doing("ack msg") /\ Accesses /\ WriteAck("msg_ack") /\ Then("poll")
          /\ KeepPlan /\ UNCHANGED <<got, status>>

ReadResults ==
  /\ Doing("results") /\ Accesses /\ NoWrite
  /\ LET list == OutputsOf(rq, Blocks(rq.case))
     IN  ReadOutput(Entry(list)) /\ Through(list, IF rq.mode = "enc" THEN "judge" ELSE "valid")
  /\ KeepPlan /\ UNCHANGED status
ReadValid ==
  /\ Doing("valid") /\ Accesses /\ NoWrite
  /\ status' = sticky[rq.core].valid /\ Then("judge")
  /\ KeepPlan /\ UNCHANGED got

\* Comparing and printing; the next request.
Judge ==
  /\ Doing("judge") /\ NoWrite
  /\ failed' = IF Passes(rq) THEN failed ELSE failed \cup {rq.core}
  /\ at' = at + 1 /\ Then("load") /\ out_byte' = Progress(at + 1)
  /\ UNCHANGED <<got, status, gap>>

Access ==
  \/ Load \/ Start \/ Poll \/ AdBlock \/ AckAd \/ SaveBlock \/ MsgBlock \/ AckMsg
  \/ ReadResults \/ ReadValid \/ Judge

\* A clock without an access; the cores work on after the last test, too.
Idle ==
  /\ NoWrite /\ at > 0
  /\ gap' = IF gap < MinGap THEN gap + 1 ELSE gap
  /\ UNCHANGED <<at, doing, item, got, status, failed, out_byte>>

AeadInit ==
  /\ HwInit
  /\ at = 0 /\ doing = "load" /\ item = 1
  /\ got = [name \in {"ct1", "ct2", "pt1", "pt2", "tag"} |-> Spread(Junk)]
  /\ status = FALSE /\ failed = {} /\ gap = MinGap /\ out_byte = 0

\* Every request is processed: the processor runs, and a core whose chip is not
\* stuck takes a bounded time.
AeadClock == Hardware /\ (Access \/ Idle)
AeadFairness == WF_aeadVars(Hardware /\ Access) /\ WF_aeadVars(AeadClock)
================================================================================
