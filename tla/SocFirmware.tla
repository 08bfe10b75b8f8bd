------------------------------ MODULE SocFirmware ------------------------------
(***************************************************************************)
(* The firmware of the SoC (firmware.c, main): the tests of the three      *)
(* encryption cores, then the SD card test, then the verdict on the LEDs.  *)
(* A reset clears every register of the system, so a restart is an initial *)
(* state; only the SD card keeps what it was, and it may be in any state.  *)
(***************************************************************************)
EXTENDS AeadTests, SdTest, FiniteSets

vars == <<aeadVars, testVars>>

-------------------------------------------------------------------------------
(* main *)

\* The first test starts after a delay and a banner.
Begin ==
  /\ at = 0 /\ at' = 1 /\ out_byte' = 1
  /\ UNCHANGED <<hwVars, doing, item, got, status, failed, gap, testVars>>

Aead == AeadClock /\ UNCHANGED testVars

\* By the time the results are printed the last core has come to rest.
AeadOver == at = Len(Plan) + 1 /\ Settled
Sd == AeadOver /\ SdStep /\ UNCHANGED aeadVars

SdOver == AeadOver /\ place = "over"
\* After that main loops for ever, which are clocks without an access.
Report ==
  /\ SdOver /\ out_byte \notin {85, 255}
  /\ out_byte' = IF failed = {} /\ sd_pass THEN 255 ELSE 85
  /\ UNCHANGED <<hwVars, at, doing, item, got, status, failed, gap, testVars>>

Init == AeadInit /\ SdInit
Next == Begin \/ Aead \/ Sd \/ Report

\* The processor runs, and a chip that answers wrongly still answers.
Spec ==
  /\ Init /\ [][Next]_vars
  /\ WF_vars(Begin) /\ WF_vars(Aead) /\ WF_vars(Aead /\ Access) /\ WF_vars(Sd) /\ WF_vars(Report)

-------------------------------------------------------------------------------
(* Properties *)

\* The register holds every word of the second block.
Holds(name) == \A w \in 1 .. Words : regs["gc"][name][w] = Source(rq, name, 2, w)

\* No strobe is lost and none is seen twice: a start finds its core at rest, an
\* acknowledgement finds GIFT-COFB waiting for the block it announces, and that
\* block complete in the register.
StrobesLand ==
  /\ \A c \in Cores \cap strobe : core[c].state = "IDLE"
  /\ "ad_ack" \in strobe => core["gc"].state = "REQ_AD" /\ Holds("ad")
  /\ "msg_ack" \in strobe => core["gc"].state = "REQ_MSG" /\ Holds("data")

\* What the driver takes for the result of a request is the result of that
\* request: the core has taken in all of its blocks, or all but the one it is
\* waiting for, and changes nothing while the words are read.
TakesOwnResult ==
  \A last \in BOOLEAN :
    Doing(IF last THEN "results" ELSE "save block") =>
      /\ core[rq.core].state = IF last THEN "IDLE" ELSE "REQ_MSG"
      /\ core[rq.core].in.mode = rq.mode
      /\ Len(core[rq.core].in.msgs) = IF last THEN Blocks(rq.case) ELSE 1
      /\ Len(core[rq.core].in.ads) = Blocks(rq.case)

\* The card is addressed in its own unit, and let go at the end.
CardRules == AddressingAgrees /\ CardReleased

\* What was promised: a unit passes if and only if it is sound, whatever times the
\* cores take, and 0xFF is shown if and only if all pass.
CoresTested == Cardinality({c \in Cores : at > 0 /\ \A i \in at .. Len(Plan) : Plan[i].core # c})
Promise ==
  INSTANCE SelfTest WITH
    Order <- <<"jb", "xd", "gc", "sd">>, MayFail <- {"sd"},
    sound <- (Cores \ {fault[1]}) \cup (IF card.signed THEN {"sd"} ELSE {}),
    tested <- CoresTested + (IF SdOver THEN 1 ELSE 0),
    failed <- {c \in failed : \A i \in 1 .. Len(Plan) : Plan[i].core = c => i < at}
              \cup (IF SdOver /\ ~sd_pass THEN {"sd"} ELSE {}),
    verdict <- CASE out_byte = 255 -> "pass" [] out_byte = 85 -> "fail" [] OTHER -> "none"
ImplementsSelfTest == Promise!Spec

\* There is a verdict in the end, whatever the card does.
VerdictReached == <>(out_byte \in {85, 255})
================================================================================
