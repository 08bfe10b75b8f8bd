-------------------------------- MODULE SelfTest --------------------------------
(***************************************************************************)
(* What the self-test promises: the units are tested one after the other,  *)
(* each passes exactly if it is sound, and the LEDs show 0xFF at the end   *)
(* if all have passed and 0x55 if not.  The SD card may fail although it   *)
(* is sound, since it need not answer.                                     *)
(***************************************************************************)
EXTENDS Naturals, Sequences

CONSTANTS
  Order,      \* the units, in the order they are tested
  MayFail     \* units that may fail although they are sound

VARIABLES
  sound,      \* the units that work
  tested,     \* how many have been tested
  failed,     \* those that did not pass
  verdict     \* "none" until the end, "pass" or "fail"

Init ==
  /\ sound \subseteq {Order[i] : i \in DOMAIN Order}
  /\ tested = 0 /\ failed = {} /\ verdict = "none"

Test ==
  /\ tested \in 0 .. Len(Order) - 1 /\ tested' = tested + 1
  /\ LET unit == Order[tested']
     IN  \/ unit \in sound /\ failed' = failed
         \/ unit \notin sound \ MayFail /\ failed' = failed \cup {unit}
  /\ UNCHANGED <<sound, verdict>>

Report ==
  /\ tested = Len(Order) /\ verdict = "none"
  /\ verdict' = IF failed = {} THEN "pass" ELSE "fail"
  /\ UNCHANGED <<sound, tested, failed>>

Next == Test \/ Report
Spec == Init /\ [][Next]_<<sound, tested, failed, verdict>>
=================================================================================
