------------------------------ MODULE MemoryPort ------------------------------
(***************************************************************************)
(* What a bus adapter promises the core and the device behind it: every    *)
(* transfer of the core makes the device perform exactly that transfer     *)
(* once, and a read returns the answer of its own transfer.                *)
(***************************************************************************)
EXTENDS Sequences

CONSTANTS Addr, Data

VARIABLES
  pending,    \* the transfer the core is waiting for, if any
  performed,  \* what the device has performed since the transfer began
  result      \* what the last read of the core returned
portVars == <<pending, performed, result>>

Transfer == [write : BOOLEAN, addr : Addr, data : Addr]
Answers(transfer) == IF transfer.write THEN {{}} ELSE {{value} : value \in Data}

Init == pending = {} /\ performed = <<>> /\ result \in Data

\* Between two transfers, and the beginning of the next, which a device that
\* looks ahead performs at once.
Forget == pending = {} /\ performed' = <<>> /\ UNCHANGED <<pending, result>>
Request ==
  /\ pending = {} /\ UNCHANGED result
  /\ \E transfer \in Transfer :
       /\ pending' = {transfer}
       /\ performed' \in {<<>>} \cup
            {<<[transfer |-> transfer, answer |-> answer]>> : answer \in Answers(transfer)}

Performs ==
  /\ performed = <<>>
  /\ \E transfer \in pending : \E answer \in Answers(transfer) :
       performed' = <<[transfer |-> transfer, answer |-> answer]>>
Perform == Performs /\ UNCHANGED <<pending, result>>

\* The core is told ready, at the earliest in the clock that performs it.
Return ==
  /\ pending # {} /\ pending' = {}
  /\ Performs \/ (performed # <<>> /\ UNCHANGED performed)
  /\ LET answer == performed'[1].answer
     IN  result' \in IF answer = {} THEN {result} ELSE answer

\* A reset abandons the transfer, before or after the device performed it.
Abandon ==
  /\ pending' = {} /\ UNCHANGED result
  /\ Performs \/ UNCHANGED performed

Next == Forget \/ Request \/ Perform \/ Return \/ Abandon
Spec == Init /\ [][Next]_portVars
===============================================================================
