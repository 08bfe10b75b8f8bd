------------------------------ MODULE SpiExchange ------------------------------
(***************************************************************************)
(* What spi_xfer promises its callers: every call exchanges exactly one    *)
(* byte with the card and returns the byte the card gave for it; a card    *)
(* that is not selected hears nothing and the line reads all ones.         *)
(***************************************************************************)
CONSTANTS Byte, xFF

VARIABLES phase, tx, selected, heard, answer, result
xferVars == <<phase, tx, selected, heard, answer, result>>

NoAnswer == "none"

Init ==
  /\ phase = "idle" /\ selected = FALSE /\ answer = NoAnswer
  /\ tx = xFF /\ heard = xFF /\ result = xFF

Select ==
  /\ phase = "idle"
  /\ selected' \in BOOLEAN
  /\ UNCHANGED <<phase, tx, heard, answer, result>>

Call ==
  /\ phase = "idle"
  /\ phase' = "asked" /\ tx' \in Byte
  /\ UNCHANGED <<selected, heard, answer, result>>

Exchange ==
  /\ phase = "asked"
  /\ phase' = "answered"
  /\ IF selected THEN heard' = tx /\ answer' \in Byte ELSE heard' = heard /\ answer' = xFF
  /\ UNCHANGED <<tx, selected, result>>

Return ==
  /\ phase = "answered"
  /\ phase' = "idle" /\ result' = answer /\ answer' = NoAnswer
  /\ UNCHANGED <<tx, selected, heard>>

\* A reset abandons the call; the card may or may not have heard it.
Restart ==
  /\ phase' = "idle" /\ selected' = FALSE /\ answer' = NoAnswer
  /\ tx' = xFF /\ result' = xFF
  /\ UNCHANGED heard

Next == Select \/ Call \/ Exchange \/ Return \/ Restart
Spec == Init /\ [][Next]_xferVars
===============================================================================
