-------------------------------- MODULE MCSdSpi --------------------------------
(* SdSpi for TLC: bytes with a single bit set, so that every bit is told apart *)
(* from its neighbours, and the byte a line at rest reads as.                  *)
EXTENDS SdSpi

WalkingOnes == {x \in Byte : \E i \in BitPos : x = [x00 EXCEPT ![i] = 1]} \cup {xFF}
===============================================================================
