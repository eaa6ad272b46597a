--------------------------- MODULE MCMessageCodec ---------------------------
(***************************************************************************)
(* MessageCodec with octets of three values: ACE_UINT16 overflows at 9, a  *)
(* long at 81, so that a text or a buffer can lie on either side of what a *)
(* skip can skip; three of the 100 slots of a StringArray.                 *)
(***************************************************************************)
EXTENDS MessageCodec

CONSTANTS Lengths   \* bound: numbers of octets of a text or a buffer

Texts == { [i \in 1 .. n |-> 1 + (i % 2)] : n \in Lengths }
Contents012 == { [i \in 1 .. n |-> i % 3] : n \in Lengths }

ThreeSlots == << "0", "1", "2" >>
=============================================================================
