------------------------------- MODULE MCSender -------------------------------
(* Four bytes, in segments of at most two, whose numbers cross the end of the *)
(* sequence space.                                                           *)
EXTENDS SenderSpec

MCByte == 1 .. 4
MCStream == <<1, 2, 3, 4>>
=============================================================================
