------------------------------ MODULE MCReceiver ------------------------------
(* The stream is longer than the sequence space: its last numbers reuse those of the *)
(* SYN and the first byte.                                                           *)
EXTENDS ReceiverSpec

MCByte == 0 .. 7
MCStream == <<1, 2, 3, 4, 5, 6, 7>>
=============================================================================
