--------------------------- MODULE InOrderDelivery ---------------------------
(***************************************************************************)
(* What the receiving side promises its reader: the bytes of the peer's    *)
(* stream, in order, without gaps, duplicates or inventions, never more    *)
(* than Capacity of them waiting, and an end that is announced only after  *)
(* the last byte has been made available.                                  *)
(***************************************************************************)
EXTENDS Integers, Sequences

CONSTANTS Stream, Capacity

VARIABLES waiting, delivered, taken, ended

vars == <<waiting, delivered, taken, ended>>

Init == waiting = <<>> /\ delivered = 0 /\ taken = 0 /\ ended = FALSE

\* More of the stream becomes available, and its end once all of it is.
Deliver ==
  /\ delivered' \in delivered .. Len(Stream)
  /\ delivered' <= taken + Capacity
  /\ waiting' = SubSeq(Stream, taken + 1, delivered')
  /\ ended' \in BOOLEAN
  /\ ended => ended'
  /\ ended' => delivered' = Len(Stream)
  /\ UNCHANGED taken

\* The reader takes bytes from the front.
Take ==
  /\ taken' \in taken .. delivered
  /\ waiting' = SubSeq(Stream, taken' + 1, delivered)
  /\ UNCHANGED <<delivered, ended>>

Next == Deliver \/ Take

Spec == Init /\ [][Next]_vars
=============================================================================
