------------------------------ MODULE TCPSegment ------------------------------
(***************************************************************************)
(* A TCP segment (libsponge/tcp_helpers/tcp_segment.hh, tcp_header.hh):    *)
(* the header fields the endpoint reads and the payload.                   *)
(***************************************************************************)
EXTENDS Integers, Sequences

\* A default-constructed segment.
new_TCPSegment ==
  [seqno |-> 0, ackno |-> 0, win |-> 0, syn |-> FALSE, ack |-> FALSE, rst |-> FALSE,
   fin |-> FALSE, payload |-> <<>>]

bit(flag) == IF flag THEN 1 ELSE 0

\* SYN and FIN take one sequence number each.
length_in_sequence_space(seg) == Len(seg.payload) + bit(seg.syn) + bit(seg.fin)
=============================================================================
