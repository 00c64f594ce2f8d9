----------------------------- MODULE TCPReceiver -----------------------------
(***************************************************************************)
(* The receiver (libsponge/tcp_receiver.cc): turns the sequence numbers of *)
(* arriving segments into stream indices, feeds the reassembler, and says  *)
(* what it acknowledges and how much more it takes.  Absolute sequence     *)
(* numbers count from the SYN: the SYN is 0, byte i of the stream i + 1.   *)
(***************************************************************************)
EXTENDS StreamReassembler, WrappingIntegers, TCPSegment

\* isn before a SYN arrived: std::nullopt.
NoIsn == -1

new_TCPReceiver(capacity, filler) ==
  [reassembler |-> new_StreamReassembler(capacity, filler), isn |-> NoIsn, fin_abs_seq |-> 0]

stream_out(rcv) == rcv.reassembler.output

\* Mutant of window_size: bytes waiting for reassembly count against the window.
window_size_shared(rcv) ==
  remaining_capacity(stream_out(rcv)) - rcv.reassembler.unassembled_bytes

window_size(rcv) == remaining_capacity(stream_out(rcv))

\* Mutants of abs_ackno: the FIN counts as soon as it is known; the FIN never counts.
abs_ackno_hasty(rcv) == 1 + stream_out(rcv).nwritten + bit(rcv.fin_abs_seq > 0)
abs_ackno_finless(rcv) == 1 + stream_out(rcv).nwritten

\* fin_abs_seq, once known, is one past the FIN.
abs_ackno(rcv) ==
  LET without_fin == 1 + stream_out(rcv).nwritten
  IN IF without_fin + 1 = rcv.fin_abs_seq THEN rcv.fin_abs_seq ELSE without_fin

has_ackno(rcv) == rcv.isn # NoIsn
ackno(rcv) == wrap(abs_ackno(rcv), rcv.isn)

\* Mutant of overlaps: only a segment that fits the window whole is taken.
overlaps_whole(abs_seq, size, left, right) == abs_seq >= left /\ abs_seq + size <= right

\* The segment starts before the right edge of the window and ends after its left edge.
overlaps(abs_seq, size, left, right) == abs_seq < right /\ abs_seq + size > left

\* Mutant of receive: the SYN's number is not taken off the stream index.
receive_unshifted(rcv, seg) ==
  LET isn == IF seg.syn /\ ~has_ackno(rcv) THEN seg.seqno ELSE rcv.isn
      old_abs_ackno == IF has_ackno(rcv) THEN abs_ackno(rcv) ELSE 0
      right == old_abs_ackno + window_size(rcv)
      abs_seq == unwrap(seg.seqno, isn, stream_out(rcv).nwritten)
      size == length_in_sequence_space(seg)
      fin_abs_seq == IF abs_seq + size <= right /\ seg.fin THEN abs_seq + size ELSE rcv.fin_abs_seq
  IN IF isn = NoIsn \/ ~overlaps(abs_seq, size, old_abs_ackno, right)
     THEN [rcv EXCEPT !.isn = isn]
     ELSE [isn |-> isn, fin_abs_seq |-> fin_abs_seq,
           reassembler |-> push_substring(rcv.reassembler, seg.payload, abs_seq, seg.fin)]

\* TCPReceiver::segment_received.
receive(rcv, seg) ==
  LET isn == IF seg.syn /\ ~has_ackno(rcv) THEN seg.seqno ELSE rcv.isn
      old_abs_ackno == IF has_ackno(rcv) THEN abs_ackno(rcv) ELSE 0
      right == old_abs_ackno + window_size(rcv)
      abs_seq == unwrap(seg.seqno, isn, stream_out(rcv).nwritten)
      size == length_in_sequence_space(seg)
      late_ack == rcv.fin_abs_seq > 0 /\ abs_seq >= rcv.fin_abs_seq /\ size = 0
      all_fill == abs_seq + size <= right
      fin_abs_seq == IF all_fill /\ seg.fin THEN abs_seq + size ELSE rcv.fin_abs_seq
      stream_indices == IF abs_seq > 0 THEN abs_seq - 1 ELSE 0
      last == stream_indices + Len(seg.payload) + 2 = fin_abs_seq
  IN IF isn = NoIsn \/ late_ack \/ ~overlaps(abs_seq, size, old_abs_ackno, right)
     THEN [rcv EXCEPT !.isn = isn]
     ELSE [isn |-> isn, fin_abs_seq |-> fin_abs_seq,
           reassembler |-> push_substring(rcv.reassembler, seg.payload, stream_indices, last)]
=============================================================================
