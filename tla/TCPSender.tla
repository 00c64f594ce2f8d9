------------------------------- MODULE TCPSender -------------------------------
(***************************************************************************)
(* The sender (libsponge/tcp_sender.cc): cuts the outbound stream into     *)
(* segments as the peer's window allows, keeps those not yet acknowledged, *)
(* and retransmits the oldest of them when its timer expires.              *)
(***************************************************************************)
EXTENDS ByteStream, WrappingIntegers, TCPSegment, FiniteSetsExt

CONSTANTS
  WIN_MOD,           \* 2^16: window sizes and the free space are uint16_t
  MAX_PAYLOAD_SIZE   \* TCPConfig::MAX_PAYLOAD_SIZE

ASSUME SenderAssumption ==
  /\ WIN_MOD \in Nat \ {0} /\ MAX_PAYLOAD_SIZE \in Nat \ {0}
  /\ 2 * (WIN_MOD + 1) <= SEQ_MOD

new_TCPSender(capacity, retx_timeout, isn) ==
  [isn |-> isn, initial_rto |-> retx_timeout, stream |-> new_ByteStream(capacity),
   segments_out |-> <<>>, segments_outstanding |-> <<>>, next_seqno |-> 0,
   syn_sent |-> FALSE, fin_sent |-> FALSE, bytes_in_flight |-> 0,
   receiver_window_size |-> 0, receiver_free_space |-> 0,
   consecutive_retransmissions |-> 0, rto |-> retx_timeout, time_elapsed |-> 0,
   timer_running |-> FALSE]

\* The absolute sequence numbers a segment of this sender starts and ends at.
abs_start(s, seg) == unwrap(seg.seqno, s.isn, s.next_seqno)
abs_end(s, seg) == abs_start(s, seg) + length_in_sequence_space(seg)

\* sizes(queue)[n] is how many numbers the first n segments of a queue take together.
sizes(queue) ==
  LET size[n \in 0 .. Len(queue)] ==
        IF n = 0 THEN 0 ELSE size[n - 1] + length_in_sequence_space(queue[n])
  IN size

\* Mutant of _send_segments: the free space is not a 16-bit number.
_send_segments_signed(s, segs, size) ==
  [s EXCEPT
     !.next_seqno = @ + size, !.bytes_in_flight = @ + size, !.receiver_free_space = @ - size,
     !.segments_out = @ \o segs, !.segments_outstanding = @ \o segs,
     !.timer_running = TRUE, !.time_elapsed = IF s.timer_running THEN @ ELSE 0]

\* _send_segment for each of segs in turn; size is the sum of their lengths.
_send_segments(s, segs, size) ==
  [s EXCEPT
     !.next_seqno = @ + size,
     !.bytes_in_flight = @ + size,
     !.receiver_free_space = (@ - size) % WIN_MOD,
     !.segments_out = @ \o segs,
     !.segments_outstanding = @ \o segs,
     !.timer_running = TRUE,
     !.time_elapsed = IF s.timer_running THEN @ ELSE 0]

\* The next segment, with the given flags and payload.
next_segment(s, offset, syn, fin, payload) ==
  [new_TCPSegment EXCEPT !.seqno = wrap(s.next_seqno + offset, s.isn), !.syn = syn, !.fin = fin,
                         !.payload = payload]

send_syn(s) ==
  _send_segments([s EXCEPT !.syn_sent = TRUE], <<next_segment(s, 0, TRUE, FALSE, <<>>)>>, 1)

\* Mutant of send_window: every segment carries the first one's sequence number.
send_window_unadvanced(s) ==
  LET total == MinOf(buffer_size(s.stream), s.receiver_free_space)
      count == MaxOf(1, (total + MAX_PAYLOAD_SIZE - 1) \div MAX_PAYLOAD_SIZE)
      stream == pop_output(s.stream, total)
      fin == eof(stream) /\ s.receiver_free_space > total
      chunk(i) == SubSeq(s.stream.buffer, (i - 1) * MAX_PAYLOAD_SIZE + 1,
                         MinOf(i * MAX_PAYLOAD_SIZE, total))
      segs == [i \in 1 .. count |-> next_segment(s, 0, FALSE, fin /\ i = count, chunk(i))]
  IN _send_segments([s EXCEPT !.stream = stream, !.fin_sent = fin], segs, total + bit(fin))

\* Lines 50-78: all the free space and the stream allow, in chunks of
\* MAX_PAYLOAD_SIZE, and the FIN on the last if the stream ends there and it still fits.
send_window(s) ==
  LET total == MinOf(buffer_size(s.stream), s.receiver_free_space)
      count == MaxOf(1, (total + MAX_PAYLOAD_SIZE - 1) \div MAX_PAYLOAD_SIZE)
      stream == pop_output(s.stream, total)
      fin == eof(stream) /\ s.receiver_free_space > total
      chunk(i) == SubSeq(s.stream.buffer, (i - 1) * MAX_PAYLOAD_SIZE + 1,
                         MinOf(i * MAX_PAYLOAD_SIZE, total))
      segs == [i \in 1 .. count |->
                 next_segment(s, (i - 1) * MAX_PAYLOAD_SIZE, FALSE, fin /\ i = count, chunk(i))]
  IN _send_segments([s EXCEPT !.stream = stream, !.fin_sent = fin], segs, total + bit(fin))

\* Mutant of send_probe: the end of the input is taken for the end of the stream.
send_probe_early_fin(s) ==
  LET fin == s.stream.input_ended
      payload == peek_output(s.stream, bit(~fin))
  IN _send_segments([s EXCEPT !.stream = pop_output(@, bit(~fin)), !.fin_sent = fin],
                    <<next_segment(s, 0, FALSE, fin, payload)>>, 1)

\* Lines 79-96: against a closed window, one byte or the FIN.
send_probe(s) ==
  LET fin == eof(s.stream)
      payload == peek_output(s.stream, bit(~fin))
  IN _send_segments([s EXCEPT !.stream = pop_output(@, bit(~fin)), !.fin_sent = fin],
                    <<next_segment(s, 0, FALSE, fin, payload)>>, 1)

syn_outstanding(s) == s.segments_outstanding # <<>> /\ Head(s.segments_outstanding).syn

\* Lines 39-48: nothing may be sent before the SYN is acknowledged, nothing is there to
\* be sent, or everything has been sent.
nothing_to_send(s) ==
  syn_outstanding(s) \/ (buffer_empty(s.stream) /\ ~eof(s.stream)) \/ s.fin_sent

\* Mutant of fill_window: a closed window is not probed.
fill_window_probeless(s) ==
  CASE ~s.syn_sent -> send_syn(s)
    [] s.syn_sent /\ ~nothing_to_send(s) /\ s.receiver_free_space > 0 -> send_window(s)
    [] OTHER -> s

fill_window(s) ==
  CASE ~s.syn_sent -> send_syn(s)
    [] s.syn_sent /\ nothing_to_send(s) -> s
    [] s.syn_sent /\ ~nothing_to_send(s) /\ s.receiver_window_size > 0 ->
         IF s.receiver_free_space > 0 THEN send_window(s) ELSE s
    [] s.syn_sent /\ ~nothing_to_send(s) /\ s.receiver_window_size = 0 ->
         IF s.receiver_free_space = 0 THEN send_probe(s) ELSE s

\* Mutant of _ack_valid: numbers never sent may be acknowledged.
_ack_valid_unbounded(s, abs_ackno, garbage) ==
  IF s.segments_outstanding = <<>> THEN garbage
  ELSE abs_ackno >= abs_start(s, Head(s.segments_outstanding))

\* front() of an empty queue is a read of memory that holds no segment: garbage says
\* whether what it finds there passes the test.
_ack_valid(s, abs_ackno, garbage) ==
  /\ abs_ackno <= s.next_seqno
  /\ IF s.segments_outstanding = <<>> THEN garbage
     ELSE abs_ackno >= abs_start(s, Head(s.segments_outstanding))

\* Mutants of pop_acked: a segment goes as soon as part of it is acknowledged; the
\* timeout stays doubled.
pop_acked_partly(s, abs_ackno) ==
  LET out == s.segments_outstanding
      n == Min({k \in 0 .. Len(out) : k = Len(out) \/ abs_start(s, out[k + 1]) >= abs_ackno})
      size == sizes(out)[n]
  IN [s EXCEPT !.bytes_in_flight = @ - size,
               !.segments_outstanding = SubSeq(out, n + 1, Len(out))]
pop_acked_slow(s, abs_ackno) ==
  LET out == s.segments_outstanding
      n == Min({k \in 0 .. Len(out) : k = Len(out) \/ abs_end(s, out[k + 1]) > abs_ackno})
      size == sizes(out)[n]
  IN IF n = 0 THEN s
     ELSE [s EXCEPT !.bytes_in_flight = @ - size,
                    !.segments_outstanding = SubSeq(out, n + 1, Len(out)),
                    !.time_elapsed = 0, !.consecutive_retransmissions = 0]

\* Lines 118-144: forget the leading segments that are acknowledged whole.
pop_acked(s, abs_ackno) ==
  LET out == s.segments_outstanding
      n == Min({k \in 0 .. Len(out) : k = Len(out) \/ abs_end(s, out[k + 1]) > abs_ackno})
      size == sizes(out)[n]
      popped == [s EXCEPT !.bytes_in_flight = @ - size,
                          !.segments_outstanding = SubSeq(out, n + 1, Len(out)),
                          !.time_elapsed = 0, !.rto = s.initial_rto,
                          !.consecutive_retransmissions = 0]
  IN IF n = 0 THEN s ELSE popped

\* Mutant of update_window: what is in flight does not count.
update_window_flightless(s, abs_ackno, window_size) ==
  [s EXCEPT !.receiver_window_size = window_size, !.receiver_free_space = window_size,
            !.timer_running = @ /\ s.bytes_in_flight # 0]

\* Lines 113-116 and 146-163: what the window leaves free beyond all that is in flight.
update_window(s, abs_ackno, window_size) ==
  [s EXCEPT
     !.receiver_window_size = window_size,
     !.receiver_free_space =
        IF s.segments_outstanding = <<>> THEN window_size
        ELSE (abs_ackno + window_size - abs_start(s, Head(s.segments_outstanding))
                - s.bytes_in_flight) % WIN_MOD,
     !.timer_running = @ /\ s.bytes_in_flight # 0]

ack_received(s, ackno, window_size, garbage) ==
  LET abs_ackno == unwrap(ackno, s.isn, s.next_seqno)
  IN IF _ack_valid(s, abs_ackno, garbage)
     THEN fill_window(update_window(pop_acked(s, abs_ackno), abs_ackno, window_size))
     ELSE s

\* The timer has run out: retransmit the oldest segment; back off unless the peer's
\* window is closed.
retransmit(s) ==
  LET front == Head(s.segments_outstanding)
      backoff == s.receiver_window_size > 0 \/ front.syn
  IN [s EXCEPT
        !.segments_out = Append(@, front),
        !.consecutive_retransmissions = @ + bit(backoff),
        !.rto = IF backoff THEN 2 * @ ELSE @,
        !.time_elapsed = 0]

sender_tick(s, ms) ==
  LET elapsed == s.time_elapsed + ms
  IN CASE ~s.timer_running -> s
       [] s.timer_running /\ elapsed < s.rto -> [s EXCEPT !.time_elapsed = elapsed]
       [] s.timer_running /\ elapsed >= s.rto -> retransmit(s)

send_empty_segment(s) ==
  [s EXCEPT !.segments_out = Append(@, next_segment(s, 0, FALSE, FALSE, <<>>))]
=============================================================================
