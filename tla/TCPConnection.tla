----------------------------- MODULE TCPConnection -----------------------------
(***************************************************************************)
(* One endpoint (libsponge/tcp_connection.cc): a sender and a receiver, the *)
(* rules that connect them, and the end of the connection, clean or not.   *)
(***************************************************************************)
EXTENDS TCPReceiver, TCPSender

CONSTANT MAX_RETX_ATTEMPTS  \* TCPConfig::MAX_RETX_ATTEMPTS

ASSUME MaxRetxAssumption == MAX_RETX_ATTEMPTS \in Nat

\* cfg: send_capacity, recv_capacity, rt_timeout and isn (fixed_isn, or a random number).
new_TCPConnection(cfg, filler) ==
  [cfg |-> cfg, receiver |-> new_TCPReceiver(cfg.recv_capacity, filler),
   sender |-> new_TCPSender(cfg.send_capacity, cfg.rt_timeout, cfg.isn),
   segments_out |-> <<>>, linger_after_streams_finish |-> TRUE,
   time_since_last_segment_received |-> 0, active |-> TRUE]

inbound(c) == stream_out(c.receiver)
outbound(c) == c.sender.stream

\* Mutant of clean_shutdown: the last segments need not be acknowledged.
clean_shutdown_hasty(c) ==
  LET waited == c.time_since_last_segment_received >= 10 * c.cfg.rt_timeout
      finished == eof(outbound(c)) /\ (~c.linger_after_streams_finish \/ waited)
  IN IF inbound(c).input_ended
     THEN [c EXCEPT !.linger_after_streams_finish = @ /\ eof(outbound(c)),
                    !.active = @ /\ ~finished]
     ELSE c

\* Mutant of clean_shutdown: no time is long enough.
clean_shutdown_lingering(c) ==
  LET finished == eof(outbound(c)) /\ c.sender.bytes_in_flight = 0 /\ ~c.linger_after_streams_finish
  IN IF inbound(c).input_ended
     THEN [c EXCEPT !.linger_after_streams_finish = @ /\ eof(outbound(c)),
                    !.active = @ /\ ~finished]
     ELSE c

\* The peer's stream has ended.  Whoever still has something to say then closes second
\* and need not linger; whoever has said all and been acknowledged is done, after a
\* while if it closed first.
clean_shutdown(c) ==
  LET waited == c.time_since_last_segment_received >= 10 * c.cfg.rt_timeout
      finished == /\ eof(outbound(c)) /\ c.sender.bytes_in_flight = 0
                  /\ ~c.linger_after_streams_finish \/ waited
  IN IF inbound(c).input_ended
     THEN [c EXCEPT !.linger_after_streams_finish = @ /\ eof(outbound(c)),
                    !.active = @ /\ ~finished]
     ELSE c

\* The acknowledgment and the window every outgoing segment carries; the window is cut
\* to 16 bits.
stamped(c, seg) ==
  IF has_ackno(c.receiver)
  THEN [seg EXCEPT !.ack = TRUE, !.ackno = ackno(c.receiver),
                   !.win = window_size(c.receiver) % WIN_MOD]
  ELSE seg

send_sender_segments(c) ==
  LET out == c.sender.segments_out
  IN clean_shutdown(
       [c EXCEPT !.segments_out = @ \o [i \in 1 .. Len(out) |-> stamped(c, out[i])],
                 !.sender.segments_out = <<>>])

set_errors(c) ==
  [c EXCEPT !.receiver.reassembler.output = set_error(@), !.sender.stream = set_error(@),
            !.active = FALSE]

\* Turns the oldest unsent segment into a RST.
unclean_shutdown(c) ==
  LET seg == Head(c.sender.segments_out)
      rst == [stamped(c, seg) EXCEPT !.ack = TRUE, !.rst = TRUE,
                                     !.win = window_size(c.receiver) % WIN_MOD]
  IN [set_errors(c) EXCEPT !.sender.segments_out = Tail(@), !.segments_out = Append(@, rst)]

connect(c) == send_sender_segments([c EXCEPT !.sender = fill_window(@)])

conn_write(c, data) ==
  IF data = <<>> THEN c
  ELSE send_sender_segments(
         [c EXCEPT !.sender = fill_window([c.sender EXCEPT !.stream = write(@, data)])])

end_input_stream(c) ==
  send_sender_segments(
    [c EXCEPT !.sender = fill_window([c.sender EXCEPT !.stream = end_input(@)])])

\* Mutant of tick: the connection never gives up.
tick_patient(c, ms) ==
  IF ~c.active THEN c
  ELSE send_sender_segments([c EXCEPT !.time_since_last_segment_received = @ + ms,
                                      !.sender = sender_tick(@, ms)])

tick(c, ms) ==
  LET ticked == [c EXCEPT !.time_since_last_segment_received = @ + ms,
                          !.sender = sender_tick(@, ms)]
      exhausted == ticked.sender.consecutive_retransmissions > MAX_RETX_ATTEMPTS
  IN IF ~c.active THEN c
     ELSE send_sender_segments(IF exhausted THEN unclean_shutdown(ticked) ELSE ticked)

\* Lines 43-52: nothing sent, nothing received; only a SYN is listened to.
listening(c) == ~has_ackno(c.receiver) /\ c.sender.next_seqno = 0

accept(c, seg) ==
  IF seg.syn THEN connect([c EXCEPT !.receiver = receive(@, seg)]) ELSE c

\* Lines 59-91: all that was sent is unacknowledged and no SYN has come.
syn_sent(c) ==
  /\ c.sender.next_seqno > 0 /\ c.sender.bytes_in_flight = c.sender.next_seqno
  /\ ~has_ackno(c.receiver)

\* The segments that branch disposes of, and how: a simultaneous open queues an empty
\* segment and leaves it in the queue.
opening(c, seg) ==
  CASE seg.payload # <<>> -> c
    [] seg.payload = <<>> /\ ~seg.ack ->
         IF seg.syn THEN [c EXCEPT !.receiver = receive(@, seg), !.sender = send_empty_segment(@)]
         ELSE c
    [] seg.payload = <<>> /\ seg.ack -> set_errors(c)

\* Mutant of disposed: an acknowledgment is taken for a reset.
disposed_unread(seg) == TRUE

disposed(seg) == seg.payload # <<>> \/ ~seg.ack \/ seg.rst

\* Lines 93-116.
exchange(c, seg, garbage) ==
  LET acked == [c EXCEPT !.receiver = receive(@, seg),
                         !.sender = ack_received(@, seg.ackno, seg.win, garbage)]
      must_reply == buffer_empty(outbound(acked)) /\ length_in_sequence_space(seg) > 0
      replied == IF must_reply THEN [acked EXCEPT !.sender = send_empty_segment(@)] ELSE acked
  IN IF seg.rst THEN unclean_shutdown([replied EXCEPT !.sender = send_empty_segment(@)])
     ELSE send_sender_segments(replied)

\* Mutant of segment_received: a connection that is over still listens.
segment_received_undead(c, seg, garbage) ==
  LET heard == [c EXCEPT !.time_since_last_segment_received = 0]
  IN CASE listening(c) -> accept(heard, seg)
       [] syn_sent(c) /\ disposed(seg) -> opening(heard, seg)
       [] OTHER -> exchange(heard, seg, garbage)

segment_received(c, seg, garbage) ==
  LET heard == [c EXCEPT !.time_since_last_segment_received = 0]
  IN CASE ~c.active -> c
       [] c.active /\ listening(c) -> accept(heard, seg)
       [] c.active /\ syn_sent(c) /\ disposed(seg) -> opening(heard, seg)
       [] OTHER -> exchange(heard, seg, garbage)

\* The destructor of a connection that is still active.
destroy(c) ==
  IF c.active THEN unclean_shutdown([c EXCEPT !.sender = send_empty_segment(@)]) ELSE c

\* What _ack_valid may find where it looks for the oldest outstanding segment.
found(c) == IF c.sender.segments_outstanding = <<>> THEN BOOLEAN ELSE {FALSE}

\* The linger test only asks whether ten timeouts have passed, and only once the peer's
\* stream has ended; the segment that ends it sets the time to 0.
saturated(c) ==
  [c EXCEPT !.time_since_last_segment_received =
     IF inbound(c).input_ended THEN MinOf(@, 10 * c.cfg.rt_timeout) ELSE 0]
=============================================================================
