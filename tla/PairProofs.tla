------------------------------ MODULE PairProofs ------------------------------
(***************************************************************************)
(* The two connections of TCPPair, for all streams that fit in half the    *)
(* sequence space and every value of the other constants.  A connection is *)
(* sound when its sender holds its own application's stream, its receiver  *)
(* holds the peer's, and everything it sends is a piece of the former that *)
(* acknowledges only what it has of the latter; the operations of          *)
(* TCPConnection keep it so as long as what arrives is a piece of the      *)
(* peer's stream, however old.                                             *)
(***************************************************************************)
EXTENDS TCPPair, SenderLemmas, ReceiverLemmas

\* The steps are predicate reasoning, but for those that cite SMT.  A step without a number is
\* known to all that follow it.
USE Zenon

\* The network of TCPPair may keep a segment for any time, so the number of an old segment
\* must not be mistaken for a new one.
StreamsFit == \A e \in Endpoint : Len(Stream[e]) + 2 < HalfSeq

\* segment_received hands the acknowledgment number of a segment to the sender whether its ACK
\* flag is set or not, and it is 0 where it is not.  What is said below about acknowledgments is
\* so where 0 is the number of nothing either endpoint sends after its SYN.
ZeroUnused == \A e \in Endpoint : \A n \in 1 .. Len(Stream[e]) + 2 : wrap(n, Config[e].isn) # 0

\* The receiver of endpoint e, and the fields of its connection.
Hears(e, rcv) ==
  ReceiverOf(rcv, Stream[Peer(e)], Config[e].recv_capacity, Byte, Config[Peer(e)].isn)
Shape(e, c) ==
  c \in [cfg : {Config[e]}, receiver : {c.receiver}, sender : {c.sender},
         segments_out : {c.segments_out}, linger_after_streams_finish : BOOLEAN,
         time_since_last_segment_received : Nat, active : BOOLEAN]

\* What e may have sent by the time its receiver is rcv: a RST only if it fails.
Mail(e, rcv, fail) == Pieces(Config[e].isn, Stream[e], Byte, acknos(Config[Peer(e)].isn, heard(rcv)), fail)
Posted(e, rcv) == Mail(e, rcv, stream_out(rcv).error)

\* Whoever has heard anything has said something; and nothing is left to send or to hear.
Answered(c) == c.sender.next_seqno # 0 \/ (~has_ackno(c.receiver) /\ ~inbound(c).input_ended)
Done(c) == inbound(c).input_ended /\ c.sender.fin_sent /\ c.sender.bytes_in_flight = 0

\* What c, the connection of endpoint e, is between any two of its operations.
Sound(e, c) ==
  /\ Shape(e, c) /\ Hears(e, c.receiver)
  /\ SenderHolds(c.sender, Stream[e], Byte) /\ c.sender.isn = Config[e].isn
  /\ c.segments_out \in Seq(Posted(e, c.receiver)) /\ Answered(c)
  /\ inbound(c).error <=> outbound(c).error
  /\ inbound(c).error => ~c.active
  /\ c.active \/ inbound(c).error \/ Done(c)

Patient(c) == c.active => c.sender.consecutive_retransmissions <= MAX_RETX_ATTEMPTS

\* How far an acknowledgment may take the sender of e: as far as its peer has heard.
Limit(e) == IF ZeroUnused THEN heard(conn[Peer(e)].receiver) ELSE conn[e].sender.next_seqno

\* What no operation of a connection takes back.
Grows(e, c, d) ==
  /\ d.active => c.active
  /\ d.linger_after_streams_finish => c.linger_after_streams_finish
  /\ Onward(c.sender, d.sender, Limit(e)) /\ HeardMore(c.receiver, d.receiver)

\* From c to d by operations that leave the reader alone.
Leads(e, c, d) ==
  /\ Sound(e, d) /\ Grows(e, c, d) /\ inbound(d).nread = inbound(c).nread
  /\ Patient(c) => Patient(d)
-----------------------------------------------------------------------------
\* The assumptions on the constants, for one endpoint.
LEMMA Endpoints ==
  ASSUME NEW e \in Endpoint
  PROVE  /\ Peer(e) \in Endpoint /\ Peer(e) # e /\ Peer(Peer(e)) = e
         /\ \A f \in Endpoint : f = e \/ f = Peer(e)
         /\ Stream[e] \in Seq(Byte) /\ Len(Stream[e]) \in Nat /\ Filler \in Byte
         /\ Config[e].send_capacity \in Nat /\ Config[e].recv_capacity \in Nat \ {0}
         /\ Config[e].rt_timeout \in Nat \ {0} /\ Config[e].isn \in WrappingInt32
<1>1. /\ Peer(e) \in Endpoint /\ Peer(e) # e /\ Peer(Peer(e)) = e
      /\ \A f \in Endpoint : f = e \/ f = Peer(e)
  BY SMT DEF Endpoint, Peer
<1>2. Stream[e] \in Seq(Byte) /\ Filler \in Byte
      /\ Config[e] \in [send_capacity : Nat, recv_capacity : Nat \ {0},
                        rt_timeout : Nat \ {0}, isn : WrappingInt32]
  BY PairAssumption
<1>3. Len(Stream[e]) \in Nat
  BY <1>2, SMT
<1> QED BY <1>1, <1>2, <1>3

\* Whatever segment of the peer arrives, however old, the receiver holds its stream.
LEMMA HearsPiece ==
  ASSUME StreamsFit, NEW e \in Endpoint, NEW rcv, Hears(e, rcv), NEW A, NEW fail, NEW seg,
         seg \in Pieces(Config[Peer(e)].isn, Stream[Peer(e)], Byte, A, fail)
  PROVE  LET t == receive(rcv, seg) IN Hears(e, t) /\ Advances(rcv, t)
<1> DEFINE str == Stream[Peer(e)]
           isn == Config[Peer(e)].isn
           cap == Config[e].recv_capacity
<1>1. /\ str \in Seq(Byte) /\ isn \in WrappingInt32 /\ cap \in Nat \ {0} /\ Len(str) + 2 < HalfSeq
      /\ ReceiverOf(rcv, str, cap, Byte, isn)
  BY Endpoints DEF StreamsFit, Hears
<1>2. seg \in Segments(Byte) /\ \E a \in Nat : Piece(seg, a, isn, str)
  BY DEF Pieces
<1> HIDE DEF str, isn, cap
<1>3. PICK a \in Nat : Piece(seg, a, isn, str)
  BY <1>2
<1>4. seg.payload \in Seq(Byte) /\ seg.syn \in BOOLEAN /\ seg.fin \in BOOLEAN
  BY <1>2 DEF Segments
<1>5. Cut(seg, a, isn, str) /\ a <= Len(str) + 2
  BY <1>1, <1>3, <1>4, CutOf DEF Piece, Spans
<1>6. LET t == receive(rcv, seg) IN ReceiverOf(t, str, cap, Byte, isn) /\ Advances(rcv, t)
  BY <1>1, <1>5, ReceiveOld
<1> QED BY <1>6 DEF Hears, str, isn, cap

\* The more a receiver has heard, the more its connection may send.
LEMMA PostedMore ==
  ASSUME NEW e \in Endpoint, NEW rcv, Hears(e, rcv), NEW t, Hears(e, t), HeardMore(rcv, t)
  PROVE  /\ heard(rcv) \in Nat /\ heard(t) \in Nat /\ heard(rcv) <= heard(t)
         /\ Posted(e, rcv) \subseteq Posted(e, t) /\ \A fail : Mail(e, rcv, fail) \subseteq Mail(e, t, fail)
         /\ \A q \in Seq(Posted(e, rcv)) : q \in Seq(Posted(e, t))
<1> DEFINE a == heard(rcv)
           b == heard(t)
           P == Posted(e, rcv)
           Q == Posted(e, t)
<1>1. a \in Nat /\ b \in Nat /\ a <= b
  <2>1. /\ Stream[Peer(e)] \in Seq(Byte) /\ Config[e].recv_capacity \in Nat \ {0}
        /\ Config[Peer(e)].isn \in WrappingInt32
        /\ ReceiverOf(rcv, Stream[Peer(e)], Config[e].recv_capacity, Byte, Config[Peer(e)].isn)
        /\ ReceiverOf(t, Stream[Peer(e)], Config[e].recv_capacity, Byte, Config[Peer(e)].isn)
    BY Endpoints DEF Hears
  <2>2. a \in 0 .. Len(Stream[Peer(e)]) + 2 /\ b \in 0 .. Len(Stream[Peer(e)]) + 2 /\ a <= b
    BY <2>1, HeardCounts, HeardGrows
  <2> HIDE DEF a, b
  <2> QED BY <2>2, SMT
<1>2. P \subseteq Q /\ \A fail : Mail(e, rcv, fail) \subseteq Mail(e, t, fail)
  <2> HIDE DEF a, b
  <2>1. 1 .. a \subseteq 1 .. b
    BY <1>1, SMT
  <2>2. stream_out(rcv).error => stream_out(t).error
    BY DEF HeardMore
  <2> QED BY <2>1, <2>2 DEF Posted, Mail, Pieces, acknos, a, b
<1> HIDE DEF P, Q
<1>3. \A q \in Seq(P) : q \in Seq(Q)
  BY <1>2, SMT
<1> QED BY <1>1, <1>2, <1>3 DEF P, Q

\* The parts of a sound connection, and that it stays what it is if nothing is done to them.
LEMMA Parts ==
  ASSUME NEW e \in Endpoint, NEW c, Sound(e, c)
  PROVE  /\ Shape(e, c) /\ Hears(e, c.receiver) /\ Advances(c.receiver, c.receiver)
         /\ SenderHolds(c.sender, Stream[e], Byte) /\ Core(c.sender, Stream[e], Byte)
         /\ c.sender.isn = Config[e].isn /\ Serves(c.sender, c.sender, Stream[e], Byte, Limit(e))
         /\ c.segments_out \in Seq(Posted(e, c.receiver))
         /\ inbound(c) \in ByteStreams(Byte) /\ outbound(c) \in ByteStreams(Byte)
         /\ inbound(c).nwritten \in Nat /\ Stream[e] \in Seq(Byte)
<1>   /\ Shape(e, c) /\ Hears(e, c.receiver) /\ SenderHolds(c.sender, Stream[e], Byte)
      /\ Core(c.sender, Stream[e], Byte) /\ c.sender.isn = Config[e].isn
      /\ c.segments_out \in Seq(Posted(e, c.receiver)) /\ Stream[e] \in Seq(Byte)
  BY Endpoints DEF Sound, SenderHolds
<1>2. inbound(c) \in ByteStreams(Byte)
  <2>1. c.receiver.reassembler \in ReassemblerType(Config[e].recv_capacity, Byte, {c.receiver.reassembler.unassembled_bytes})
    BY DEF Hears, ReceiverOf, Holds
  <2> QED BY <2>1 DEF ReassemblerType, inbound, stream_out
<1>3. outbound(c) \in ByteStreams(Byte)
  BY DEF Core, Senders, outbound
<1>4. inbound(c).nwritten \in Nat
  BY <1>2 DEF ByteStreams
<1>5. inbound(c).nwritten >= inbound(c).nwritten
  BY <1>4, SMT
<1>6. Advances(c.receiver, c.receiver)
  BY <1>5 DEF Advances, OnlyMore, inbound
<1> QED BY <1>2, <1>3, <1>4, <1>6, StepServes

\* What an operation has to see to that changes nothing about errors.
LEMMA Rebuild ==
  ASSUME NEW e \in Endpoint, NEW c, Sound(e, c), NEW d, Shape(e, d),
         Hears(e, d.receiver), Advances(c.receiver, d.receiver),
         SenderHolds(d.sender, Stream[e], Byte), Onward(c.sender, d.sender, Limit(e)),
         outbound(d).error = outbound(c).error, d.segments_out \in Seq(Posted(e, c.receiver)),
         d.receiver = c.receiver \/ c.sender.next_seqno # 0 \/ d.sender.next_seqno # 0,
         d.active = c.active \/ (~d.active /\ Done(d)),
         d.linger_after_streams_finish => c.linger_after_streams_finish
  PROVE  /\ Sound(e, d) /\ Grows(e, c, d) /\ inbound(d).nread = inbound(c).nread
         /\ d.sender.consecutive_retransmissions \in {0, c.sender.consecutive_retransmissions} => Leads(e, c, d)
<1>1. /\ inbound(d).nread = inbound(c).nread /\ inbound(d).error = inbound(c).error
      /\ inbound(c).input_ended => inbound(d).input_ended
      /\ HeardMore(c.receiver, d.receiver)
  BY DEF Advances, OnlyMore, HeardMore, inbound
<1>2. /\ c.sender.next_seqno # 0 => d.sender.next_seqno # 0
      /\ c.sender.fin_sent /\ c.sender.bytes_in_flight = 0 => d.sender.fin_sent /\ d.sender.bytes_in_flight = 0
  BY Parts, OnwardStays
<1>3. Answered(d)
  BY <1>2 DEF Sound, Answered, inbound
<1>4. d.active \/ inbound(d).error \/ Done(d)
  BY <1>1, <1>2 DEF Sound, Done
<1>5. d.segments_out \in Seq(Posted(e, d.receiver)) /\ d.sender.isn = Config[e].isn
  BY <1>1, Parts, PostedMore DEF Onward
<1>6. Sound(e, d)
  BY <1>1, <1>3, <1>4, <1>5 DEF Sound
<1>7. Grows(e, c, d)
  BY <1>1 DEF Grows, Sound
<1>8. 0 <= MAX_RETX_ATTEMPTS
  BY MaxRetxAssumption, SMT
<1> QED BY <1>1, <1>6, <1>7, <1>8 DEF Leads, Patient

\* One operation after another.
LEMMA GrowsOn ==
  ASSUME NEW e \in Endpoint, NEW c, Sound(e, c), NEW d, Sound(e, d), Grows(e, c, d),
         NEW x, Sound(e, x), Grows(e, d, x)
  PROVE  Grows(e, c, x)
<1>1. Onward(c.sender, x.sender, Limit(e))
  BY Parts, OnwardOn DEF Grows
<1>2. inbound(x).nwritten >= inbound(c).nwritten
  <2>1. /\ inbound(c).nwritten \in Nat /\ inbound(d).nwritten \in Nat /\ inbound(x).nwritten \in Nat
        /\ inbound(d).nwritten >= inbound(c).nwritten /\ inbound(x).nwritten >= inbound(d).nwritten
    BY Parts DEF Grows, HeardMore, inbound
  <2> QED BY <2>1, SMT
<1> QED BY <1>1, <1>2 DEF Grows, HeardMore, inbound

\* So too with what the reader and the retransmissions see.
LEMMA LeadsOn ==
  ASSUME NEW e \in Endpoint, NEW c, Sound(e, c), NEW d, Leads(e, c, d), NEW x, Leads(e, d, x)
  PROVE  Leads(e, c, x)
<1>1. Grows(e, c, x)
  BY GrowsOn DEF Leads
<1> QED BY <1>1 DEF Leads

\* No operation at all.
LEMMA LeadsSelf ==
  ASSUME NEW e \in Endpoint, NEW c, Sound(e, c)
  PROVE  Leads(e, c, c)
BY Parts, Rebuild DEF Serves

\* clean_shutdown only turns flags off, and ends the connection only when all is done.
LEMMA CleanShutdown ==
  ASSUME NEW e \in Endpoint, NEW c, Sound(e, c)
  PROVE  Leads(e, c, clean_shutdown(c))
<1> DEFINE waited == c.time_since_last_segment_received >= 10 * c.cfg.rt_timeout
           finished == /\ eof(outbound(c)) /\ c.sender.bytes_in_flight = 0
                       /\ ~c.linger_after_streams_finish \/ waited
           l == c.linger_after_streams_finish /\ eof(outbound(c))
           a == c.active /\ ~finished
           t == [c EXCEPT !.linger_after_streams_finish = l, !.active = a]
<1>1. clean_shutdown(c) = IF inbound(c).input_ended THEN t ELSE c
  BY DEF clean_shutdown
<1>2. inbound(c).input_ended /\ finished => Done(c)
  BY Parts, AllAcked DEF Sound, Answered, Done, outbound
<1>3. /\ inbound(c).input_ended => a = c.active \/ (~a /\ Done(c))
      /\ (l => c.linger_after_streams_finish) /\ l \in BOOLEAN /\ a \in BOOLEAN
  BY <1>2 DEF Sound, Shape
<1> HIDE DEF l, a
<1>4. /\ Shape(e, t)
      /\ t.receiver = c.receiver /\ t.sender = c.sender /\ t.segments_out = c.segments_out
      /\ t.active = a /\ t.linger_after_streams_finish = l
  BY <1>3 DEF Sound, Shape
<1> HIDE DEF t
<1>5. inbound(c).input_ended => Leads(e, c, t)
  BY <1>3, <1>4, Parts, Rebuild DEF Serves, outbound, inbound, Done
<1> QED BY <1>1, <1>5, LeadsSelf

\* What send_sender_segments and unclean_shutdown do to a segment: it acknowledges what the
\* receiver has, or nothing.
LEMMA Stamped ==
  ASSUME NEW e \in Endpoint, NEW c, Sound(e, c), NEW seg \in Pieces(Config[e].isn, Stream[e], Byte, {0}, FALSE)
  PROVE  /\ stamped(c, seg) \in Posted(e, c.receiver)
         /\ [stamped(c, seg) EXCEPT !.ack = TRUE, !.rst = TRUE, !.win = window_size(c.receiver) % WIN_MOD]
              \in Mail(e, c.receiver, TRUE)
<1> DEFINE k == ackno(c.receiver)
           w == window_size(c.receiver) % WIN_MOD
           A == acknos(Config[Peer(e)].isn, heard(c.receiver))
           t == stamped(c, seg)
<1>   (has_ackno(c.receiver) => k \in WrappingInt32 /\ k \in A) /\ window_size(c.receiver) \in Int
  <2>1. /\ Stream[Peer(e)] \in Seq(Byte) /\ Config[e].recv_capacity \in Nat \ {0}
        /\ Config[Peer(e)].isn \in WrappingInt32
        /\ ReceiverOf(c.receiver, Stream[Peer(e)], Config[e].recv_capacity, Byte, Config[Peer(e)].isn)
    BY Endpoints DEF Sound, Hears
  <2>2. /\ (has_ackno(c.receiver) => k \in WrappingInt32) /\ window_size(c.receiver) \in Int
    BY <2>1, AckType
  <2>3. has_ackno(c.receiver) => k \in {wrap(n, Config[Peer(e)].isn) : n \in 1 .. heard(c.receiver)}
    BY <2>1, HeardAck, SMT
  <2> QED BY <2>2, <2>3 DEF acknos
<1>2. w \in 0 .. WIN_MOD - 1
  BY SenderAssumption, SMT
<1>3. t = IF has_ackno(c.receiver) THEN [seg EXCEPT !.ack = TRUE, !.ackno = k, !.win = w] ELSE seg
  BY DEF stamped
<1>4. 0 \in A /\ \E x : x \in WrappingInt32
  BY Endpoints DEF acknos
<1> HIDE DEF k, w, t, A
<1>5. t \in Pieces(Config[e].isn, Stream[e], Byte, A, FALSE)
  <2>1. CASE has_ackno(c.receiver)
    <3>1. t \in Pieces(Config[e].isn, Stream[e], Byte, {k}, FALSE)
      BY <1>2, <1>3, <2>1, Restamp
    <3> QED BY <2>1, <3>1 DEF Pieces
  <2>2. CASE ~has_ackno(c.receiver)
    BY <1>3, <1>4, <2>2 DEF Pieces
  <2> QED BY <2>1, <2>2
<1>6. [t EXCEPT !.ack = TRUE, !.rst = TRUE, !.win = w] \in Pieces(Config[e].isn, Stream[e], Byte, A, TRUE)
  BY <1>2, <1>4, <1>5, Restamp
<1> QED BY <1>5, <1>6 DEF t, w, A, Posted, Mail, Pieces

\* The segments of the sender go out, stamped, and the connection looks whether it is over.
LEMMA SendSenderSegments ==
  ASSUME NEW e \in Endpoint, NEW c, Sound(e, c)
  PROVE  Leads(e, c, send_sender_segments(c))
<1> DEFINE out == c.sender.segments_out
           q == [i \in 1 .. Len(out) |-> stamped(c, out[i])]
           r == c.segments_out \o q
           s == [c.sender EXCEPT !.segments_out = << >>]
           u == [c EXCEPT !.segments_out = r, !.sender = s]
           Z == Pieces(c.sender.isn, Stream[e], Byte, {0}, FALSE)
           P == Posted(e, c.receiver)
<1>1. send_sender_segments(c) = clean_shutdown(u)
  BY DEF send_sender_segments
<1>   SenderHolds(c.sender, Stream[e], Byte) /\ c.segments_out \in Seq(P) /\ out \in Seq(Z)
      /\ \A seg \in Z : stamped(c, seg) \in P
  BY Parts, SendersQueue, Stamped
<1> HIDE DEF out, P, Z
<1>3. r \in Seq(P) /\ << >> \in Seq(Z)
  <2>1. q \in Seq(P)
    BY SMT
  <2> HIDE DEF q
  <2> QED BY <2>1, SMT
<1> HIDE DEF q, r
<1>4. Serves(c.sender, s, Stream[e], Byte, Limit(e))
  BY <1>3, TakenServes DEF Z
<1> HIDE DEF s
<1>5. /\ Shape(e, u) /\ u.receiver = c.receiver /\ u.sender = s /\ u.segments_out = r
      /\ u.active = c.active /\ u.linger_after_streams_finish = c.linger_after_streams_finish
  BY DEF Shape, Sound
<1> HIDE DEF u
<1>6. Leads(e, c, u)
  BY <1>3, <1>4, <1>5, Parts, Rebuild DEF Serves, outbound, P
<1> QED BY <1>1, <1>6, CleanShutdown, LeadsOn DEF Leads

\* An error is set on both streams, and the connection is over.
LEMMA SetErrors ==
  ASSUME NEW e \in Endpoint, NEW c, Sound(e, c)
  PROVE  LET d == set_errors(c)
         IN /\ Leads(e, c, d) /\ ~d.active /\ d.sender.segments_out = c.sender.segments_out
            /\ d.segments_out = c.segments_out /\ stream_out(d.receiver).error = TRUE
<1> DEFINE rcv == with_output(c.receiver, set_error(inbound(c)))
           s == [c.sender EXCEPT !.stream = set_error(@)]
           d == [c EXCEPT !.receiver = rcv, !.sender = s, !.active = FALSE]
<1>1. set_errors(c) = d
  BY DEF set_errors, with_output, inbound, stream_out
<1>   /\ SenderHolds(c.sender, Stream[e], Byte) /\ Stream[e] \in Seq(Byte) /\ Hears(e, c.receiver)
      /\ inbound(c).nwritten >= inbound(c).nwritten /\ c.segments_out \in Seq(Posted(e, c.receiver))
  BY Parts DEF Advances, OnlyMore, inbound
<1>   /\ Hears(e, rcv) /\ stream_out(rcv).error = TRUE /\ rcv.isn = c.receiver.isn
      /\ stream_out(rcv).nread = stream_out(c.receiver).nread
      /\ stream_out(rcv).nwritten = stream_out(c.receiver).nwritten
      /\ stream_out(rcv).input_ended = stream_out(c.receiver).input_ended
  <2>1. Fails(c.receiver, Stream[Peer(e)], Config[e].recv_capacity, Byte, Config[Peer(e)].isn)
    BY ReceiverError DEF Hears
  <2> QED BY <2>1 DEF Fails, Hears, inbound
<1>   /\ SenderHolds(s, Stream[e], Byte) /\ Onward(c.sender, s, Limit(e)) /\ s.stream.error = TRUE
      /\ s.segments_out = c.sender.segments_out
  <2>1. LET t == [c.sender EXCEPT !.stream = set_error(@)]
        IN /\ SenderHolds(t, Stream[e], Byte) /\ Onward(c.sender, t, Limit(e)) /\ t.stream.error = TRUE
           /\ t.segments_out = c.sender.segments_out
    BY SenderError
  <2> QED BY <2>1
<1> HIDE DEF rcv, s
<1>   /\ Shape(e, d) /\ d.receiver = rcv /\ d.sender = s /\ d.segments_out = c.segments_out
      /\ d.active = FALSE /\ d.linger_after_streams_finish = c.linger_after_streams_finish
  BY DEF Sound, Shape
<1> HIDE DEF d
<1>   HeardMore(c.receiver, rcv) /\ has_ackno(rcv) = has_ackno(c.receiver)
  BY DEF HeardMore, has_ackno, inbound
<1>7. c.sender.next_seqno # 0 => s.next_seqno # 0
  BY OnwardStays, SMT
<1>8. d.segments_out \in Seq(Posted(e, d.receiver))
  BY PostedMore
<1>9. Answered(d) /\ inbound(d).error /\ outbound(d).error /\ s.isn = Config[e].isn
  BY <1>7 DEF Sound, Answered, inbound, outbound, Onward
<1>10. Sound(e, d)
  BY <1>8, <1>9 DEF Sound
<1>11. Leads(e, c, d)
  BY <1>9, <1>10 DEF Leads, Patient, Grows, inbound
<1> QED BY <1>1, <1>11

\* unclean_shutdown: the oldest unsent segment, which there must be, goes out as a RST.
LEMMA UncleanShutdown ==
  ASSUME NEW e \in Endpoint, NEW c, Sound(e, c), c.sender.segments_out # << >>
  PROVE  Leads(e, c, unclean_shutdown(c)) /\ ~unclean_shutdown(c).active
<1> DEFINE d == set_errors(c)
           q == d.sender.segments_out
           rst == [stamped(c, Head(c.sender.segments_out))
                     EXCEPT !.ack = TRUE, !.rst = TRUE, !.win = window_size(c.receiver) % WIN_MOD]
           out == Append(d.segments_out, rst)
           s == [d.sender EXCEPT !.segments_out = Tail(q)]
           t == [d EXCEPT !.sender = s, !.segments_out = out]
           Z == Pieces(d.sender.isn, Stream[e], Byte, {0}, FALSE)
           P == Posted(e, d.receiver)
<1>1. unclean_shutdown(c) = t
  BY DEF unclean_shutdown
<1>   Leads(e, c, d) /\ Sound(e, d) /\ ~d.active /\ q = c.sender.segments_out /\ stream_out(d.receiver).error = TRUE
  <2>1. LET x == set_errors(c)
        IN /\ Leads(e, c, x) /\ ~x.active /\ x.sender.segments_out = c.sender.segments_out
           /\ stream_out(x.receiver).error = TRUE
    BY SetErrors
  <2> QED BY <2>1 DEF Leads
<1> HIDE DEF d
<1>   SenderHolds(d.sender, Stream[e], Byte) /\ d.sender.isn = Config[e].isn /\ d.segments_out \in Seq(P)
      /\ q \in Seq(Z) /\ Mail(e, c.receiver, TRUE) \subseteq P
  BY Parts, SendersQueue, PostedMore DEF Leads, Grows, Posted
<1> HIDE DEF q
<1>4. Head(q) \in Z /\ Tail(q) \in Seq(Z)
  <2> HIDE DEF Z
  <2> QED BY SMT
<1>5. rst \in P
  BY <1>4, Stamped
<1> HIDE DEF rst, P
<1>6. out \in Seq(P)
  BY <1>5, SMT
<1> HIDE DEF out
<1>7. Serves(d.sender, s, Stream[e], Byte, Limit(e))
  BY <1>4, TakenServes
<1> HIDE DEF s
<1>8. /\ Shape(e, t) /\ t.receiver = d.receiver /\ t.sender = s /\ t.segments_out = out /\ t.active = d.active
      /\ t.linger_after_streams_finish = d.linger_after_streams_finish
  BY DEF Sound, Shape
<1> HIDE DEF t
<1>9. Leads(e, d, t)
  BY <1>6, <1>7, <1>8, Parts, Rebuild DEF Serves, outbound, P
<1> QED BY <1>1, <1>8, <1>9, LeadsOn

\* c with another receiver, sender and time.
With(c, rcv, s, t) ==
  [c EXCEPT !.receiver = rcv, !.sender = s, !.time_since_last_segment_received = t]

\* The ways the operations write that.
LEMMA WithForms ==
  ASSUME NEW e \in Endpoint, NEW c, Sound(e, c), NEW rcv, NEW s
  PROVE  /\ [c EXCEPT !.receiver = rcv, !.sender = s] = With(c, rcv, s, c.time_since_last_segment_received)
         /\ [c EXCEPT !.sender = s] = With(c, c.receiver, s, c.time_since_last_segment_received)
         /\ c.time_since_last_segment_received \in Nat
<1>1. Shape(e, c)
  BY DEF Sound
<1>2. /\ [c EXCEPT !.receiver = rcv, !.sender = s] = With(c, rcv, s, c.time_since_last_segment_received)
      /\ [c EXCEPT !.sender = s] = With(c, c.receiver, s, c.time_since_last_segment_received)
  BY <1>1 DEF Shape, With
<1> QED BY <1>1, <1>2 DEF Shape

\* An operation that hears a segment of the peer, or none, and serves; one that hears has sent
\* something, or it does now.
LEMMA WithLeads ==
  ASSUME NEW e \in Endpoint, NEW c, Sound(e, c), NEW rcv, Hears(e, rcv), Advances(c.receiver, rcv),
         NEW s, Serves(c.sender, s, Stream[e], Byte, Limit(e)), NEW t \in Nat,
         rcv = c.receiver \/ c.sender.next_seqno # 0 \/ s.next_seqno # 0
  PROVE  LET d == With(c, rcv, s, t) IN Sound(e, d) /\ Leads(e, c, d)
<1> DEFINE d == With(c, rcv, s, t)
<1>1. /\ Shape(e, d) /\ d.receiver = rcv /\ d.sender = s /\ d.segments_out = c.segments_out
      /\ d.active = c.active /\ d.linger_after_streams_finish = c.linger_after_streams_finish
  BY DEF Sound, Shape, With
<1> HIDE DEF d
<1>2. Leads(e, c, d)
  BY <1>1, Parts, Rebuild DEF outbound, Serves
<1> QED BY <1>2 DEF Leads, d

\* An operation that does so and sends.
LEMMA WithSends ==
  ASSUME NEW e \in Endpoint, NEW c, Sound(e, c), NEW rcv, Hears(e, rcv), Advances(c.receiver, rcv),
         NEW s, Serves(c.sender, s, Stream[e], Byte, Limit(e)), NEW t \in Nat,
         rcv = c.receiver \/ c.sender.next_seqno # 0 \/ s.next_seqno # 0
  PROVE  Leads(e, c, send_sender_segments(With(c, rcv, s, t)))
<1> DEFINE d == With(c, rcv, s, t)
<1>1. Sound(e, d) /\ Leads(e, c, d)
  BY WithLeads
<1> HIDE DEF d
<1>2. Leads(e, c, send_sender_segments(d))
  BY <1>1, SendSenderSegments, LeadsOn
<1> QED BY <1>2 DEF d

\* An operation of the sender alone, whose segments go out.
LEMMA ServesLeads ==
  ASSUME NEW e \in Endpoint, NEW c, Sound(e, c), NEW s, Serves(c.sender, s, Stream[e], Byte, Limit(e))
  PROVE  Leads(e, c, send_sender_segments([c EXCEPT !.sender = s]))
<1> DEFINE d == [c EXCEPT !.sender = s]
           t == c.time_since_last_segment_received
<1>1. d = With(c, c.receiver, s, t) /\ t \in Nat
  BY WithForms
<1> HIDE DEF d, t
<1>2. Hears(e, c.receiver) /\ Advances(c.receiver, c.receiver)
  BY Parts
<1>3. Leads(e, c, send_sender_segments(With(c, c.receiver, s, t)))
  BY <1>1, <1>2, WithSends
<1> QED BY <1>1, <1>3 DEF d

\* connect.
LEMMA ConnectLeads ==
  ASSUME NEW e \in Endpoint, NEW c, Sound(e, c)
  PROVE  Leads(e, c, connect(c))
<1> DEFINE s == fill_window(c.sender)
<1>1. connect(c) = send_sender_segments([c EXCEPT !.sender = s])
  BY DEF connect
<1>2. Serves(c.sender, s, Stream[e], Byte, Limit(e))
  BY Parts, StepServes
<1> HIDE DEF s
<1> QED BY <1>1, <1>2, ServesLeads

\* write, of the next bytes of the application's stream.
LEMMA WriteLeads ==
  ASSUME NEW e \in Endpoint, NEW c, Sound(e, c), ~outbound(c).input_ended, NEW len \in Nat \ {0},
         outbound(c).nwritten + len <= Len(Stream[e])
  PROVE  Leads(e, c, conn_write(c, SubSeq(Stream[e], outbound(c).nwritten + 1, outbound(c).nwritten + len)))
<1> DEFINE n == c.sender.stream.nwritten
           data == SubSeq(Stream[e], n + 1, n + len)
           s == fill_window([c.sender EXCEPT !.stream = write(@, data)])
<1>1. Serves(c.sender, s, Stream[e], Byte, Limit(e))
  BY Parts, WriteServes DEF outbound
<1>2. data # << >>
  <2>1. n \in Nat /\ Stream[e] \in Seq(Byte) /\ n + len <= Len(Stream[e])
    BY Parts DEF outbound, ByteStreams
  <2> HIDE DEF n
  <2>2. Len(data) = len
    BY <2>1, SMT
  <2> HIDE DEF data
  <2> QED BY <2>2, SMT
<1>3. conn_write(c, data) = send_sender_segments([c EXCEPT !.sender = s])
  BY <1>2 DEF conn_write
<1> HIDE DEF s
<1>4. Leads(e, c, conn_write(c, data))
  BY <1>1, <1>3, ServesLeads
<1> QED BY <1>4 DEF outbound

\* end_input_stream, of an application that has written all.
LEMMA EndLeads ==
  ASSUME NEW e \in Endpoint, NEW c, Sound(e, c), outbound(c).nwritten = Len(Stream[e])
  PROVE  Leads(e, c, end_input_stream(c))
<1> DEFINE s == fill_window([c.sender EXCEPT !.stream = end_input(@)])
<1>1. Serves(c.sender, s, Stream[e], Byte, Limit(e))
  BY Parts, EndServes DEF outbound
<1>2. end_input_stream(c) = send_sender_segments([c EXCEPT !.sender = s])
  BY DEF end_input_stream
<1> HIDE DEF s
<1> QED BY <1>1, <1>2, ServesLeads

\* A segment of the peer reaches one that has sent something, or does now.
LEMMA HeardLeads ==
  ASSUME StreamsFit, NEW e \in Endpoint, NEW c, Sound(e, c), NEW A, NEW fail, NEW seg,
         seg \in Pieces(Config[Peer(e)].isn, Stream[Peer(e)], Byte, A, fail),
         NEW s, Serves(c.sender, s, Stream[e], Byte, Limit(e)), c.sender.next_seqno # 0
  PROVE  Leads(e, c, [c EXCEPT !.receiver = receive(@, seg), !.sender = s])
<1> DEFINE rcv == receive(c.receiver, seg)
           t == c.time_since_last_segment_received
<1>1. Hears(e, rcv) /\ Advances(c.receiver, rcv)
  BY Parts, HearsPiece
<1> HIDE DEF rcv
<1>2. [c EXCEPT !.receiver = rcv, !.sender = s] = With(c, rcv, s, t) /\ t \in Nat
  BY WithForms
<1> HIDE DEF t
<1>3. Leads(e, c, With(c, rcv, s, t))
  BY <1>1, <1>2, WithLeads
<1> QED BY <1>2, <1>3 DEF rcv

\* An empty segment is queued, for an acknowledgment or a RST to go out with.
LEMMA ReplyLeads ==
  ASSUME NEW e \in Endpoint, NEW c, Sound(e, c)
  PROVE  LET d == [c EXCEPT !.sender = send_empty_segment(@)]
         IN Sound(e, d) /\ Leads(e, c, d) /\ d.sender.segments_out # << >>
<1> DEFINE s == send_empty_segment(c.sender)
           t == c.time_since_last_segment_received
           d == With(c, c.receiver, s, t)
<1>1. Serves(c.sender, s, Stream[e], Byte, Limit(e)) /\ s.segments_out # << >>
      /\ Hears(e, c.receiver) /\ Advances(c.receiver, c.receiver)
  BY Parts, StepServes
<1> HIDE DEF s
<1>2. [c EXCEPT !.sender = s] = d /\ t \in Nat
  BY WithForms
<1> HIDE DEF t
<1>3. Sound(e, d) /\ Leads(e, c, d)
  BY <1>1, <1>2, WithLeads
<1>4. d.sender = s
  BY DEF With, Sound, Shape
<1> QED BY <1>1, <1>2, <1>3, <1>4 DEF s

\* The destructor of an active connection.
LEMMA DestroyLeads ==
  ASSUME NEW e \in Endpoint, NEW c, Sound(e, c)
  PROVE  Leads(e, c, destroy(c))
<1> DEFINE d == [c EXCEPT !.sender = send_empty_segment(@)]
<1>1. destroy(c) = IF c.active THEN unclean_shutdown(d) ELSE c
  BY DEF destroy
<1>2. Sound(e, d) /\ Leads(e, c, d) /\ d.sender.segments_out # << >>
  BY ReplyLeads
<1> HIDE DEF d
<1>3. Leads(e, c, unclean_shutdown(d))
  BY <1>2, UncleanShutdown, LeadsOn
<1> QED BY <1>1, <1>3, LeadsSelf

\* Lines 95-116, for a segment that is neither for a listener nor disposed of.
LEMMA ExchangeLeads ==
  ASSUME StreamsFit, NEW e \in Endpoint, NEW c, Sound(e, c), c.sender.next_seqno # 0, NEW A, NEW fail, NEW seg,
         seg \in Pieces(Config[Peer(e)].isn, Stream[Peer(e)], Byte, A, fail),
         Confirms(c.sender, seg.ackno, Limit(e)), NEW garbage
  PROVE  Leads(e, c, exchange(c, seg, garbage))
<1> DEFINE s == ack_received(c.sender, seg.ackno, seg.win, garbage)
           got == [c EXCEPT !.receiver = receive(@, seg), !.sender = s]
           must_reply == buffer_empty(outbound(got)) /\ length_in_sequence_space(seg) > 0
           replied == IF must_reply THEN [got EXCEPT !.sender = send_empty_segment(@)] ELSE got
           last == [replied EXCEPT !.sender = send_empty_segment(@)]
<1>1. exchange(c, seg, garbage) = IF seg.rst THEN unclean_shutdown(last) ELSE send_sender_segments(replied)
  BY DEF exchange
<1>2. Serves(c.sender, s, Stream[e], Byte, Limit(e))
  <2>1. seg.ackno \in WrappingInt32 /\ seg.win \in 0 .. WIN_MOD - 1
    BY DEF Pieces, Segments
  <2> QED BY <2>1, Parts, StepServes DEF StreamsFit
<1> HIDE DEF s
<1>3. Leads(e, c, got)
  BY <1>2, HeardLeads
<1> HIDE DEF got
<1>4. Leads(e, c, replied)
  BY <1>3, ReplyLeads, LeadsOn DEF Leads
<1> HIDE DEF replied
<1>5. Leads(e, c, send_sender_segments(replied))
  BY <1>4, SendSenderSegments, LeadsOn DEF Leads
<1>6. Sound(e, last) /\ Leads(e, c, last) /\ last.sender.segments_out # << >>
  BY <1>4, ReplyLeads, LeadsOn DEF Leads
<1> HIDE DEF last
<1>7. Leads(e, c, unclean_shutdown(last))
  BY <1>6, UncleanShutdown, LeadsOn
<1> QED BY <1>1, <1>5, <1>7

\* segment_received, of any segment of the peer.
LEMMA SegmentLeads ==
  ASSUME StreamsFit, NEW e \in Endpoint, NEW c, Sound(e, c), NEW A, NEW fail, NEW seg,
         seg \in Pieces(Config[Peer(e)].isn, Stream[Peer(e)], Byte, A, fail),
         Confirms(c.sender, seg.ackno, Limit(e)), NEW garbage
  PROVE  Leads(e, c, segment_received(c, seg, garbage))
<1> DEFINE h == [c EXCEPT !.time_since_last_segment_received = 0]
           d == [h EXCEPT !.receiver = receive(@, seg), !.sender = send_empty_segment(@)]
           x == segment_received(c, seg, garbage)
<1>1. \/ x = c \/ x = accept(h, seg)
      \/ x = opening(h, seg) /\ syn_sent(c)
      \/ x = exchange(h, seg, garbage) /\ ~listening(c)
  BY SMT DEF segment_received
<1> HIDE DEF x
<1>   Sound(e, h) /\ Leads(e, c, h) /\ h.sender = c.sender
  <2>1. h = With(c, c.receiver, c.sender, 0) /\ h.sender = c.sender /\ Shape(e, c)
    BY DEF Sound, Shape, With
  <2>2. 0 \in Nat /\ Hears(e, c.receiver) /\ Advances(c.receiver, c.receiver)
        /\ Serves(c.sender, c.sender, Stream[e], Byte, Limit(e))
    BY Parts
  <2> HIDE DEF h
  <2> QED BY <2>1, <2>2, WithLeads
<1> HIDE DEF h
<1>3. ~listening(c) => h.sender.next_seqno # 0
  BY DEF Sound, Answered, listening
<1>4. syn_sent(c) => h.sender.next_seqno # 0
  <2>1. 0 > 0 => FALSE
    BY SMT
  <2> QED BY <2>1 DEF syn_sent
<1>5. Leads(e, h, h)
  BY LeadsSelf
<1>6. ~listening(c) => Leads(e, h, exchange(h, seg, garbage))
  BY <1>3, ExchangeLeads
<1>7. Leads(e, h, accept(h, seg))
  <2> DEFINE rcv == receive(h.receiver, seg)
             s == fill_window(h.sender)
             t == h.time_since_last_segment_received
             r == [h EXCEPT !.receiver = receive(@, seg)]
  <2>1. accept(h, seg) = IF seg.syn THEN send_sender_segments([r EXCEPT !.sender = fill_window(@)]) ELSE h
    BY DEF accept, connect
  <2>2. [r EXCEPT !.sender = fill_window(@)] = [h EXCEPT !.receiver = rcv, !.sender = s]
    <3>1. Shape(e, h)
      BY Parts
    <3> QED BY <3>1 DEF Shape
  <2>3. Serves(h.sender, s, Stream[e], Byte, Limit(e)) /\ s.next_seqno # 0
    BY Parts, StepServes
  <2>4. Hears(e, rcv) /\ Advances(h.receiver, rcv)
    BY Parts, HearsPiece
  <2> HIDE DEF rcv, s
  <2>5. [h EXCEPT !.receiver = rcv, !.sender = s] = With(h, rcv, s, t) /\ t \in Nat
    BY WithForms
  <2> HIDE DEF r, t
  <2>6. Leads(e, h, send_sender_segments(With(h, rcv, s, t)))
    BY <2>3, <2>4, <2>5, WithSends
  <2> QED BY <1>5, <2>1, <2>2, <2>5, <2>6
<1>8. syn_sent(c) => Leads(e, h, opening(h, seg))
  <2>1. opening(h, seg) \in {h, d, set_errors(h)}
    BY DEF opening
  <2>2. syn_sent(c) => Leads(e, h, d)
    <3> DEFINE s == send_empty_segment(h.sender)
    <3>1. Serves(h.sender, s, Stream[e], Byte, Limit(e))
      BY Parts, StepServes
    <3> HIDE DEF s
    <3>2. syn_sent(c) => Leads(e, h, [h EXCEPT !.receiver = receive(@, seg), !.sender = s])
      BY <1>4, <3>1, HeardLeads
    <3> QED BY <3>2 DEF s
  <2>3. Leads(e, h, set_errors(h))
    BY SetErrors
  <2> HIDE DEF d
  <2> QED BY <1>5, <2>1, <2>2, <2>3
<1>9. Leads(e, c, x)
  BY <1>1, <1>6, <1>7, <1>8, LeadsOn, LeadsSelf
<1> QED BY <1>9 DEF x

\* tick of an active connection: when it finds the retransmissions exhausted, the segment it has
\* just repeated is there for unclean_shutdown.
LEMMA TickLeads ==
  ASSUME NEW e \in Endpoint, NEW c, Sound(e, c), Patient(c), c.active, NEW ms \in Nat
  PROVE  Leads(e, c, tick(c, ms))
<1> DEFINE s == sender_tick(c.sender, ms)
           d == [c EXCEPT !.time_since_last_segment_received = @ + ms, !.sender = sender_tick(@, ms)]
           exhausted == d.sender.consecutive_retransmissions > MAX_RETX_ATTEMPTS
           u == IF exhausted THEN unclean_shutdown(d) ELSE d
<1>1. tick(c, ms) = send_sender_segments(u)
  BY DEF tick
<1>2. Repeats(c.sender, s, Stream[e], Byte, Limit(e))
  BY Parts, TickRepeats
<1>3. SenderHolds(s, Stream[e], Byte) /\ Onward(c.sender, s, Limit(e)) /\ s.stream.error = c.sender.stream.error
  BY <1>2 DEF Repeats
<1>   /\ Shape(e, d) /\ d.receiver = c.receiver /\ d.sender = s /\ d.segments_out = c.segments_out
      /\ d.active = c.active /\ d.linger_after_streams_finish = c.linger_after_streams_finish
  <2>1. c.time_since_last_segment_received \in Nat
    BY WithForms
  <2>2. c.time_since_last_segment_received + ms \in Nat
    BY <2>1, SMT
  <2> HIDE DEF s
  <2> QED BY <2>2 DEF Sound, Shape, s
<1> HIDE DEF s, d
<1>   Sound(e, d) /\ Grows(e, c, d) /\ inbound(d).nread = inbound(c).nread
  <2>1. outbound(d).error = outbound(c).error /\ inbound(d).nread = inbound(c).nread
    BY <1>3 DEF outbound, inbound
  <2>2. Sound(e, d) /\ Grows(e, c, d)
    BY <1>3, <2>1, Parts, Rebuild
  <2> QED BY <2>1, <2>2
<1>6. /\ exhausted => d.sender.segments_out # << >>
      /\ ~exhausted => d.sender.consecutive_retransmissions <= MAX_RETX_ATTEMPTS
  <2> DEFINE m == d.sender.consecutive_retransmissions
             n == c.sender.consecutive_retransmissions
  <2>1. m \in Nat /\ n \in Nat /\ n <= MAX_RETX_ATTEMPTS /\ (m = n \/ d.sender.segments_out # << >>)
    BY <1>2, Parts DEF Repeats, Patient, Core, Senders
  <2> HIDE DEF m, n
  <2>2. (m > MAX_RETX_ATTEMPTS => m # n) /\ (~(m > MAX_RETX_ATTEMPTS) => m <= MAX_RETX_ATTEMPTS)
    BY <2>1, MaxRetxAssumption, SMT
  <2> QED BY <2>1, <2>2 DEF m
<1>7. Leads(e, d, u) /\ Patient(u)
  BY <1>6, UncleanShutdown, LeadsSelf DEF Patient
<1> HIDE DEF u
<1>8. Leads(e, u, send_sender_segments(u)) /\ Leads(e, d, send_sender_segments(u))
  BY <1>7, SendSenderSegments, LeadsOn DEF Leads
<1>9. Grows(e, c, send_sender_segments(u))
  BY <1>8, GrowsOn DEF Leads
<1> QED BY <1>1, <1>7, <1>8, <1>9 DEF Leads

\* c with len bytes read.
popped(c, len) == [c EXCEPT !.receiver.reassembler.output = pop_output(@, len)]

\* The reader takes len bytes; what has arrived stays as it was.
LEMMA ReadLeads ==
  ASSUME NEW e \in Endpoint, NEW c, Sound(e, c), Patient(c), NEW len \in Nat
  PROVE  LET d == popped(c, len)
         IN /\ Sound(e, d) /\ Grows(e, c, d) /\ Patient(d)
            /\ inbound(d).nread \in inbound(c).nread .. inbound(c).nwritten
            /\ inbound(d).nwritten = inbound(c).nwritten /\ inbound(d).input_ended = inbound(c).input_ended
<1> DEFINE rcv == with_output(c.receiver, pop_output(stream_out(c.receiver), len))
           x == [c EXCEPT !.receiver = rcv]
<1>1. popped(c, len) = x
  BY DEF with_output, stream_out, popped
<1>   /\ Hears(e, rcv) /\ stream_out(rcv).error = inbound(c).error /\ rcv.isn = c.receiver.isn
      /\ stream_out(rcv).nread \in inbound(c).nread .. inbound(c).nwritten
      /\ stream_out(rcv).nwritten = inbound(c).nwritten
      /\ stream_out(rcv).input_ended = inbound(c).input_ended
  <2>1. Pops(c.receiver, len, Stream[Peer(e)], Config[e].recv_capacity, Byte, Config[Peer(e)].isn)
    BY Endpoints, ReceiverRead DEF Sound, Hears
  <2> QED BY <2>1 DEF Pops, Hears, inbound
<1> HIDE DEF rcv
<1>   HeardMore(c.receiver, rcv) /\ has_ackno(rcv) = has_ackno(c.receiver)
  BY Parts DEF HeardMore, has_ackno, inbound, Advances, OnlyMore
<1>4. c.segments_out \in Seq(Posted(e, rcv)) /\ Onward(c.sender, c.sender, Limit(e))
  <2>1. Hears(e, c.receiver) /\ c.segments_out \in Seq(Posted(e, c.receiver)) /\ Onward(c.sender, c.sender, Limit(e))
    BY Parts DEF Serves
  <2> QED BY <2>1, PostedMore
<1>   /\ Shape(e, x) /\ x.receiver = rcv /\ x.sender = c.sender /\ x.segments_out = c.segments_out
      /\ x.active = c.active /\ x.linger_after_streams_finish = c.linger_after_streams_finish
  BY DEF Sound, Shape
<1> HIDE DEF x
<1>6. Answered(x) /\ (Done(c) => Done(x))
  BY DEF Sound, Answered, Done, inbound
<1>7. Sound(e, x)
  BY <1>4, <1>6 DEF Sound, inbound, outbound
<1>8. Grows(e, c, x) /\ Patient(x)
  BY <1>4 DEF Grows, Patient, inbound
<1> QED BY <1>1, <1>7, <1>8 DEF inbound

\* The owner has taken the segments; the time may be cut.
LEMMA SettledLeads ==
  ASSUME NEW e \in Endpoint, NEW c, Sound(e, c), NEW d,
         \/ d = [saturated(c) EXCEPT !.segments_out = << >>]
         \/ d = [c EXCEPT !.segments_out = << >>]
  PROVE  Leads(e, c, d) /\ d.segments_out = << >> /\ d.receiver = c.receiver
<1> DEFINE t == IF inbound(c).input_ended THEN MinOf(c.time_since_last_segment_received, 10 * c.cfg.rt_timeout) ELSE 0
           x == [c EXCEPT !.time_since_last_segment_received = t, !.segments_out = << >>]
           y == [c EXCEPT !.segments_out = << >>]
           P == Posted(e, c.receiver)
<1>   Shape(e, c) /\ c.time_since_last_segment_received \in Nat /\ c.cfg.rt_timeout \in Nat
  BY Endpoints DEF Sound, Shape
<1>2. d = x \/ d = y
  BY DEF saturated, Shape
<1>3. t \in Nat
  BY SMT DEF MinOf
<1> HIDE DEF t, P
<1>4. << >> \in Seq(P)
  BY SMT
<1>5. /\ Shape(e, d) /\ d.receiver = c.receiver /\ d.sender = c.sender /\ d.segments_out = << >>
      /\ d.active = c.active /\ d.linger_after_streams_finish = c.linger_after_streams_finish
  BY <1>2, <1>3 DEF Shape
<1> HIDE DEF x, y
<1>6. Leads(e, c, d)
  BY <1>4, <1>5, Parts, Rebuild DEF Serves, outbound, P
<1> QED BY <1>5, <1>6

\* The rank of the sender's summary is its place.
LEMMA SenderRank ==
  ASSUME NEW e \in Endpoint, NEW c, Sound(e, c)
  PROVE  rank[sender_summary(c.sender)] = Place(c.sender)
<1> DEFINE s == c.sender
           a == s.next_seqno
           m == s.bytes_in_flight
<1>1. Core(s, Stream[e], Byte) /\ a \in Nat /\ m \in Nat /\ oldest(s) = a - m
  BY Parts DEF Core, Senders, oldest
<1>2. a # 0 => (s.fin_sent <=> eof(s.stream) /\ ~(a < s.stream.nwritten + 2))
  BY <1>1, FinPlace
<1>3. /\ oldest(s) = 0 <=> a = m
      /\ a > 0 <=> a # 0
  BY <1>1, SMT
<1>4. sender_summary(s) =
        IF s.stream.error THEN "error" ELSE IF a = 0 THEN "CLOSED" ELSE IF oldest(s) = 0 THEN "SYN_SENT"
        ELSE IF ~s.fin_sent THEN "SYN_ACKED" ELSE IF m > 0 THEN "FIN_SENT" ELSE "FIN_ACKED"
  BY <1>2, <1>3 DEF sender_summary
<1>5. /\ rank["error"] = 5 /\ rank["CLOSED"] = 0 /\ rank["SYN_SENT"] = 1 /\ rank["SYN_ACKED"] = 2
      /\ rank["FIN_SENT"] = 3 /\ rank["FIN_ACKED"] = 4
  BY SMT DEF rank
<1> QED BY <1>4, <1>5 DEF Place

\* Neither summary of a connection goes back.
LEMMA RanksAdvance ==
  ASSUME NEW e \in Endpoint, NEW c, Sound(e, c), NEW d, Sound(e, d), Grows(e, c, d)
  PROVE  advances(state(c), state(d))
<1>1. rank[sender_summary(c.sender)] <= rank[sender_summary(d.sender)]
  <2>1. c.sender.stream.error => d.sender.stream.error
    BY DEF Grows, Sound, HeardMore, inbound, outbound
  <2>2. Place(c.sender) <= Place(d.sender)
    BY <2>1, Parts, PlaceOnward DEF Grows
  <2> QED BY <2>2, SenderRank
<1>2. rank[receiver_summary(c.receiver)] <= rank[receiver_summary(d.receiver)]
  <2>1. /\ rank["error"] = 5 /\ rank["LISTEN"] = 0 /\ rank["SYN_RECV"] = 1 /\ rank["FIN_RECV"] = 2
        /\ 0 <= 0 /\ 0 <= 1 /\ 0 <= 2 /\ 0 <= 5 /\ 1 <= 1 /\ 1 <= 2 /\ 1 <= 5 /\ 2 <= 2 /\ 2 <= 5 /\ 5 <= 5
    BY SMT DEF rank
  <2> QED BY <2>1 DEF receiver_summary, Grows, HeardMore, inbound
<1> QED BY <1>1, <1>2 DEF advances, state, Grows
-----------------------------------------------------------------------------
\* The inductive invariant: both connections are sound, patient and have handed over what they
\* queued; whatever is under way was cut from the stream of its sender, and acknowledges nothing
\* its sender has not heard; and no sender takes for acknowledged what its peer has not heard.
PairInv ==
  /\ conn = [e \in Endpoint |-> conn[e]] /\ net = [e \in Endpoint |-> net[e]]
  /\ \A e \in Endpoint : Sound(e, conn[e]) /\ Patient(conn[e]) /\ conn[e].segments_out = << >>
  /\ \A e \in Endpoint : net[e] \subseteq Posted(Peer(e), conn[Peer(e)].receiver)
  /\ ZeroUnused => \A e \in Endpoint : oldest(conn[e].sender) <= heard(conn[Peer(e)].receiver)

\* What a step may do to the connection of e.
Steps(e, c, d) ==
  /\ Grows(e, c, d)
  /\ ~c.active => inbound(d).nwritten = inbound(c).nwritten
  /\ \/ inbound(d).nread = inbound(c).nread
     \/ /\ inbound(d).nread \in inbound(c).nread .. inbound(c).nwritten
        /\ inbound(d).nwritten = inbound(c).nwritten /\ inbound(d).input_ended = inbound(c).input_ended

\* The invariant holds after a step too.
Kept == PairInv' /\ \A e \in Endpoint : Steps(e, conn[e], conn'[e])

\* An operation of an active connection, and one that does nothing, is such a step.
LEMMA LeadsSteps ==
  ASSUME NEW e \in Endpoint, NEW c, Sound(e, c), Patient(c), NEW x, Leads(e, c, x), c.active \/ x = c
  PROVE  Sound(e, x) /\ Patient(x) /\ Steps(e, c, x)
BY DEF Leads, Steps

\* What arrives acknowledges nothing its sender has not heard.
LEMMA Arrives ==
  ASSUME StreamsFit, PairInv, NEW e \in Endpoint, NEW seg \in net[e]
  PROVE  Confirms(conn[e].sender, seg.ackno, Limit(e))
<1> DEFINE f == Peer(e)
           s == conn[e].sender
           h == heard(conn[f].receiver)
<1>   /\ f \in Endpoint /\ Peer(f) = e /\ Stream[e] \in Seq(Byte) /\ Config[f].recv_capacity \in Nat \ {0}
      /\ SenderHolds(s, Stream[e], Byte) /\ s.isn = Config[e].isn /\ Hears(f, conn[f].receiver)
      /\ Len(Stream[e]) + 2 < HalfSeq /\ seg \in Posted(f, conn[f].receiver)
  BY Endpoints DEF PairInv, Sound, StreamsFit
<1>2. Core(s, Stream[e], Byte) /\ s.next_seqno \in Nat
  BY InFlight DEF SenderHolds
<1>3. CASE ~ZeroUnused
  BY <1>2, <1>3 DEF Confirms, Limit
<1>   CASE ZeroUnused
  <2>1. h \in 0 .. Len(Stream[e]) + 2
    BY HeardCounts DEF Hears
  <2>2. seg.ackno \in acknos(Config[e].isn, h)
    BY DEF Posted, Mail, Pieces
  <2>3. Confirms(s, seg.ackno, h)
    BY <1>2, <2>1, <2>2, AckConfirms DEF ZeroUnused
  <2> QED BY <2>3 DEF Limit
<1> QED BY <1>3

\* Endpoint e is now d, and the network carries only what was there or d may have sent.
LEMMA Moved ==
  ASSUME PairInv, NEW e \in Endpoint, NEW d, Sound(e, d), Patient(d), d.segments_out = << >>, Steps(e, conn[e], d),
         conn' = [conn EXCEPT ![e] = d], net' = [f \in Endpoint |-> net'[f]],
         net'[e] \subseteq net[e], net'[Peer(e)] \subseteq net[Peer(e)] \cup Posted(e, d.receiver)
  PROVE  Kept
<1> DEFINE p == Peer(e)
           c == conn[e]
<1>   /\ p \in Endpoint /\ p # e /\ Peer(p) = e /\ \A f \in Endpoint : f = e \/ f = p
      /\ conn = [f \in Endpoint |-> conn[f]] /\ Sound(e, c) /\ Sound(p, conn[p])
  BY Endpoints DEF PairInv
<1>   conn' = [f \in Endpoint |-> conn'[f]] /\ conn'[e] = d /\ conn'[p] = conn[p]
  OBVIOUS
<1>3. Sound(p, conn'[p]) /\ Patient(conn'[p]) /\ conn'[p].segments_out = << >> /\ Steps(p, conn[p], conn'[p])
  BY LeadsSelf DEF PairInv, Leads, Steps
<1>4. /\ Posted(e, c.receiver) \subseteq Posted(e, d.receiver)
      /\ heard(c.receiver) \in Nat /\ heard(d.receiver) \in Nat /\ heard(c.receiver) <= heard(d.receiver)
  BY Parts, PostedMore DEF Steps, Grows
<1>5. net'[e] \subseteq Posted(p, conn'[p].receiver) /\ net'[p] \subseteq Posted(e, conn'[e].receiver)
  BY <1>4 DEF PairInv
<1>   ASSUME ZeroUnused
      PROVE  oldest(d.sender) <= heard(conn[p].receiver) /\ oldest(conn[p].sender) <= heard(d.receiver)
  <2>1. oldest(d.sender) <= heard(conn[p].receiver)
    BY DEF PairInv, Steps, Grows, Onward, Limit
  <2>2. oldest(conn[p].sender) <= heard(c.receiver) /\ oldest(conn[p].sender) \in Nat
    BY Parts, InFlight DEF PairInv
  <2>3. oldest(conn[p].sender) <= heard(d.receiver)
    BY <1>4, <2>2, SMT
  <2> QED BY <2>1, <2>3
<1>7. PairInv'
  BY <1>3, <1>5 DEF PairInv
<1> QED BY <1>3, <1>7 DEF Kept

\* Becomes: e settles, its segments go out or are lost, and the one it took is gone.
LEMMA Became ==
  ASSUME PairInv, NEW e \in Endpoint, NEW x, Sound(e, x), Patient(x), Steps(e, conn[e], x), NEW taken, Becomes(e, x, taken)
  PROVE  Kept
<1> DEFINE d == [saturated(x) EXCEPT !.segments_out = << >>]
           q == x.segments_out
           P == Posted(e, x.receiver)
           sent == {q[i] : i \in 1 .. Len(q)}
           under_way == net[Peer(e)] \cup sent
           here == net[e] \ taken
           there == IF Cardinality(under_way) <= room[Peer(e)] THEN under_way ELSE net[Peer(e)]
<1>   Leads(e, x, d) /\ d.segments_out = << >> /\ d.receiver = x.receiver
  BY SettledLeads
<1>2. conn' = [conn EXCEPT ![e] = d] /\ net' = [net EXCEPT ![e] = here, ![Peer(e)] = there]
  BY Endpoints DEF Becomes
<1> HIDE DEF d
<1>3. Sound(e, d) /\ Patient(d) /\ Steps(e, conn[e], d)
  <2>1. Grows(e, conn[e], d)
    BY GrowsOn DEF PairInv, Leads, Steps
  <2> QED BY <2>1 DEF Leads, Steps, inbound
<1>4. q \in Seq(P)
  BY DEF Sound
<1> HIDE DEF q, P
<1>5. \A i \in 1 .. Len(q) : q[i] \in P
  BY <1>4, SMT
<1>6. there \subseteq net[Peer(e)] \cup P
  BY <1>5
<1> HIDE DEF here, there
<1>7. net' = [f \in Endpoint |-> net'[f]] /\ net'[e] = here /\ net'[Peer(e)] = there
  <2>1. net = [f \in Endpoint |-> net[f]]
    BY DEF PairInv
  <2> QED BY <1>2, <2>1, Endpoints
<1>8. net'[e] \subseteq net[e] /\ net'[Peer(e)] \subseteq net[Peer(e)] \cup Posted(e, d.receiver)
  BY <1>6, <1>7 DEF here, P
<1> QED BY <1>2, <1>3, <1>7, <1>8, Moved

\* A segment is lost.
LEMMA LoseInv ==
  ASSUME PairInv, NEW e \in Endpoint, NEW seg, Lose(e, seg)
  PROVE  Kept
<1>1. conn' = conn /\ net' = [net EXCEPT ![e] = @ \ {seg}] /\ net = [f \in Endpoint |-> net[f]]
  BY DEF Lose, PairInv
<1>2. net' = [f \in Endpoint |-> net'[f]] /\ \A f \in Endpoint : net'[f] \subseteq net[f]
  BY <1>1, SMT
<1>3. PairInv'
  BY <1>1, <1>2 DEF PairInv
<1> QED BY <1>1, <1>3, LeadsSelf DEF PairInv, Leads, Steps, Kept

\* Every step keeps the invariant and does to each connection what a step may.
LEMMA StepInv ==
  ASSUME StreamsFit, PairInv, [Next]_vars
  PROVE  Kept
<1>   \A e \in Endpoint : Sound(e, conn[e]) /\ Patient(conn[e])
  BY DEF PairInv
<1>   ASSUME NEW e \in Endpoint, NEW x, NEW taken, Leads(e, conn[e], x), conn[e].active \/ x = conn[e], Becomes(e, x, taken)
      PROVE  Kept
  BY LeadsSteps, Became
<1>3. ASSUME NEW e \in Endpoint, Connect(e) PROVE Kept
  BY <1>3, ConnectLeads DEF Connect, can_open
<1>4. ASSUME NEW e \in Endpoint, NEW len \in 1 .. Len(Stream[e]), Write(e, len) PROVE Kept
  <2>1. len \in Nat \ {0}
    BY SMT
  <2> QED BY <1>4, <2>1, WriteLeads DEF Write, reading
<1>5. ASSUME NEW e \in Endpoint, End(e) PROVE Kept
  BY <1>5, EndLeads DEF End, reading
<1>6. ASSUME NEW e \in Endpoint, NEW len \in 1 .. Config[e].recv_capacity, Read(e, len) PROVE Kept
  <2> DEFINE x == popped(conn[e], len)
  <2>1. Becomes(e, x, {})
    BY <1>6 DEF Read, popped
  <2>2. len \in Nat
    BY SMT
  <2>3. Sound(e, x) /\ Patient(x) /\ Steps(e, conn[e], x)
    BY <2>2, ReadLeads DEF Steps
  <2> HIDE DEF x
  <2> QED BY <2>1, <2>3, Became
<1>7. ASSUME NEW e \in Endpoint, NEW seg \in net[e], NEW again \in BOOLEAN, NEW garbage \in found(conn[e]),
             Deliver(e, seg, again, garbage)
      PROVE  Kept
  <2> DEFINE c == conn[e]
             x == segment_received(c, seg, garbage)
             taken == IF again THEN {} ELSE {seg}
             A == acknos(Config[e].isn, heard(conn[Peer(e)].receiver))
             fail == failed(conn[Peer(e)])
  <2>1. Becomes(e, x, taken)
    BY <1>7 DEF Deliver
  <2>2. Sound(e, c) /\ seg \in Pieces(Config[Peer(e)].isn, Stream[Peer(e)], Byte, A, fail)
    BY Endpoints DEF PairInv, Posted, Mail, failed, inbound
  <2>3. Confirms(c.sender, seg.ackno, Limit(e))
    BY Arrives
  <2> HIDE DEF c, A, fail
  <2>4. Leads(e, c, x)
    BY <2>2, <2>3, SegmentLeads
  <2>5. ~c.active => x = c
    BY DEF segment_received
  <2> HIDE DEF x, taken
  <2> QED BY <2>1, <2>4, <2>5 DEF c
<1>8. ASSUME NEW e \in Endpoint, NEW seg \in net[e], Lose(e, seg) PROVE Kept
  BY <1>8, LoseInv
<1>9. ASSUME NEW e \in Endpoint, NEW ms \in Elapsed, Tick(e, ms) PROVE Kept
  BY <1>9, PairAssumption, TickLeads DEF Tick
<1>10. ASSUME NEW e \in Endpoint, Destroy(e) PROVE Kept
  <2> DEFINE x == destroy(conn[e])
             d == [x EXCEPT !.segments_out = << >>]
  <2>1. conn[e].active /\ net' = net /\ conn' = [conn EXCEPT ![e] = d]
    BY <1>10 DEF Destroy
  <2>2. Leads(e, conn[e], x)
    BY DestroyLeads
  <2> HIDE DEF x
  <2>3. Leads(e, x, d) /\ d.segments_out = << >>
    BY <2>2, SettledLeads, ZenonT(30) DEF Leads
  <2> HIDE DEF d
  <2>4. Leads(e, conn[e], d)
    BY <2>2, <2>3, LeadsOn
  <2>5. Sound(e, d) /\ Patient(d) /\ Steps(e, conn[e], d)
    BY <2>1, <2>4, LeadsSteps
  <2> QED BY <2>1, <2>3, <2>5, Moved DEF PairInv
<1>11. ASSUME UNCHANGED vars PROVE Kept
  <2>1. conn' = conn /\ net' = net
    BY <1>11 DEF vars
  <2> QED BY <2>1, LeadsSelf DEF PairInv, Leads, Steps, Kept
<1> QED BY <1>3, <1>4, <1>5, <1>6, <1>7, <1>8, <1>9, <1>10, <1>11 DEF Next

\* A new connection is sound, and nothing of it is heard or acknowledged.
LEMMA NewSound ==
  ASSUME NEW e \in Endpoint
  PROVE  LET c == new_TCPConnection(Config[e], Filler)
         IN /\ Sound(e, c) /\ Patient(c) /\ c.segments_out = << >>
            /\ inbound(c) = new_ByteStream(Config[e].recv_capacity)
            /\ oldest(c.sender) = 0 /\ heard(c.receiver) = 0
<1> DEFINE k == Config[e]
           r == new_StreamReassembler(k.recv_capacity, Filler)
           rcv == new_TCPReceiver(k.recv_capacity, Filler)
           s == new_TCPSender(k.send_capacity, k.rt_timeout, k.isn)
           c == [cfg |-> k, receiver |-> rcv, sender |-> s, segments_out |-> << >>,
                 linger_after_streams_finish |-> TRUE, time_since_last_segment_received |-> 0, active |-> TRUE]
           P == Posted(e, c.receiver)
<1>1. new_TCPConnection(k, Filler) = c
  BY DEF new_TCPConnection
<1>2. SenderHolds(s, Stream[e], Byte)
  BY Endpoints, NewSender
<1>3. /\ s.isn = k.isn /\ s.consecutive_retransmissions = 0 /\ s.stream.error = FALSE
      /\ s.next_seqno = 0 /\ s.bytes_in_flight = 0
  BY DEF new_TCPSender, new_ByteStream
<1>4. Holds(r, Stream[Peer(e)], k.recv_capacity, Byte)
  BY Endpoints, NewHolds
<1>5. /\ r.output = new_ByteStream(k.recv_capacity) /\ r.output.error = FALSE
      /\ r.output.input_ended = FALSE /\ r.eof_index = NoEof
  BY DEF new_StreamReassembler, new_ByteStream
<1>6. rcv = [reassembler |-> r, isn |-> NoIsn, fin_abs_seq |-> 0]
  BY DEF new_TCPReceiver
<1> HIDE DEF r
<1>7. /\ rcv \in [reassembler : {r}, isn : {NoIsn, Config[Peer(e)].isn}, fin_abs_seq : Nat]
      /\ rcv.reassembler = r /\ rcv.fin_abs_seq = 0 /\ rcv.isn = NoIsn
  BY <1>6, SMT
<1> HIDE DEF rcv, s
<1>   /\ Hears(e, rcv) /\ stream_out(rcv) = new_ByteStream(k.recv_capacity) /\ stream_out(rcv).error = FALSE
      /\ stream_out(rcv).input_ended = FALSE /\ ~has_ackno(rcv) /\ heard(rcv) = 0
  BY <1>4, <1>5, <1>7 DEF Hears, ReceiverOf, stream_out, has_ackno, heard
<1>   /\ Shape(e, c) /\ c.receiver = rcv /\ c.sender = s /\ c.segments_out = << >> /\ c.active = TRUE
  BY DEF Shape
<1> HIDE DEF c, P
<1>10. << >> \in Seq(P) /\ 0 <= MAX_RETX_ATTEMPTS /\ 0 - 0 = 0
  BY MaxRetxAssumption, SMT
<1>11. Answered(c) /\ Patient(c) /\ oldest(c.sender) = 0
  BY <1>3, <1>10 DEF Answered, Patient, inbound, oldest
<1>12. Sound(e, c)
  BY <1>2, <1>3, <1>10, <1>11 DEF Sound, inbound, outbound, P
<1> QED BY <1>1, <1>11, <1>12 DEF inbound

\* In every reachable state both connections are sound and patient, the network carries only
\* pieces of the two streams, and nobody acknowledges what it has not heard (TCPConnection's
\* handlers, whatever arrives when).
THEOREM PairInvariant ==
  ASSUME StreamsFit
  PROVE  Spec => []PairInv
<1>1. Init => PairInv
  <2> SUFFICES ASSUME Init PROVE PairInv
    OBVIOUS
  <2>1. /\ conn = [e \in Endpoint |-> new_TCPConnection(Config[e], Filler)] /\ net = [e \in Endpoint |-> {}]
    BY DEF Init
  <2>2. /\ conn = [e \in Endpoint |-> conn[e]] /\ net = [e \in Endpoint |-> net[e]]
        /\ \A e \in Endpoint : conn[e] = new_TCPConnection(Config[e], Filler) /\ net[e] = {}
    BY <2>1
  <2>3. \A e \in Endpoint : oldest(conn[e].sender) <= heard(conn[Peer(e)].receiver)
    <3>1. \A e \in Endpoint : oldest(conn[e].sender) = 0 /\ heard(conn[e].receiver) = 0
      BY <2>2, NewSound
    <3>2. 0 <= 0
      BY SMT
    <3> QED BY <3>1, <3>2, Endpoints
  <2> QED BY <2>2, <2>3, NewSound DEF PairInv
<1>2. PairInv /\ [Next]_vars => PairInv'
  BY StepInv DEF Kept
<1> QED BY <1>1, <1>2, PTL DEF Spec

\* Byte streams, flags and segments keep their types; what the handlers of a connection queued
\* has been handed over, though its sender may still hold the answer to a simultaneous open.
THEOREM TypeCorrect ==
  ASSUME StreamsFit
  PROVE  Spec => []TypeOK
<1>1. PairInv => TypeOK
  <2> SUFFICES ASSUME PairInv, NEW e \in Endpoint
               PROVE  /\ inbound(conn[e]) \in ByteStreams(Byte) /\ outbound(conn[e]) \in ByteStreams(Byte)
                      /\ conn[e].active \in BOOLEAN /\ conn[e].segments_out = << >>
                      /\ \A seg \in net[e] : seg.seqno \in WrappingInt32 /\ seg.ackno \in WrappingInt32
                                             /\ seg.win \in 0 .. WIN_MOD - 1
    BY DEF TypeOK
  <2>1. Sound(e, conn[e]) /\ conn[e].segments_out = << >> /\ conn[e].active \in BOOLEAN
    BY DEF PairInv, Sound, Shape
  <2>2. \A seg \in net[e] : seg.seqno \in WrappingInt32 /\ seg.ackno \in WrappingInt32
                            /\ seg.win \in 0 .. WIN_MOD - 1
    BY DEF PairInv, Posted, Mail, Pieces, Segments
  <2> QED BY <2>1, <2>2, Parts
<1> QED BY <1>1, PairInvariant, PTL

\* tick ends a connection before its count of retransmissions passes MAX_RETX_ATTEMPTS while active.
THEOREM NotExhaustedHolds ==
  ASSUME StreamsFit
  PROVE  Spec => []NotExhausted
<1>1. PairInv => NotExhausted
  BY DEF PairInv, Patient, NotExhausted
<1> QED BY <1>1, PairInvariant, PTL

\* What a sender takes for acknowledged its peer's receiver has accepted, where 0 is nobody's
\* number: ack_received never believes more than the other side has heard.
THEOREM AckedIsReceivedHolds ==
  ASSUME StreamsFit, ZeroUnused
  PROVE  Spec => []AckedIsReceived
<1>1. PairInv => AckedIsReceived
  <2> SUFFICES ASSUME PairInv, NEW e \in Endpoint, una(conn[e]) > 0
               PROVE  LET rcv == conn[Peer(e)].receiver IN has_ackno(rcv) /\ una(conn[e]) <= abs_ackno(rcv)
    BY DEF AckedIsReceived
  <2> DEFINE rcv == conn[Peer(e)].receiver
             u == oldest(conn[e].sender)
  <2>1. u <= heard(rcv) /\ una(conn[e]) = u
    BY DEF PairInv, una, oldest
  <2>2. u \in Nat
    BY Parts, InFlight DEF PairInv
  <2> HIDE DEF u, rcv
  <2>3. heard(rcv) # 0
    BY <2>1, <2>2, SMT
  <2> QED BY <2>1, <2>3 DEF heard, rcv
<1> QED BY <1>1, PairInvariant, PTL

\* A connection clean_shutdown has ended has received all of the peer's stream, and the peer all
\* of its own, where 0 is nobody's number: lingering or not, neither reader misses a byte.
THEOREM CleanMeansCompleteHolds ==
  ASSUME StreamsFit, ZeroUnused
  PROVE  Spec => []CleanMeansComplete
<1>1. PairInv => CleanMeansComplete
  <2> SUFFICES ASSUME PairInv, NEW e \in Endpoint, ~conn[e].active, ~failed(conn[e]), NEW f \in Endpoint
               PROVE  inbound(conn[f]).input_ended /\ inbound(conn[f]).nwritten = Len(Stream[Peer(f)])
    BY DEF CleanMeansComplete
  <2> DEFINE p == Peer(e)
  <2>1. /\ p \in Endpoint /\ Peer(p) = e /\ (f = e \/ f = p) /\ Stream[e] \in Seq(Byte)
        /\ Done(conn[e]) /\ SenderHolds(conn[e].sender, Stream[e], Byte)
        /\ oldest(conn[e].sender) <= heard(conn[p].receiver)
    BY Endpoints DEF PairInv, Sound, failed
  <2>2. \A g \in Endpoint : LET o == stream_out(conn[g].receiver)
                            IN /\ o.input_ended => o.nwritten = Len(Stream[Peer(g)])
                               /\ Len(Stream[Peer(g)]) + 2 <= heard(conn[g].receiver) => o.input_ended
    <3> SUFFICES ASSUME NEW g \in Endpoint
                 PROVE  LET o == stream_out(conn[g].receiver)
                        IN /\ o.input_ended => o.nwritten = Len(Stream[Peer(g)])
                           /\ Len(Stream[Peer(g)]) + 2 <= heard(conn[g].receiver) => o.input_ended
      OBVIOUS
    <3>1. /\ ReceiverOf(conn[g].receiver, Stream[Peer(g)], Config[g].recv_capacity, Byte, Config[Peer(g)].isn)
          /\ Stream[Peer(g)] \in Seq(Byte) /\ Config[g].recv_capacity \in Nat \ {0}
      BY Endpoints DEF PairInv, Sound, Hears
    <3> QED BY <3>1, HeardCounts, SMT
  <2>3. oldest(conn[e].sender) = Len(Stream[e]) + 2
    BY <2>1, AllAcked DEF Done
  <2> QED BY <2>1, <2>2, <2>3 DEF Done, inbound
<1> QED BY <1>1, PairInvariant, PTL

\* No step takes either endpoint back in the diagram of RFC 793, and one that is over hears nothing.
THEOREM StatesAdvanceHolds ==
  ASSUME StreamsFit
  PROVE  Spec => StatesAdvance
<1> DEFINE Onto == \A e \in Endpoint :
             /\ conn'[e] # conn[e] => advances(state(conn[e]), state(conn'[e]))
             /\ ~conn[e].active => inbound(conn'[e]).nwritten = inbound(conn[e]).nwritten
<1>1. PairInv /\ PairInv' /\ [Next]_vars => Onto
  <2> SUFFICES ASSUME PairInv, PairInv', [Next]_vars, NEW e \in Endpoint
               PROVE  /\ advances(state(conn[e]), state(conn'[e]))
                      /\ ~conn[e].active => inbound(conn'[e]).nwritten = inbound(conn[e]).nwritten
    OBVIOUS
  <2>1. Steps(e, conn[e], conn'[e]) /\ Sound(e, conn[e]) /\ Sound(e, conn'[e])
    BY StepInv DEF PairInv, Kept
  <2> QED BY <2>1, RanksAdvance DEF Steps
<1>2. [][Next]_vars /\ []PairInv => [][Onto]_vars
  BY <1>1, PTL
<1> QED BY <1>2, PairInvariant, PTL DEF Spec, StatesAdvance

\* send_sender_segments empties the queue of the sender and does nothing else to it or to the
\* receiver.
LEMMA SendKeeps ==
  ASSUME NEW e \in Endpoint, NEW c, Shape(e, c)
  PROVE  LET d == send_sender_segments(c)
         IN d.receiver = c.receiver /\ d.sender = [c.sender EXCEPT !.segments_out = << >>]
<1> DEFINE out == c.sender.segments_out
           r == c.segments_out \o [i \in 1 .. Len(out) |-> stamped(c, out[i])]
           s == [c.sender EXCEPT !.segments_out = << >>]
           u == [c EXCEPT !.segments_out = r, !.sender = s]
<1>1. send_sender_segments(c) = clean_shutdown(u)
  BY DEF send_sender_segments
<1> HIDE DEF r, s
<1>2. Shape(e, u) /\ u.receiver = c.receiver /\ u.sender = s
  BY DEF Shape
<1> HIDE DEF u
<1>3. clean_shutdown(u).receiver = u.receiver /\ clean_shutdown(u).sender = u.sender
  BY <1>2 DEF Shape, clean_shutdown
<1> QED BY <1>1, <1>2, <1>3 DEF s

\* Neither connecting nor writing nor ending the stream touches the receiver.
LEMMA CallsKeep ==
  ASSUME NEW e \in Endpoint, NEW c, Shape(e, c)
  PROVE  /\ connect(c).receiver = c.receiver /\ end_input_stream(c).receiver = c.receiver
         /\ \A data : conn_write(c, data).receiver = c.receiver
<1>1. \A s : send_sender_segments([c EXCEPT !.sender = s]).receiver = c.receiver
  <2> SUFFICES ASSUME NEW s PROVE send_sender_segments([c EXCEPT !.sender = s]).receiver = c.receiver
    OBVIOUS
  <2> DEFINE d == [c EXCEPT !.sender = s]
  <2>1. Shape(e, d) /\ d.receiver = c.receiver
    BY DEF Shape
  <2> HIDE DEF d
  <2>2. send_sender_segments(d).receiver = c.receiver
    BY <2>1, SendKeeps
  <2> QED BY <2>2 DEF d
<1> QED BY <1>1 DEF connect, end_input_stream, conn_write

\* segment_received gives a segment that is no RST to the receiver or to nobody, and sets no error.
LEMMA SegmentKeeps ==
  ASSUME NEW e \in Endpoint, NEW c, Shape(e, c), NEW seg, ~seg.rst, NEW garbage
  PROVE  segment_received(c, seg, garbage).receiver \in {c.receiver, receive(c.receiver, seg)}
<1> DEFINE h == [c EXCEPT !.time_since_last_segment_received = 0]
           rcv == receive(h.receiver, seg)
           got(s) == [h EXCEPT !.receiver = rcv, !.sender = s]
<1>1. Shape(e, h) /\ h.receiver = c.receiver
  <2>1. 0 \in Nat
    BY SMT
  <2> QED BY <2>1 DEF Shape
<1> HIDE DEF h
<1>2. \A s : Shape(e, got(s)) /\ got(s).receiver = rcv
  BY <1>1 DEF Shape
<1>3. \A s : send_sender_segments(got(s)).receiver = rcv
  BY <1>2, SendKeeps
<1>4. accept(h, seg).receiver \in {h.receiver, rcv}
  <2>1. accept(h, seg) = IF seg.syn THEN send_sender_segments(got(fill_window(h.sender))) ELSE h
    BY <1>1 DEF accept, connect, Shape
  <2> HIDE DEF got
  <2> QED BY <1>3, <2>1
<1>5. disposed(seg) => opening(h, seg).receiver \in {h.receiver, rcv}
  <2>1. disposed(seg) => opening(h, seg) \in {h, got(send_empty_segment(h.sender))}
    BY DEF disposed, opening
  <2> HIDE DEF got
  <2> QED BY <1>2, <2>1
<1>6. exchange(h, seg, garbage).receiver = rcv
  <2> DEFINE s == ack_received(h.sender, seg.ackno, seg.win, garbage)
             must_reply == buffer_empty(outbound(got(s))) /\ length_in_sequence_space(seg) > 0
             t == IF must_reply THEN send_empty_segment(s) ELSE s
  <2>1. /\ got(s).sender = s
        /\ [got(s) EXCEPT !.sender = send_empty_segment(@)] = got(send_empty_segment(s))
    <3> HIDE DEF s
    <3> QED BY <1>1 DEF Shape
  <2>2. exchange(h, seg, garbage) =
          send_sender_segments(IF must_reply THEN [got(s) EXCEPT !.sender = send_empty_segment(@)] ELSE got(s))
    BY DEF exchange
  <2> HIDE DEF got, s, must_reply
  <2> QED BY <1>3, <2>1, <2>2
<1> HIDE DEF got, rcv
<1>7. segment_received(c, seg, garbage).receiver \in {h.receiver, rcv}
  BY <1>1, <1>4, <1>5, <1>6 DEF segment_received, h
<1> QED BY <1>1, <1>7 DEF rcv

\* tick makes a connection fail only when the retransmissions are exhausted.
LEMMA TickKeeps ==
  ASSUME NEW e \in Endpoint, NEW c, Sound(e, c), c.active, NEW ms \in Nat
  PROVE  LET x == tick(c, ms) IN x.receiver = c.receiver \/ gave_up(x)
<1> DEFINE s == sender_tick(c.sender, ms)
           d == [c EXCEPT !.time_since_last_segment_received = @ + ms, !.sender = sender_tick(@, ms)]
           exhausted == d.sender.consecutive_retransmissions > MAX_RETX_ATTEMPTS
           u == IF exhausted THEN unclean_shutdown(d) ELSE d
           x == send_sender_segments(u)
<1>1. tick(c, ms) = x
  BY DEF tick
<1>2. s \in Senders(Byte)
  <2>1. Repeats(c.sender, s, Stream[e], Byte, Limit(e))
    BY Parts, TickRepeats
  <2> QED BY <2>1 DEF Repeats, SenderHolds, Core
<1>3. Shape(e, d) /\ d.receiver = c.receiver /\ d.sender = s
  <2>1. c.time_since_last_segment_received \in Nat /\ Shape(e, c)
    BY WithForms DEF Sound
  <2>2. c.time_since_last_segment_received + ms \in Nat
    BY <2>1, SMT
  <2> HIDE DEF s
  <2> QED BY <2>1, <2>2 DEF Shape, s
<1> HIDE DEF d, s
<1>4. CASE ~exhausted
  <2>1. send_sender_segments(d).receiver = d.receiver
    BY <1>3, SendKeeps
  <2>2. x = send_sender_segments(d)
    BY <1>4
  <2> HIDE DEF x
  <2> QED BY <1>1, <1>3, <2>1, <2>2
<1>5. CASE exhausted
  <2> DEFINE n == d.sender.consecutive_retransmissions
  <2>1. Shape(e, u) /\ u.sender.consecutive_retransmissions = n /\ "consecutive_retransmissions" \in DOMAIN u.sender
    BY <1>2, <1>3, <1>5 DEF unclean_shutdown, set_errors, Shape, Senders
  <2> HIDE DEF u
  <2>2. x.sender = [u.sender EXCEPT !.segments_out = << >>]
    BY <2>1, SendKeeps
  <2>3. x.sender.consecutive_retransmissions = n
    BY <2>1, <2>2
  <2> QED BY <1>1, <1>5, <2>3 DEF gave_up
<1> QED BY <1>4, <1>5

\* Why e may fail in a step.
Excused(e) ==
  failed(conn'[e]) /\ ~failed(conn[e]) =>
    conn[e].active /\ (gave_up(conn'[e]) \/ failed(conn[Peer(e)]) \/ Destroy(e))

\* Becomes: settling is no failure, and the other endpoint is left alone.
LEMMA BecameExcused ==
  ASSUME PairInv, NEW e \in Endpoint, NEW x, Shape(e, x), NEW taken, Becomes(e, x, taken),
         failed(x) /\ ~failed(conn[e]) => conn[e].active /\ (gave_up(x) \/ failed(conn[Peer(e)]))
  PROVE  \A f \in Endpoint : Excused(f)
<1> DEFINE d == [saturated(x) EXCEPT !.segments_out = << >>]
<1>1. conn' = [conn EXCEPT ![e] = d] /\ conn = [f \in Endpoint |-> conn[f]]
  BY DEF Becomes, PairInv
<1>2. d.receiver = x.receiver /\ d.sender = x.sender
  BY DEF saturated, Shape
<1> HIDE DEF d
<1>3. conn'[e] = d /\ \A f \in Endpoint : f # e => conn'[f] = conn[f]
  BY <1>1
<1>4. failed(d) = failed(x) /\ (gave_up(x) => gave_up(d))
  BY <1>2 DEF failed, gave_up, inbound
<1> QED BY <1>3, <1>4 DEF Excused

\* No step makes a connection fail without a cause.
LEMMA StepExcused ==
  ASSUME StreamsFit, PairInv, [Next]_vars
  PROVE  \A f \in Endpoint : Excused(f)
<1>   \A e \in Endpoint : Sound(e, conn[e]) /\ Patient(conn[e]) /\ Shape(e, conn[e])
  BY DEF PairInv, Sound
<1>   ASSUME NEW e \in Endpoint, NEW x, NEW taken, Leads(e, conn[e], x), Becomes(e, x, taken),
             failed(x) /\ ~failed(conn[e]) => conn[e].active /\ (gave_up(x) \/ failed(conn[Peer(e)]))
      PROVE  \A f \in Endpoint : Excused(f)
  BY BecameExcused DEF Leads, Sound
<1>   ASSUME NEW c, NEW d, d.receiver = c.receiver PROVE failed(d) = failed(c)
  BY DEF failed, inbound
<1>4. ASSUME NEW e \in Endpoint, Connect(e) PROVE \A f \in Endpoint : Excused(f)
  BY <1>4, ConnectLeads, CallsKeep DEF Connect
<1>5. ASSUME NEW e \in Endpoint, NEW len \in 1 .. Len(Stream[e]), Write(e, len) PROVE \A f \in Endpoint : Excused(f)
  <2>1. len \in Nat \ {0}
    BY SMT
  <2> DEFINE from == outbound(conn[e]).nwritten
             x == conn_write(conn[e], SubSeq(Stream[e], from + 1, from + len))
  <2>2. Becomes(e, x, {}) /\ Leads(e, conn[e], x)
    BY <1>5, <2>1, WriteLeads DEF Write, reading
  <2>3. x.receiver = conn[e].receiver
    BY CallsKeep
  <2> HIDE DEF x
  <2> QED BY <2>2, <2>3
<1>6. ASSUME NEW e \in Endpoint, End(e) PROVE \A f \in Endpoint : Excused(f)
  BY <1>6, EndLeads, CallsKeep DEF End
<1>7. ASSUME NEW e \in Endpoint, NEW len \in 1 .. Config[e].recv_capacity, Read(e, len)
      PROVE  \A f \in Endpoint : Excused(f)
  <2> DEFINE c == conn[e]
             rcv == with_output(c.receiver, pop_output(stream_out(c.receiver), len))
             x == popped(c, len)
  <2>1. Becomes(e, x, {}) /\ len \in Nat
    BY <1>7, SMT DEF Read, popped
  <2>2. x = [c EXCEPT !.receiver = rcv]
    BY DEF with_output, stream_out, popped
  <2>3. stream_out(rcv).error = stream_out(c.receiver).error
    <3>1. Pops(c.receiver, len, Stream[Peer(e)], Config[e].recv_capacity, Byte, Config[Peer(e)].isn)
      BY <2>1, Endpoints, ReceiverRead DEF Sound, Hears
    <3> QED BY <3>1 DEF Pops
  <2> HIDE DEF rcv
  <2>4. Shape(e, x) /\ x.receiver = rcv
    BY <2>2 DEF Shape
  <2> HIDE DEF x
  <2> QED BY <2>1, <2>3, <2>4, BecameExcused DEF failed, inbound
<1>8. ASSUME NEW e \in Endpoint, NEW seg \in net[e], NEW again \in BOOLEAN, NEW garbage \in found(conn[e]),
             Deliver(e, seg, again, garbage)
      PROVE  \A f \in Endpoint : Excused(f)
  <2> DEFINE c == conn[e]
             x == segment_received(c, seg, garbage)
             taken == IF again THEN {} ELSE {seg}
             A == acknos(Config[e].isn, heard(conn[Peer(e)].receiver))
             fail == failed(conn[Peer(e)])
  <2>1. Becomes(e, x, taken)
    BY <1>8 DEF Deliver
  <2>2. /\ Sound(e, c) /\ Shape(e, c) /\ Hears(e, c.receiver)
        /\ seg \in Pieces(Config[Peer(e)].isn, Stream[Peer(e)], Byte, A, fail)
    BY Endpoints DEF PairInv, Posted, Mail, failed, inbound, Sound
  <2>3. Confirms(c.sender, seg.ackno, Limit(e))
    BY Arrives
  <2> HIDE DEF c, A, fail
  <2>4. Leads(e, c, x)
    BY <2>2, <2>3, SegmentLeads
  <2>5. ~c.active => x = c
    BY DEF segment_received
  <2>6. ~seg.rst => x.receiver \in {c.receiver, receive(c.receiver, seg)}
    BY <2>2, SegmentKeeps
  <2> HIDE DEF x, taken
  <2>7. ~seg.rst => failed(x) = failed(c)
    <3>1. stream_out(receive(c.receiver, seg)).error = stream_out(c.receiver).error
      <4>1. Advances(c.receiver, receive(c.receiver, seg))
        BY <2>2, HearsPiece
      <4> QED BY <4>1 DEF Advances, OnlyMore
    <3> QED BY <2>6, <3>1 DEF failed, inbound
  <2>8. seg.rst => fail
    BY <2>2 DEF Pieces
  <2> QED BY <2>1, <2>4, <2>5, <2>7, <2>8 DEF c, fail
<1>9. ASSUME NEW e \in Endpoint, NEW seg \in net[e], Lose(e, seg) PROVE \A f \in Endpoint : Excused(f)
  BY <1>9 DEF Lose, Excused
<1>10. ASSUME NEW e \in Endpoint, NEW ms \in Elapsed, Tick(e, ms) PROVE \A f \in Endpoint : Excused(f)
  BY <1>10, PairAssumption, TickLeads, TickKeeps DEF Tick
<1>11. ASSUME NEW e \in Endpoint, Destroy(e) PROVE \A f \in Endpoint : Excused(f)
  <2>1. conn[e].active /\ \A f \in Endpoint : f # e => conn'[f] = conn[f]
    BY <1>11 DEF Destroy, PairInv
  <2> QED BY <1>11, <2>1 DEF Excused
<1>12. ASSUME UNCHANGED vars PROVE \A f \in Endpoint : Excused(f)
  BY <1>12 DEF vars, Excused
<1> QED BY <1>4, <1>5, <1>6, <1>7, <1>8, <1>9, <1>10, <1>11, <1>12 DEF Next

\* A connection fails only while it is active, and because its retransmissions are exhausted, its
\* owner destroys it, or a RST arrives, which only a connection that has failed has sent
\* (unclean_shutdown): nothing else that arrives makes one fail, and none fails after its end.
THEOREM FailsForCauseHolds ==
  ASSUME StreamsFit
  PROVE  Spec => FailsForCause
<1> DEFINE Cause == \A e \in Endpoint :
             failed(conn'[e]) /\ ~failed(conn[e]) =>
               /\ conn[e].active
               /\ gave_up(conn'[e]) \/ failed(conn[Peer(e)]) \/ Destroy(e)
<1>1. PairInv /\ PairInv' /\ [Next]_vars => Cause
  BY StepExcused DEF Excused
<1>2. [][Next]_vars /\ []PairInv => [][Cause]_vars
  BY <1>1, PTL
<1> QED BY <1>2, PairInvariant, PTL DEF Spec, FailsForCause

\* From o to p, more of str becomes available or some of it is taken.
Delivers(o, p, str, cap) ==
  \/ /\ p.nwritten \in o.nwritten .. Len(str) /\ p.nwritten <= o.nread + cap
     /\ p.buffer = SubSeq(str, o.nread + 1, p.nwritten)
     /\ p.input_ended \in BOOLEAN /\ (o.input_ended => p.input_ended) /\ (p.input_ended => p.nwritten = Len(str))
     /\ p.nread = o.nread
  \/ /\ p.nread \in o.nread .. o.nwritten
     /\ p.buffer = SubSeq(str, p.nread + 1, o.nwritten)
     /\ p.nwritten = o.nwritten /\ p.input_ended = o.input_ended

\* Every step delivers to the reader of each endpoint, or it takes.
LEMMA StepDelivers ==
  ASSUME NEW e \in Endpoint, NEW c, NEW d, Sound(e, c), Sound(e, d), Steps(e, c, d)
  PROVE  Delivers(inbound(c), inbound(d), Stream[Peer(e)], Config[e].recv_capacity)
<1> DEFINE str == Stream[Peer(e)]
           cap == Config[e].recv_capacity
           o == inbound(c)
           p == inbound(d)
<1>   str \in Seq(Byte) /\ cap \in Nat \ {0} /\ Holds(d.receiver.reassembler, str, cap, Byte) /\ o.nwritten \in Nat
  BY Endpoints, Parts DEF Hears, ReceiverOf
<1>2. /\ p.buffer = SubSeq(str, p.nread + 1, p.nwritten)
      /\ p.nwritten \in 0 .. Len(str) /\ p.nwritten <= p.nread + cap
      /\ p.input_ended \in BOOLEAN /\ (p.input_ended => p.nwritten = Len(str))
  <2>1. \A r : Holds(r, str, cap, Byte) =>
          /\ r.output.buffer = SubSeq(str, r.output.nread + 1, r.output.nwritten)
          /\ r.output.nwritten \in 0 .. Len(str) /\ r.output.nwritten <= r.output.nread + cap
          /\ r.output.input_ended \in BOOLEAN /\ (r.output.input_ended => r.output.nwritten = Len(str))
    <3> HIDE DEF str, cap
    <3> QED BY WaitingIsStretch
  <2> QED BY <2>1 DEF inbound, stream_out
<1>3. p.nwritten >= o.nwritten /\ (o.input_ended => p.input_ended)
  BY DEF Steps, Grows, HeardMore, inbound
<1>4. p.nwritten \in o.nwritten .. Len(str)
  <2> HIDE DEF o, p, str
  <2> QED BY <1>2, <1>3, SMT
<1>5. \/ p.nread = o.nread
      \/ p.nread \in o.nread .. o.nwritten /\ p.nwritten = o.nwritten /\ p.input_ended = o.input_ended
  BY DEF Steps
<1> HIDE DEF o, p, str, cap
<1>6. Delivers(o, p, str, cap)
  BY <1>2, <1>3, <1>4, <1>5 DEF Delivers
<1> QED BY <1>6 DEF o, p, str, cap

\* The reader of each endpoint sees in-order delivery of what the other application wrote,
\* whatever the network loses, repeats, delays or reorders and however the connection ends.
THEOREM BothDeliverHolds ==
  ASSUME StreamsFit
  PROVE  Spec => BothDeliver
<1>1. Init => AtClient!Init /\ AtServer!Init
  <2> SUFFICES ASSUME Init PROVE AtClient!Init /\ AtServer!Init
    OBVIOUS
  <2>1. \A e \in Endpoint : inbound(conn[e]) = new_ByteStream(Config[e].recv_capacity)
    <3>1. \A e \in Endpoint : conn[e] = new_TCPConnection(Config[e], Filler)
      BY DEF Init
    <3> QED BY <3>1, NewSound
  <2>2. "client" \in Endpoint /\ "server" \in Endpoint
    BY DEF Endpoint
  <2>3. \A n : new_ByteStream(n).buffer = << >> /\ new_ByteStream(n).nwritten = 0 /\ new_ByteStream(n).nread = 0
               /\ new_ByteStream(n).input_ended = FALSE
    BY DEF new_ByteStream
  <2> QED BY <2>1, <2>2, <2>3 DEF AtClient!Init, AtServer!Init
<1>2. PairInv /\ PairInv' /\ [Next]_vars => [AtClient!Next]_(AtClient!vars) /\ [AtServer!Next]_(AtServer!vars)
  <2> SUFFICES ASSUME PairInv, PairInv', [Next]_vars
               PROVE  AtClient!Next /\ AtServer!Next
    OBVIOUS
  <2>1. \A e \in Endpoint : Delivers(inbound(conn[e]), inbound(conn'[e]), Stream[Peer(e)], Config[e].recv_capacity)
    <3>1. \A e \in Endpoint : Steps(e, conn[e], conn'[e]) /\ Sound(e, conn[e]) /\ Sound(e, conn'[e])
      BY StepInv DEF PairInv, Kept
    <3> QED BY <3>1, StepDelivers
  <2>2. "client" \in Endpoint /\ "server" \in Endpoint /\ Peer("client") = "server" /\ Peer("server") = "client"
    BY SMT DEF Endpoint, Peer
  <2>3. /\ Delivers(inbound(conn["client"]), inbound(conn'["client"]), Stream["server"], Config["client"].recv_capacity)
        /\ Delivers(inbound(conn["server"]), inbound(conn'["server"]), Stream["client"], Config["server"].recv_capacity)
    BY <2>1, <2>2
  <2>4. AtClient!Next
    BY <2>3 DEF Delivers, AtClient!Next, AtClient!Deliver, AtClient!Take
  <2>5. AtServer!Next
    BY <2>3 DEF Delivers, AtServer!Next, AtServer!Deliver, AtServer!Take
  <2> QED BY <2>4, <2>5
<1> QED BY <1>1, <1>2, PairInvariant, PTL DEF Spec, BothDeliver, AtClient!Spec, AtServer!Spec
=============================================================================
