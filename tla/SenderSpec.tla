------------------------------ MODULE SenderSpec ------------------------------
(***************************************************************************)
(* A TCPSender whose application writes one stream, and a peer whose       *)
(* receiver acknowledges what was sent and whose window is what its reader *)
(* leaves free.  The network delivers acknowledgments late, repeatedly or  *)
(* never.                                                                  *)
(***************************************************************************)
EXTENDS TCPSender, FiniteSets

CONSTANTS
  Byte, Stream, Capacity,  \* the application's stream and the capacity of stream_in
  Isn,                     \* this sender's initial sequence number
  RtTimeout,               \* the initial retransmission timeout, in ticks
  MaxRetx,                 \* TCPConfig::MAX_RETX_ATTEMPTS: the connection ticks no further
  PeerCapacity,            \* the capacity of the peer's receiver
  InOrder,                 \* whether the network may, or may not, reorder acknowledgments
  MaxAcks                  \* how many of them a network that reorders holds

ASSUME SenderSpecAssumption ==
  /\ Stream \in Seq(Byte) /\ Capacity \in Nat \ {0} /\ Isn \in WrappingInt32
  /\ RtTimeout \in Nat \ {0} /\ MaxRetx \in Nat /\ PeerCapacity \in 1 .. WIN_MOD - 1
  /\ InOrder \in SUBSET BOOLEAN \ {{}} /\ MaxAcks \in Nat \ {0}

VARIABLES
  sender,
  peer,  \* the absolute number the peer waits for, and how many bytes its reader has read
  acks,  \* the acknowledgments in the network: absolute ackno and window size
  ordered \* whether the network keeps only the newest of them; never changes

vars == <<sender, peer, acks, ordered>>

Init ==
  /\ sender = new_TCPSender(Capacity, RtTimeout, Isn)
  /\ peer = [acked |-> 0, read |-> 0]
  /\ acks = {}
  /\ ordered \in InOrder

\* TCPConnection takes every segment from segments_out before it returns.
Step(s) == sender' = [s EXCEPT !.segments_out = <<>>]

Connect ==
  /\ ~sender.syn_sent
  /\ Step(fill_window(sender))
  /\ UNCHANGED <<peer, acks, ordered>>

\* TCPConnection::write: stream_in takes what fits.
Write(len) ==
  LET from == sender.stream.nwritten
  IN /\ from + len <= Len(Stream)
     /\ Step(fill_window([sender EXCEPT !.stream = write(@, SubSeq(Stream, from + 1, from + len))]))
     /\ UNCHANGED <<peer, acks, ordered>>

\* TCPConnection::end_input_stream.
End ==
  /\ sender.stream.nwritten = Len(Stream)
  /\ ~sender.stream.input_ended
  /\ Step(fill_window([sender EXCEPT !.stream = end_input(@)]))
  /\ UNCHANGED <<peer, acks, ordered>>

\* One past the FIN.
EndSeq == Len(Stream) + 2

\* The window of a peer: its capacity less what has arrived and is not yet read.
window(p) == PeerCapacity - (MinOf(MaxOf(p.acked - 1, 0), Len(Stream)) - p.read)

\* What may be left of the acknowledgments under way when one more is sent: all, unless
\* there are too many.
kept ==
  IF ordered THEN {{}}
  ELSE IF Cardinality(acks) < MaxAcks THEN {acks} ELSE {acks \ {ack} : ack \in acks}

\* The peer has received more, or its reader has read more, or a segment it already had
\* has come again: it acknowledges.  It takes nothing outside its window, nor the FIN.
Acknowledge(p) ==
  /\ sender.syn_sent
  /\ p.acked \in MaxOf(1, peer.acked) .. sender.next_seqno
  /\ p.read \in peer.read .. MinOf(p.acked - 1, Len(Stream))
  /\ window(p) >= (IF p.acked = EndSeq THEN 1 ELSE 0)
  /\ peer' = p
  /\ acks' \in {others \cup {[ackno |-> p.acked, win |-> window(p)]} : others \in kept}
  /\ UNCHANGED <<sender, ordered>>

\* What _ack_valid may find where it looks for the oldest outstanding segment.
found == IF sender.segments_outstanding = <<>> THEN BOOLEAN ELSE {FALSE}

\* An acknowledgment arrives, perhaps not for the last time.
AckArrives(ack, garbage) ==
  /\ Step(ack_received(sender, wrap(ack.ackno, Isn), ack.win, garbage))
  /\ UNCHANGED <<peer, acks, ordered>>

Tick ==
  /\ sender.timer_running
  /\ sender.consecutive_retransmissions <= MaxRetx
  /\ Step(sender_tick(sender, 1))
  /\ UNCHANGED <<peer, acks, ordered>>

Next ==
  \/ Connect
  \/ \E len \in 1 .. Len(Stream) : Write(len)
  \/ End
  \/ \E p \in [acked : 1 .. EndSeq, read : 0 .. Len(Stream)] : Acknowledge(p)
  \/ \E ack \in acks, garbage \in found : AckArrives(ack, garbage)
  \/ Tick

Spec == Init /\ [][Next]_vars
-----------------------------------------------------------------------------
\* The sender's fields keep their types; the 16-bit fields stay in range.
TypeOK ==
  /\ sender.stream \in ByteStreams(Byte)
  /\ sender.next_seqno \in Nat /\ sender.bytes_in_flight \in 0 .. sender.next_seqno
  /\ sender.receiver_window_size \in 0 .. WIN_MOD - 1
  /\ sender.receiver_free_space \in 0 .. WIN_MOD - 1
  /\ sender.rto \in Nat /\ sender.time_elapsed \in 0 .. sender.rto - 1
  /\ \A ack \in acks : ack.ackno \in Nat /\ ack.win \in 0 .. WIN_MOD - 1

\* The first number the sender still keeps.
una == sender.next_seqno - sender.bytes_in_flight

\* What the sender keeps for retransmission is exactly what it has sent and not seen
\* acknowledged: the outstanding segments tile una .. next_seqno-1 without gap or
\* overlap, each carries the bytes of the stream that belong at its place, SYN is on
\* number 0 only and FIN on the last number only.
OutstandingTiles ==
  LET out == sender.segments_outstanding
      start(i) == abs_start(sender, out[i])
  IN /\ \A i \in 1 .. Len(out) :
          /\ start(i) = IF i = 1 THEN una ELSE abs_end(sender, out[i - 1])
          /\ length_in_sequence_space(out[i]) > 0 /\ Len(out[i].payload) <= MAX_PAYLOAD_SIZE
          /\ out[i].syn <=> start(i) = 0
          /\ out[i].fin <=> abs_end(sender, out[i]) = EndSeq
          /\ \A k \in 1 .. Len(out[i].payload) : out[i].payload[k] = Stream[start(i) + k - 1]
     /\ sender.next_seqno = IF out = <<>> THEN una ELSE abs_end(sender, out[Len(out)])

\* Every number sent is the SYN, a byte read from the stream, or the FIN, and the FIN is
\* sent only behind the last byte.
SentIsRead ==
  /\ sender.next_seqno = bit(sender.syn_sent) + sender.stream.nread + bit(sender.fin_sent)
  /\ sender.fin_sent => eof(sender.stream)

\* The sender forgets only what the peer has acknowledged, however stale or repeated the
\* acknowledgments it sees.
ForgetsOnlyAcked == una <= peer.acked

\* The sender never sleeps on work: after the SYN, bytes or an end of the stream that
\* are still to be sent always have a running timer to bring the sender back.
NeverIdle ==
  /\ sender.timer_running <=> sender.segments_outstanding # <<>>
  /\ sender.syn_sent /\ (~buffer_empty(sender.stream) \/ (sender.stream.input_ended /\ ~sender.fin_sent))
       => sender.timer_running

\* The timeout has doubled once per consecutive retransmission and is back at its
\* initial value as soon as something is acknowledged.
Backoff == sender.rto = RtTimeout * 2 ^ sender.consecutive_retransmissions

\* The sender stays inside the window the peer has opened, but for one number against a
\* closed window: tcp_sender.hh:49-57 computes the free space for the worst case, in
\* which everything in flight already fills the receiver.
WindowRespected ==
  LET edge == peer.acked + window(peer)
  IN \/ sender.next_seqno <= edge
     \/ sender.next_seqno = edge + 1 /\ sender.bytes_in_flight = 1

\* As long as no acknowledgment overtakes another it does stay inside the window.
WindowRespectedInOrder == ordered => WindowRespected
=============================================================================
