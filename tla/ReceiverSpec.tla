----------------------------- MODULE ReceiverSpec -----------------------------
(***************************************************************************)
(* A TCPReceiver and a peer that sends one stream: segments are any        *)
(* slices of SYN, stream, FIN, and the network loses, repeats and reorders *)
(* them at will.  A reader takes bytes from the output.                    *)
(***************************************************************************)
EXTENDS ReassembledStream, TCPReceiver

CONSTANTS
  Byte,      \* the values a byte may have
  Filler,    \* what the ring holds before anything is stored: 0 in the code
  Stream,    \* the sender's whole stream: a sequence of bytes
  Capacity,  \* the capacity of the ring and of the output
  Isn        \* the peer's initial sequence number

ASSUME StreamAssumption == Stream \in Seq(Byte) /\ Filler \in Byte
ASSUME CapacityAssumption == Capacity \in Nat \ {0}
ASSUME IsnAssumption == Isn \in WrappingInt32

VARIABLES
  receiver,
  arrived    \* the absolute sequence numbers some segment has carried here so far

vars == <<receiver, arrived>>

\* One past the FIN.
EndSeq == Len(Stream) + 2

\* The peer's segment that covers len sequence numbers from absolute number abs.
Slice(abs, len) ==
  [new_TCPSegment EXCEPT
     !.seqno = wrap(abs, Isn),
     !.syn = abs = 0 /\ len > 0,
     !.fin = len > 0 /\ abs + len = EndSeq,
     !.payload = SubSeq(Stream, MaxOf(abs, 1), MinOf(abs + len - 1, Len(Stream)))]

\* A segment lives in the network too short a time to be half the sequence space away.
Recent(abs) ==
  LET checkpoint == stream_out(receiver).nwritten
  IN abs < checkpoint + HalfSeq /\ checkpoint <= abs + HalfSeq

Init == receiver = new_TCPReceiver(Capacity, Filler) /\ arrived = {}

\* A segment arrives.
Arrive(abs, len) ==
  /\ Recent(abs)
  /\ abs + len <= EndSeq
  /\ receiver' = receive(receiver, Slice(abs, len))
  /\ arrived' = arrived \cup (abs .. abs + len - 1)

\* The reader takes up to len bytes.
Read(len) ==
  /\ ~buffer_empty(stream_out(receiver))
  /\ receiver' = [receiver EXCEPT !.reassembler.output = pop_output(@, len)]
  /\ UNCHANGED arrived

Next ==
  \/ \E abs, len \in 0 .. EndSeq : Arrive(abs, len)
  \/ \E len \in 1 .. Capacity : Read(len)

Spec == Init /\ [][Next]_vars

\* What the receiver waits for next; 0 before the SYN has arrived.
NextSeq == IF has_ackno(receiver) THEN abs_ackno(receiver) ELSE 0
-----------------------------------------------------------------------------
\* The receiver is a record of its fields, each of its type.
TypeOK ==
  /\ receiver \in [reassembler : ReassemblerType(Capacity, Byte, Nat), isn : WrappingInt32 \cup {NoIsn},
                   fin_abs_seq : Nat]
  /\ arrived \subseteq Nat

\* Sequence numbers are turned into the right stream indices, across any number of
\* wraps: the reassembler holds the peer's stream.  Before the SYN nothing is kept,
\* and the end is known exactly when a FIN was accepted whole.
ReceiverHolds ==
  /\ Holds(receiver.reassembler, Stream, Capacity, Byte)
  /\ receiver.isn \in {NoIsn, Isn}
  /\ ~has_ackno(receiver) => receiver.reassembler = new_StreamReassembler(Capacity, Filler)
  /\ receiver.fin_abs_seq = IF receiver.reassembler.eof_index = NoEof THEN 0 ELSE EndSeq

\* The receiver acknowledges nothing that has not arrived, the SYN and the FIN included.
AcksOnlyArrived == has_ackno(receiver) => 0 .. abs_ackno(receiver) - 1 \subseteq arrived

\* The FIN is acknowledged exactly when the output has ended: a peer that sees its FIN
\* acknowledged knows that every byte is available to the reader.
FinAckedIffEnded ==
  has_ackno(receiver) => (abs_ackno(receiver) = EndSeq <=> stream_out(receiver).input_ended)

\* The left edge of the advertised window never moves back and its right edge never
\* shrinks: what the peer was once allowed to send stays allowed.
WindowNeverShrinks ==
  [][has_ackno(receiver) =>
       /\ abs_ackno(receiver') >= abs_ackno(receiver)
       /\ abs_ackno(receiver') + window_size(receiver') >=
            abs_ackno(receiver) + window_size(receiver)]_vars

\* The reader sees nothing but in-order delivery of the peer's stream.
Delivery == INSTANCE InOrderDelivery WITH
  waiting <- stream_out(receiver).buffer, delivered <- stream_out(receiver).nwritten,
  taken <- stream_out(receiver).nread, ended <- stream_out(receiver).input_ended
ImplementsDelivery == Delivery!Spec

\* No state makes the receiver refuse what it waits for: a peer that retransmits the
\* next number, alone or with all that follows, always gets ahead unless the window is
\* closed, and then there is something for the reader to take, which opens it.
NeverStuck ==
  NextSeq < EndSeq =>
    IF window_size(receiver) = 0 THEN ~buffer_empty(stream_out(receiver))
    ELSE \A len \in 1 .. EndSeq - NextSeq :
           LET next == receive(receiver, Slice(NextSeq, len))
           IN has_ackno(next) /\ abs_ackno(next) > NextSeq
=============================================================================
