--------------------------- MODULE ReassemblerSpec ---------------------------
(***************************************************************************)
(* A StreamReassembler fed with substrings of one stream in any order,     *)
(* overlapping and repeated, while a reader takes bytes from its output.   *)
(***************************************************************************)
EXTENDS ReassembledStream

CONSTANTS
  Byte,      \* the values a byte may have
  Filler,    \* what the ring holds before anything is stored: 0 in the code
  Stream,    \* the sender's whole stream: a sequence of bytes
  Capacity   \* the capacity of the ring and of the output

ASSUME StreamAssumption == Stream \in Seq(Byte) /\ Filler \in Byte
ASSUME CapacityAssumption == Capacity \in Nat \ {0}

VARIABLE reassembler

vars == <<reassembler>>

Init == reassembler = new_StreamReassembler(Capacity, Filler)

\* The last substring may be marked as such, or end where the stream ends and not
\* say so (the FIN that follows it was outside the window).
Push(index, len, last) ==
  /\ index + len <= Len(Stream)
  /\ last => index + len = Len(Stream)
  /\ reassembler' = push_substring(reassembler, Substring(Stream, index, len), index, last)

Read(len) ==
  /\ ~buffer_empty(reassembler.output)
  /\ reassembler' = [reassembler EXCEPT !.output = pop_output(@, len)]

Next ==
  \/ \E index, len \in 0 .. Len(Stream), last \in BOOLEAN : Push(index, len, last)
  \/ \E len \in 1 .. Capacity : Read(len)

Spec == Init /\ [][Next]_vars
-----------------------------------------------------------------------------
\* The reassembler is a record of its fields, each of its type.
TypeOK == reassembler \in ReassemblerType(Capacity, Byte, Nat)

\* Whatever the order of the substrings, the output holds the stretch of the stream
\* the reader has not taken yet, the ring holds bytes of the stream at their own
\* index and never confuses bytes a capacity apart, and the output is ended exactly
\* when a substring was marked last and every byte has been written.
HoldsStream == Holds(reassembler, Stream, Capacity, Byte)

\* The running count of unassembled bytes, kept by increments and decrements, is
\* the number of occupied slots.
UnassembledCount == reassembler.unassembled_bytes = Cardinality(Occupied(reassembler))

\* A byte that has arrived is never dropped: it stays in its slot until the output
\* has taken it.
ArrivedBytesStay ==
  [][\A i \in reassembler'.rpos .. reassembler.rpos + Capacity - 1 :
       reassembler.bit_map[i % Capacity] => reassembler'.bit_map[i % Capacity]]_vars

\* A push leaves nothing behind that it could deliver: the next byte is still in
\* the ring only if the output is full.
PushDeliversAll ==
  [][\/ reassembler'.output.nread > reassembler.output.nread
     \/ reassembler'.bit_map[reassembler'.rpos % Capacity] =>
          remaining_capacity(reassembler'.output) = 0]_vars

\* The reader sees nothing but in-order delivery of the stream.
Delivery == INSTANCE InOrderDelivery WITH
  waiting <- reassembler.output.buffer, delivered <- reassembler.output.nwritten,
  taken <- reassembler.output.nread, ended <- reassembler.output.input_ended
ImplementsDelivery == Delivery!Spec

\* stream_reassembler.hh:38-39: "This capacity limits both the bytes that have been
\* reassembled, and those that have not yet been reassembled."
WithinCapacity ==
  buffer_size(reassembler.output) + reassembler.unassembled_bytes <= Capacity
=============================================================================
