--------------------------- MODULE ReceiverProofs ---------------------------
(***************************************************************************)
(* The receiver feeds the reassembler the right bytes, for every stream,   *)
(* capacity, modulus and initial sequence number: with what has arrived,   *)
(* ReceiverHolds is inductive, every step is one of in-order delivery, and *)
(* no state makes the receiver refuse what it waits for.                   *)
(***************************************************************************)
EXTENDS ReceiverSpec, ReceiverLemmas, FiniteSetTheorems

\* A slice is a piece of the stream, with the SYN and the FIN where they are, that covers
\* len numbers.
LEMMA SliceIsCut ==
  ASSUME NEW abs \in Nat, NEW len \in Nat, abs + len <= EndSeq
  PROVE  Cut(Slice(abs, len), abs, Isn, Stream) /\ length_in_sequence_space(Slice(abs, len)) = len
<1> DEFINE seg == Slice(abs, len)
           from == MaxOf(abs, 1)
           to == MinOf(abs + len - 1, Len(Stream))
           n == Len(seg.payload)
<1>1. /\ seg.seqno = wrap(abs, Isn) /\ seg.payload = SubSeq(Stream, from, to)
      /\ seg.syn = (abs = 0 /\ len > 0) /\ seg.fin = (len > 0 /\ abs + len = EndSeq)
  BY Zenon DEF Slice, new_TCPSegment
<1>2. Stream \in Seq(Byte) /\ Len(Stream) \in Nat
  BY StreamAssumption
<1>3. from \in Nat /\ to \in Int /\ from >= 1 /\ to <= Len(Stream) /\ from = Index(abs) + 1 /\ to <= abs + len - 1
  BY <1>2 DEF MaxOf, MinOf, Index
<1>4. n = IF from <= to THEN to - from + 1 ELSE 0
  <2>1. CASE from <= to
    BY <1>1, <1>2, <1>3, <2>1
  <2>2. CASE from > to
    BY <1>1, <1>2, <1>3, <2>2
  <2> QED BY <1>3, <2>1, <2>2
<1>5. Index(abs) \in Nat /\ seg.payload = Substring(Stream, Index(abs), n)
  <2>1. Index(abs) \in Nat
    BY DEF Index
  <2>2. CASE from <= to
    <3>1. Index(abs) + n = to
      BY <1>3, <1>4, <2>1, <2>2
    <3> QED BY <1>1, <1>3, <2>1, <3>1 DEF Substring
  <2>3. CASE from > to
    <3>1. n = 0
      BY <1>3, <1>4, <2>3
    <3>2. SubSeq(Stream, from, to) = << >> /\ SubSeq(Stream, from, Index(abs) + 0) = << >>
      BY <1>2, <1>3, <2>1, <2>3
    <3> QED BY <1>1, <1>3, <2>1, <3>1, <3>2 DEF Substring
  <2> QED BY <1>3, <2>2, <2>3
<1> HIDE DEF n, seg
<1>6. /\ n \in Nat /\ (n # 0 => Index(abs) + n <= Len(Stream))
      /\ len > 0 /\ abs + len = EndSeq => Index(abs) + n = Len(Stream)
  <2>1. to = IF abs + len - 1 <= Len(Stream) THEN abs + len - 1 ELSE Len(Stream)
    BY DEF MinOf
  <2> HIDE DEF from, to
  <2>2. n \in Nat
    BY <1>3, <1>4
  <2>4. n # 0 => Index(abs) + n = to
    BY <1>3, <1>4, <1>5
  <2>3. ASSUME len > 0, abs + len = EndSeq PROVE Index(abs) + n = Len(Stream)
    <3>1. to = Len(Stream) /\ from <= Len(Stream) + 1
      BY <1>2, <1>3, <2>1, <2>3 DEF EndSeq, Index
    <3> QED BY <1>2, <1>3, <1>4, <1>5, <3>1
  <2> QED BY <1>2, <1>3, <2>2, <2>3, <2>4
<1>7. /\ bit(seg.syn) = IF abs = 0 /\ len > 0 THEN 1 ELSE 0
      /\ bit(seg.fin) = IF len > 0 /\ abs + len = EndSeq THEN 1 ELSE 0
  BY <1>1, Zenon DEF bit
<1>8. n + bit(seg.syn) + bit(seg.fin) = len
  <2>1. to = IF abs + len - 1 <= Len(Stream) THEN abs + len - 1 ELSE Len(Stream)
    BY DEF MinOf
  <2>2. from = IF abs = 0 THEN 1 ELSE abs
    BY DEF MaxOf
  <2> HIDE DEF from, to
  <2>3. CASE len = 0
    <3>1. n = 0
      BY <1>2, <1>3, <1>4, <2>1, <2>2, <2>3
    <3> QED BY <1>7, <2>3, <3>1
  <2>4. CASE len > 0 /\ abs + len = EndSeq
    <3>1. n = IF abs = 0 THEN len - 2 ELSE len - 1
      BY <1>2, <1>5, <1>6, <2>4 DEF EndSeq, Index
    <3> QED BY <1>7, <2>4, <3>1
  <2>5. CASE len > 0 /\ abs + len < EndSeq
    <3>1. to = abs + len - 1
      BY <1>2, <2>1, <2>5 DEF EndSeq
    <3>2. n = IF abs = 0 THEN len - 1 ELSE len
      BY <1>4, <2>2, <2>5, <3>1
    <3>3. bit(seg.fin) = 0 /\ bit(seg.syn) = IF abs = 0 THEN 1 ELSE 0
      BY <1>2, <1>7, <2>5 DEF EndSeq
    <3> QED BY <2>5, <3>2, <3>3
  <2> QED BY <1>2, <2>3, <2>4, <2>5 DEF EndSeq
<1>9. length_in_sequence_space(seg) = len
  BY <1>8, Zenon DEF length_in_sequence_space, n
<1> QED BY <1>1, <1>5, <1>6, <1>9, Zenon DEF Cut, EndSeq, n, seg

\* What the receiver has of the stream, in the ring as in the output, some segment has
\* carried, and so have its SYN and its FIN.
AllArrived ==
  /\ arrived \subseteq Nat
  /\ \A i \in Known(receiver.reassembler, Capacity) : i + 1 \in arrived
  /\ has_ackno(receiver) => 0 \in arrived
  /\ receiver.fin_abs_seq # 0 => EndSeq - 1 \in arrived

\* The inductive invariant: ReceiverHolds, with the shape of the record, the count and
\* what has arrived.
Inv ==
  /\ ReceiverOf(receiver, Stream, Capacity, Byte, Isn) /\ CountExact(receiver.reassembler)
  /\ ~has_ackno(receiver) => receiver.reassembler = new_StreamReassembler(Capacity, Filler)
  /\ AllArrived

\* The assumptions on the constants, as the lemmas on receivers need them.
LEMMA Constants ==
  /\ Stream \in Seq(Byte) /\ Capacity \in Nat \ {0} /\ Isn \in WrappingInt32 /\ Filler \in Byte
  /\ Len(Stream) \in Nat /\ EndSeq = Len(Stream) + 2 /\ EndSeq \in Nat
BY StreamAssumption, CapacityAssumption, IsnAssumption DEF EndSeq

\* The count of stored bytes rests on these facts about finite sets.
LEMMA CountingHolds == Counting
<1>1. /\ \A a, b \in Int : IsFiniteSet(a .. b) /\ Cardinality(a .. b) = IF a > b THEN 0 ELSE b - a + 1
      /\ Cardinality({}) = 0
  BY FS_Interval, FS_EmptySet
<1>2. /\ \A S : IsFiniteSet(S) => Cardinality(S) \in Nat
      /\ \A S : IsFiniteSet(S) => \A T \in SUBSET S : IsFiniteSet(T)
  BY FS_CardinalityType, FS_Subset, Zenon
<1>3. \A S, T : IsFiniteSet(S) /\ IsFiniteSet(T) =>
        Cardinality(S \cup T) = Cardinality(S) + Cardinality(T) - Cardinality(S \cap T)
  BY FS_Union, Zenon
<1>4. \A S, T : IsFiniteSet(S) => Cardinality(S \ T) = Cardinality(S) - Cardinality(S \cap T)
  BY FS_Difference, Zenon
<1>5. \A S, T : IsFiniteSet(S) /\ Bijection(S, T) # {} => IsFiniteSet(T) /\ Cardinality(T) = Cardinality(S)
  BY FS_Bijection, Zenon DEF ExistsBijection
<1> QED BY <1>1, <1>2, <1>3, <1>4, <1>5, Zenon DEF Counting

\* segment_received, of any recent slice, pushes the right bytes at the right index, and
\* marks them last exactly when they are.
LEMMA ArriveHolds ==
  ASSUME Inv, NEW abs \in 0 .. EndSeq, NEW len \in 0 .. EndSeq, Arrive(abs, len)
  PROVE  Inv' /\ Advances(receiver, receiver')
<1> DEFINE seg == Slice(abs, len)
           r == receiver.reassembler
           t == receive(receiver, seg)
           n == Len(seg.payload)
<1>1. /\ abs \in Nat /\ len \in Nat /\ abs + len <= EndSeq
      /\ receiver' = t /\ arrived' = arrived \cup (abs .. abs + len - 1)
      /\ abs < stream_out(receiver).nwritten + HalfSeq /\ stream_out(receiver).nwritten <= abs + HalfSeq
  BY Constants DEF Arrive, Recent
<1>2. Cut(seg, abs, Isn, Stream) /\ length_in_sequence_space(seg) = len
  BY <1>1, SliceIsCut, Zenon
<1>3. /\ ReceiverOf(receiver, Stream, Capacity, Byte, Isn) /\ CountExact(r) /\ AllArrived
      /\ ~has_ackno(receiver) => r = new_StreamReassembler(Capacity, Filler)
  BY Zenon DEF Inv
<1> HIDE DEF seg
<1>4. /\ ReceiverOf(t, Stream, Capacity, Byte, Isn) /\ Advances(receiver, t) /\ CountExact(t.reassembler)
      /\ has_ackno(t) /\ ~has_ackno(receiver) => seg.syn
      /\ ~has_ackno(t) => t = receiver
      /\ t.fin_abs_seq # receiver.fin_abs_seq => seg.fin
      /\ Known(t.reassembler, Capacity) \subseteq Known(r, Capacity) \cup (Index(abs) .. Index(abs) + n - 1)
  <2>1. LET u == receive(receiver, seg)
            m == Len(seg.payload)
        IN /\ ReceiverOf(u, Stream, Capacity, Byte, Isn) /\ Advances(receiver, u)
           /\ has_ackno(u) /\ ~has_ackno(receiver) => seg.syn
           /\ ~has_ackno(u) => u = receiver
           /\ u.fin_abs_seq # receiver.fin_abs_seq => seg.fin
           /\ Known(u.reassembler, Capacity) \subseteq
                Known(receiver.reassembler, Capacity) \cup (Index(abs) .. Index(abs) + m - 1)
           /\ Counting /\ CountExact(receiver.reassembler) => CountExact(u.reassembler)
    BY <1>1, <1>2, <1>3, Constants, ReceiveHolds
  <2> QED BY <1>3, <2>1, CountingHolds, Zenon
<1>5. /\ seg.syn => abs = 0 /\ len > 0
      /\ seg.fin => len > 0 /\ abs + len = EndSeq
  BY <1>2, Constants, Zenon DEF Cut
<1>6. /\ n \in Nat /\ Index(abs) \in Nat /\ \A k \in 1 .. n : Index(abs) + k \in abs .. abs + len - 1
  <2>1. LET m == Len(seg.payload)
        IN /\ m \in Nat /\ Index(abs) \in Nat
           /\ \A k \in 1 .. m : Index(abs) + k \in abs .. abs + length_in_sequence_space(seg) - 1
    BY <1>1, <1>2, Constants, CutSpec
  <2> QED BY <1>2, <2>1, Zenon
<1> HIDE DEF t, n
<1>7. AllArrived'
  <2>1. arrived' \subseteq Nat
    BY <1>1, <1>3 DEF AllArrived
  <2>2. ASSUME NEW i \in Known(t.reassembler, Capacity) PROVE i + 1 \in arrived'
    <3>1. CASE i \in Known(r, Capacity)
      BY <1>1, <1>3, <3>1, Zenon DEF AllArrived
    <3>2. CASE i \in Index(abs) .. Index(abs) + n - 1
      <4> DEFINE k == i - Index(abs) + 1
      <4>1. k \in 1 .. n /\ Index(abs) + k = i + 1
        BY <1>6, <3>2
      <4> HIDE DEF k
      <4> QED BY <1>1, <1>6, <4>1, Zenon
    <3> QED BY <1>4, <3>1, <3>2, Zenon
  <2>3. seg.syn => 0 \in abs .. abs + len - 1
    BY <1>1, <1>5
  <2>4. seg.fin => EndSeq - 1 \in abs .. abs + len - 1
    BY <1>1, <1>5, Constants
  <2>5. has_ackno(t) => 0 \in arrived'
    BY <1>1, <1>3, <1>4, <2>3, Zenon DEF AllArrived
  <2>6. t.fin_abs_seq # 0 => EndSeq - 1 \in arrived'
    BY <1>1, <1>3, <1>4, <2>4, Zenon DEF AllArrived
  <2> QED BY <1>1, <2>1, <2>2, <2>5, <2>6, Zenon DEF AllArrived
<1> QED BY <1>1, <1>3, <1>4, <1>7, Zenon DEF Inv

\* A reader that takes bytes from the output leaves the rest of the receiver alone.
LEMMA ReadHolds ==
  ASSUME Inv, NEW len \in 1 .. Capacity, Read(len)
  PROVE  /\ Inv'
         /\ has_ackno(receiver') = has_ackno(receiver) /\ receiver'.fin_abs_seq = receiver.fin_abs_seq
         /\ stream_out(receiver').nread \in stream_out(receiver).nread .. stream_out(receiver).nwritten
         /\ stream_out(receiver').nwritten = stream_out(receiver).nwritten
         /\ stream_out(receiver').input_ended = stream_out(receiver).input_ended
<1> DEFINE r == receiver.reassembler
           p == pop_output(r.output, len)
           s == [r EXCEPT !.output = p]
<1>1. /\ receiver \in [reassembler : {r}, isn : {NoIsn, Isn}, fin_abs_seq : Nat]
      /\ Holds(r, Stream, Capacity, Byte) /\ CountExact(r)
      /\ ~has_ackno(receiver) => r = new_StreamReassembler(Capacity, Filler)
      /\ receiver.fin_abs_seq = IF r.eof_index = NoEof THEN 0 ELSE Len(Stream) + 2
  BY Zenon DEF Inv, ReceiverOf
<1>2. len \in Nat
  BY CapacityAssumption
<1>3. /\ Holds(s, Stream, Capacity, Byte) /\ s.output = p
      /\ p.nread \in r.output.nread .. r.output.nwritten /\ p.nwritten = r.output.nwritten
      /\ p.input_ended = r.output.input_ended
  <2>1. LET q == pop_output(r.output, len)
            t == [r EXCEPT !.output = q]
        IN /\ Holds(t, Stream, Capacity, Byte) /\ t.output = q
           /\ q.nread \in r.output.nread .. r.output.nwritten /\ q.nwritten = r.output.nwritten
           /\ q.input_ended = r.output.input_ended
    BY <1>1, <1>2, Constants, PopHolds
  <2> QED BY <2>1, Zenon
<1>4. receiver' = [receiver EXCEPT !.reassembler = s] /\ arrived' = arrived
  BY <1>1, Zenon DEF Read
<1> HIDE DEF p
<1>5. /\ s.eof_index = r.eof_index /\ s.rpos = r.rpos /\ s.bit_map = r.bit_map
      /\ s.unassembled_bytes = r.unassembled_bytes /\ s.capacity = r.capacity
  BY <1>1, Zenon DEF Holds, ReassemblerType
<1> HIDE DEF s
<1>6. Known(s, Capacity) = Known(r, Capacity) /\ CountExact(s)
  BY <1>1, <1>5, Zenon DEF Known, CountExact, Occupied
<1>7. /\ receiver'.isn = receiver.isn /\ receiver'.reassembler = s
      /\ receiver'.fin_abs_seq = receiver.fin_abs_seq
      /\ receiver' \in [reassembler : {s}, isn : {NoIsn, Isn}, fin_abs_seq : Nat]
  BY <1>1, <1>4, Zenon
<1>8. has_ackno(receiver)
  <2> SUFFICES ASSUME ~has_ackno(receiver) PROVE FALSE
    OBVIOUS
  <2>1. r.output.buffer = << >>
    <3>1. r = new_StreamReassembler(Capacity, Filler)
      BY <1>1
    <3>2. new_StreamReassembler(Capacity, Filler).output = new_ByteStream(Capacity)
      BY Zenon DEF new_StreamReassembler
    <3>3. new_ByteStream(Capacity).buffer = << >>
      BY Zenon DEF new_ByteStream
    <3> HIDE DEF r
    <3> QED BY <3>1, <3>2, <3>3, Zenon
  <2>2. Len(r.output.buffer) # 0
    BY Zenon DEF Read, buffer_empty, buffer_size, stream_out
  <2> QED BY <2>1, <2>2
<1>9. AllArrived'
  BY <1>4, <1>6, <1>7, Zenon DEF Inv, AllArrived, has_ackno
<1>10. ReceiverOf(receiver', Stream, Capacity, Byte, Isn)
  BY <1>1, <1>3, <1>5, <1>7, Zenon DEF ReceiverOf
<1>11. Inv'
  BY <1>6, <1>7, <1>8, <1>9, <1>10, Zenon DEF Inv, has_ackno
<1> QED BY <1>3, <1>7, <1>11, Zenon DEF has_ackno, stream_out

\* The invariant is inductive.
LEMMA InvInductive == Inv /\ [Next]_vars => Inv'
<1> SUFFICES ASSUME Inv, [Next]_vars PROVE Inv'
  OBVIOUS
<1>1. ASSUME NEW abs \in 0 .. EndSeq, NEW len \in 0 .. EndSeq, Arrive(abs, len) PROVE Inv'
  BY <1>1, ArriveHolds, Zenon
<1>2. ASSUME NEW len \in 1 .. Capacity, Read(len) PROVE Inv'
  BY <1>2, ReadHolds, Zenon
<1>3. CASE UNCHANGED vars
  BY <1>3, Zenon DEF vars, Inv, AllArrived, has_ackno
<1> QED BY <1>1, <1>2, <1>3, Zenon DEF Next

\* It holds at first and so always.
LEMMA InvCorrect == Spec => []Inv
<1>1. ASSUME Init PROVE Inv
  <2> DEFINE r == new_StreamReassembler(Capacity, Filler)
  <2>1. Holds(r, Stream, Capacity, Byte) /\ CountExact(r)
    BY Constants, NewHolds, NewExact, CountingHolds, Zenon
  <2>2. r.eof_index = NoEof
    BY Zenon DEF new_StreamReassembler
  <2> HIDE DEF r
  <2>3. receiver = [reassembler |-> r, isn |-> NoIsn, fin_abs_seq |-> 0] /\ arrived = {}
    BY <1>1, Zenon DEF Init, new_TCPReceiver, r
  <2>4. receiver.reassembler = r /\ receiver.isn = NoIsn /\ receiver.fin_abs_seq = 0
    BY <2>3, Zenon
  <2>5. 0 \in Nat
    OBVIOUS
  <2>6. ReceiverOf(receiver, Stream, Capacity, Byte, Isn)
    BY <2>1, <2>2, <2>3, <2>4, <2>5, Zenon DEF ReceiverOf
  <2>7. Known(r, Capacity) = {}
    <3>1. r.rpos = 0 /\ r.bit_map = [b \in Slots(Capacity) |-> FALSE]
      BY Zenon DEF r, new_StreamReassembler
    <3>2. \A i \in Nat : ~(i < r.rpos)
      BY <3>1
    <3>3. \A i \in Nat : i % Capacity \in Slots(Capacity)
      BY Constants, SlotOf, Zenon
    <3> QED BY <3>1, <3>2, <3>3, Zenon DEF Known
  <2>8. AllArrived
    BY <2>3, <2>4, <2>7, Zenon DEF AllArrived, has_ackno
  <2> QED BY <2>1, <2>4, <2>6, <2>8, Zenon DEF Inv, r
<1> QED BY <1>1, InvInductive, PTL DEF Spec

\* The fields of a TCPReceiver keep their types.
THEOREM TypeCorrect == Spec => []TypeOK
<1>1. ASSUME Inv PROVE TypeOK
  <2> DEFINE r == receiver.reassembler
  <2>1. /\ receiver \in [reassembler : {r}, isn : {NoIsn, Isn}, fin_abs_seq : Nat]
        /\ Holds(r, Stream, Capacity, Byte) /\ CountExact(r)
    BY <1>1, Zenon DEF Inv, ReceiverOf
  <2>2. r.unassembled_bytes \in Nat
    <3>1. Cardinality(Occupied(r)) \in Nat
      BY <2>1, Constants, OccupiedFinite, CountingHolds, Zenon
    <3> QED BY <2>1, <3>1, Zenon DEF CountExact
  <2>3. r \in ReassemblerType(Capacity, Byte, Nat)
    BY <2>1, <2>2 DEF Holds, ReassemblerType
  <2> HIDE DEF r
  <2> QED BY <1>1, <2>1, <2>3, Constants, Zenon DEF Inv, AllArrived, TypeOK
<1> QED BY <1>1, InvCorrect, PTL

\* Whatever the stream, the capacity, the modulus and the initial sequence number, and
\* however recent segments are lost, repeated, reordered and cut, segment_received turns
\* sequence numbers into the right stream indices: the reassembler holds the peer's stream.
THEOREM ReceiverHoldsCorrect == Spec => []ReceiverHolds
<1>1. ASSUME Inv PROVE ReceiverHolds
  BY <1>1, Zenon DEF Inv, ReceiverOf, ReceiverHolds, EndSeq
<1> QED BY <1>1, InvCorrect, PTL

\* Where the window of the receiver lies, in the counters of its output.
LEMMA Window ==
  ASSUME NEW rcv, ReceiverOf(rcv, Stream, Capacity, Byte, Isn)
  PROVE  LET o == stream_out(rcv)
             f == IF rcv.fin_abs_seq # 0 /\ o.nwritten = Len(Stream) THEN 1 ELSE 0
         IN /\ o.nwritten \in Nat /\ o.nread \in Nat
            /\ o.nwritten <= Len(Stream) /\ o.nwritten = rcv.reassembler.rpos
            /\ abs_ackno(rcv) = 1 + o.nwritten + f
            /\ abs_ackno(rcv) + window_size(rcv) = 1 + Capacity + o.nread + f
            /\ window_size(rcv) = Capacity - Len(o.buffer) /\ Len(o.buffer) \in 0 .. Capacity
<1>1. Edges(rcv, Stream, Capacity)
  BY Constants, WindowEdges, Zenon
<1> QED BY <1>1, Zenon DEF Edges

\* The FIN is acknowledged exactly when the output has ended, so a peer whose FIN is
\* acknowledged knows that every byte reached the reader's side.
THEOREM FinAckedCorrect == Spec => []FinAckedIffEnded
<1>1. ASSUME Inv PROVE FinAckedIffEnded
  <2> DEFINE o == stream_out(receiver)
             e == receiver.reassembler.eof_index
  <2>1. /\ o.nwritten \in 0 .. Len(Stream) /\ Len(Stream) \in Nat
        /\ e \in {NoEof, Len(Stream)} /\ (o.input_ended <=> o.nwritten = e)
        /\ receiver.fin_abs_seq = IF e = NoEof THEN 0 ELSE EndSeq
    <3>1. /\ Holds(receiver.reassembler, Stream, Capacity, Byte)
          /\ receiver.fin_abs_seq = IF e = NoEof THEN 0 ELSE EndSeq
      BY <1>1, Zenon DEF Inv, ReceiverOf, EndSeq
    <3>2. o.nwritten \in 0 .. Len(Stream)
      BY <3>1, Constants, WaitingIsStretch, Zenon DEF stream_out
    <3>3. e \in {NoEof, Len(Stream)} /\ (o.input_ended <=> o.nwritten = e)
      BY <3>1, Zenon DEF Holds, EndHolds, stream_out
    <3> QED BY <3>1, <3>2, <3>3, Constants, Zenon
  <2>2. abs_ackno(receiver) = IF 1 + o.nwritten + 1 = receiver.fin_abs_seq
                              THEN receiver.fin_abs_seq ELSE 1 + o.nwritten
    BY Zenon DEF abs_ackno
  <2> HIDE DEF o, e
  <2>3. (abs_ackno(receiver) = EndSeq) <=> o.nwritten = e
    BY <2>1, <2>2 DEF EndSeq, NoEof
  <2> QED BY <2>1, <2>3, Zenon DEF FinAckedIffEnded, o
<1> QED BY <1>1, InvCorrect, PTL

\* No state makes the receiver refuse what it waits for: the segment with the next number,
\* alone or with all that follows, is taken unless the window is closed, and then the reader
\* can open it.  Numbers must tell a window of one from its complement: with two of them the
\* next one is already half the sequence space away.
THEOREM NeverStuckCorrect ==
  ASSUME SEQ_MOD > 2
  PROVE  Spec => []NeverStuck
<1>1. ASSUME Inv PROVE NeverStuck
  <2> DEFINE o == stream_out(receiver)
             w == window_size(receiver)
  <2>1. ReceiverOf(receiver, Stream, Capacity, Byte, Isn)
    BY <1>1, Zenon DEF Inv
  <2>2. LET q == stream_out(receiver)
            f == IF receiver.fin_abs_seq # 0 /\ q.nwritten = Len(Stream) THEN 1 ELSE 0
        IN /\ q.nwritten \in Nat /\ abs_ackno(receiver) = 1 + q.nwritten + f
           /\ window_size(receiver) = Capacity - Len(q.buffer) /\ Len(q.buffer) \in 0 .. Capacity
    BY <2>1, Window
  <2>3. o.nwritten \in Nat /\ w = Capacity - Len(o.buffer) /\ Len(o.buffer) \in 0 .. Capacity
    BY <2>2, Zenon
  <2>4. NextSeq \in Nat
    <3>1. abs_ackno(receiver) \in Nat
      BY <2>2
    <3> QED BY <3>1 DEF NextSeq
  <2>5. ~has_ackno(receiver) => o.nwritten = 0
    <3>1. new_StreamReassembler(Capacity, Filler).output = new_ByteStream(Capacity)
      BY Zenon DEF new_StreamReassembler
    <3>2. new_ByteStream(Capacity).nwritten = 0
      BY Zenon DEF new_ByteStream
    <3> QED BY <1>1, <3>1, <3>2, Zenon DEF Inv, stream_out
  <2>6. ASSUME w = 0 PROVE ~buffer_empty(o)
    <3>1. Len(o.buffer) # 0
      BY <2>3, <2>6, Constants
    <3> QED BY <3>1, Zenon DEF buffer_empty, buffer_size
  <2>7. ASSUME NextSeq < EndSeq, w # 0, NEW len \in 1 .. EndSeq - NextSeq
        PROVE  LET next == receive(receiver, Slice(NextSeq, len))
               IN has_ackno(next) /\ abs_ackno(next) > NextSeq
    <3> DEFINE seg == Slice(NextSeq, len)
    <3>1. len \in Nat /\ len > 0 /\ NextSeq + len <= EndSeq /\ w > 0
      BY <2>3, <2>4, <2>7, Constants
    <3>2. Cut(seg, NextSeq, Isn, Stream) /\ length_in_sequence_space(seg) > 0
      BY <2>4, <3>1, SliceIsCut
    <3>3. NextSeq < Len(Stream) + 2 /\ NextSeq = IF has_ackno(receiver) THEN abs_ackno(receiver) ELSE 0
      BY <2>7, Constants, Zenon DEF NextSeq
    <3> HIDE DEF seg
    <3>4. has_ackno(receive(receiver, seg)) /\ abs_ackno(receive(receiver, seg)) > NextSeq
      BY <2>1, <2>5, <3>1, <3>2, <3>3, Constants, ReceiveNext
    <3> QED BY <3>4, Zenon DEF seg
  <2> QED BY <2>6, <2>7, Zenon DEF NeverStuck
<1> QED BY <1>1, InvCorrect, PTL

\* ackno covers only what some segment has carried here, the SYN and the FIN included.
THEOREM AcksArrivedCorrect == Spec => []AcksOnlyArrived
<1>1. ASSUME Inv, has_ackno(receiver) PROVE 0 .. abs_ackno(receiver) - 1 \subseteq arrived
  <2> DEFINE r == receiver.reassembler
             o == stream_out(receiver)
             f == IF receiver.fin_abs_seq # 0 /\ o.nwritten = Len(Stream) THEN 1 ELSE 0
  <2>1. /\ o.nwritten \in Nat /\ abs_ackno(receiver) = 1 + o.nwritten + f /\ o.nwritten = r.rpos
    <3>1. ReceiverOf(receiver, Stream, Capacity, Byte, Isn)
      BY <1>1, Zenon DEF Inv
    <3>2. LET q == stream_out(receiver)
              g == IF receiver.fin_abs_seq # 0 /\ q.nwritten = Len(Stream) THEN 1 ELSE 0
          IN /\ q.nwritten \in Nat /\ q.nwritten = receiver.reassembler.rpos
             /\ abs_ackno(receiver) = 1 + q.nwritten + g
      BY <3>1, Window
    <3> QED BY <3>2, Zenon
  <2>2. /\ \A i \in Known(r, Capacity) : i + 1 \in arrived
        /\ 0 \in arrived /\ (receiver.fin_abs_seq # 0 => EndSeq - 1 \in arrived)
    BY <1>1, Zenon DEF Inv, AllArrived
  <2> HIDE DEF o, r
  <2> SUFFICES ASSUME NEW x \in 0 .. abs_ackno(receiver) - 1 PROVE x \in arrived
    OBVIOUS
  <2>3. x = 0 \/ x \in 1 .. o.nwritten \/ (x = EndSeq - 1 /\ receiver.fin_abs_seq # 0)
    BY <2>1, Constants
  <2>4. ASSUME x \in 1 .. o.nwritten PROVE x \in arrived
    <3>1. x - 1 \in Nat /\ x - 1 < r.rpos /\ (x - 1) + 1 = x
      BY <2>1, <2>4
    <3>2. x - 1 \in Known(r, Capacity)
      BY <3>1, Zenon DEF Known
    <3> QED BY <2>2, <3>1, <3>2, Zenon
  <2> QED BY <2>2, <2>3, <2>4, Zenon
<1> QED BY <1>1, InvCorrect, PTL DEF AcksOnlyArrived

\* What the peer was once allowed to send stays allowed: both edges of the window that
\* ackno and window_size advertise only move forward.
THEOREM WindowCorrect == Spec => WindowNeverShrinks
<1> DEFINE Forth == has_ackno(receiver) =>
             /\ abs_ackno(receiver') >= abs_ackno(receiver)
             /\ abs_ackno(receiver') + window_size(receiver') >=
                  abs_ackno(receiver) + window_size(receiver)
<1>1. ASSUME Inv, Inv', [Next]_vars PROVE [Forth]_vars
  <2> DEFINE o == stream_out(receiver)
             p == stream_out(receiver')
             f == IF receiver.fin_abs_seq # 0 /\ o.nwritten = Len(Stream) THEN 1 ELSE 0
             g == IF receiver'.fin_abs_seq # 0 /\ p.nwritten = Len(Stream) THEN 1 ELSE 0
  <2> SUFFICES ASSUME ~UNCHANGED vars PROVE Forth
    OBVIOUS
  <2>1. /\ ReceiverOf(receiver, Stream, Capacity, Byte, Isn)
        /\ ReceiverOf(receiver', Stream, Capacity, Byte, Isn)
        /\ Len(Stream) \in Nat /\ Capacity \in Nat
    BY <1>1, Constants, Zenon DEF Inv
  <2>2. /\ o.nwritten \in Nat /\ o.nread \in Nat /\ o.nwritten <= Len(Stream)
        /\ abs_ackno(receiver) = 1 + o.nwritten + f
        /\ abs_ackno(receiver) + window_size(receiver) = 1 + Capacity + o.nread + f
    <3>1. LET q == stream_out(receiver)
              h == IF receiver.fin_abs_seq # 0 /\ q.nwritten = Len(Stream) THEN 1 ELSE 0
          IN /\ q.nwritten \in Nat /\ q.nread \in Nat /\ q.nwritten <= Len(Stream)
             /\ abs_ackno(receiver) = 1 + q.nwritten + h
             /\ abs_ackno(receiver) + window_size(receiver) = 1 + Capacity + q.nread + h
      BY <2>1, Window
    <3> QED BY <3>1, Zenon
  <2>3. /\ p.nwritten \in Nat /\ p.nread \in Nat /\ p.nwritten <= Len(Stream)
        /\ abs_ackno(receiver') = 1 + p.nwritten + g
        /\ abs_ackno(receiver') + window_size(receiver') = 1 + Capacity + p.nread + g
    <3>1. LET q == stream_out(receiver')
              h == IF receiver'.fin_abs_seq # 0 /\ q.nwritten = Len(Stream) THEN 1 ELSE 0
          IN /\ q.nwritten \in Nat /\ q.nread \in Nat /\ q.nwritten <= Len(Stream)
             /\ abs_ackno(receiver') = 1 + q.nwritten + h
             /\ abs_ackno(receiver') + window_size(receiver') = 1 + Capacity + q.nread + h
      BY <2>1, Window
    <3> QED BY <3>1, Zenon
  <2> DEFINE Forward == /\ p.nread >= o.nread /\ p.nwritten >= o.nwritten
                        /\ receiver.fin_abs_seq # 0 => receiver'.fin_abs_seq # 0
  <2>4. Forward
    <3>1. ASSUME NEW abs \in 0 .. EndSeq, NEW len \in 0 .. EndSeq, Arrive(abs, len)
          PROVE  Forward
      BY <1>1, <3>1, <2>2, ArriveHolds DEF Advances, OnlyMore
    <3>2. ASSUME NEW len \in 1 .. Capacity, Read(len) PROVE Forward
      BY <1>1, <3>2, <2>2, ReadHolds
    <3> QED BY <1>1, <3>1, <3>2, Zenon DEF Next
  <2> HIDE DEF o, p
  <2>5. g >= f /\ f \in Nat /\ g \in Nat
    BY <2>1, <2>2, <2>3, <2>4
  <2> HIDE DEF f, g
  <2>6. 1 + p.nwritten + g >= 1 + o.nwritten + f /\ 1 + Capacity + p.nread + g >= 1 + Capacity + o.nread + f
    <3>1. \A x, y, v, w \in Nat : y >= x /\ w >= v => 1 + y + w >= 1 + x + v
      OBVIOUS
    <3>2. \A c, x, y, v, w \in Nat : y >= x /\ w >= v => 1 + c + y + w >= 1 + c + x + v
      OBVIOUS
    <3> QED BY <2>1, <2>2, <2>3, <2>4, <2>5, <3>1, <3>2, Zenon
  <2> HIDE DEF Forward
  <2> QED BY <2>2, <2>3, <2>6, Zenon
<1> QED BY <1>1, InvCorrect, PTL DEF Spec, WindowNeverShrinks

\* The reader of a TCPReceiver sees in-order delivery of the peer's stream and nothing
\* else, over any network that keeps segments recent.
THEOREM DeliveryRefined == Spec => ImplementsDelivery
<1>1. Init => Delivery!Init
  BY DEF Init, Delivery!Init, new_TCPReceiver, new_StreamReassembler, new_ByteStream, stream_out
<1>2. ASSUME Inv, Inv', [Next]_vars PROVE [Delivery!Next]_(Delivery!vars)
  <2> DEFINE o == stream_out(receiver)
             p == stream_out(receiver')
  <2>1. /\ Holds(receiver.reassembler, Stream, Capacity, Byte)
        /\ Holds(receiver'.reassembler, Stream, Capacity, Byte)
    BY <1>2, Zenon DEF Inv, ReceiverOf
  <2>2. /\ p.buffer = SubSeq(Stream, p.nread + 1, p.nwritten)
        /\ p.nwritten \in 0 .. Len(Stream) /\ p.nwritten <= p.nread + Capacity
        /\ p.input_ended \in BOOLEAN /\ (p.input_ended => p.nwritten = Len(Stream))
    <3>1. ASSUME NEW r, Holds(r, Stream, Capacity, Byte)
          PROVE  /\ r.output.buffer = SubSeq(Stream, r.output.nread + 1, r.output.nwritten)
                 /\ r.output.nwritten \in 0 .. Len(Stream) /\ r.output.nwritten <= r.output.nread + Capacity
                 /\ r.output.input_ended \in BOOLEAN
                 /\ r.output.input_ended => r.output.nwritten = Len(Stream)
      BY <3>1, StreamAssumption, CapacityAssumption, WaitingIsStretch, Zenon
    <3> QED BY <2>1, <3>1, Zenon DEF stream_out
  <2>3. o.nwritten \in Nat
    BY <2>1, Constants, WaitingIsStretch DEF stream_out
  <2>4. ASSUME NEW abs \in 0 .. EndSeq, NEW len \in 0 .. EndSeq, Arrive(abs, len)
        PROVE  Delivery!Deliver
    <3>1. OnlyMore(o, p)
      BY <1>2, <2>4, ArriveHolds, Zenon DEF Advances
    <3>2. p.nwritten \in o.nwritten .. Len(Stream)
      BY <2>2, <2>3, <3>1, StreamAssumption DEF OnlyMore
    <3> QED BY <2>2, <3>1, <3>2, Zenon DEF OnlyMore, Delivery!Deliver
  <2>5. ASSUME NEW len \in 1 .. Capacity, Read(len) PROVE Delivery!Take
    <3>1. /\ p.nread \in o.nread .. o.nwritten /\ p.nwritten = o.nwritten
          /\ p.input_ended = o.input_ended
      BY <1>2, <2>5, ReadHolds, Zenon
    <3> QED BY <2>2, <3>1, Zenon DEF Delivery!Take
  <2>6. CASE UNCHANGED vars
    BY <2>6, Zenon DEF vars, Delivery!vars, stream_out
  <2> QED BY <1>2, <2>4, <2>5, <2>6, Zenon DEF Next, Delivery!Next
<1> QED BY <1>1, <1>2, InvCorrect, PTL DEF Spec, ImplementsDelivery, Delivery!Spec
=============================================================================
