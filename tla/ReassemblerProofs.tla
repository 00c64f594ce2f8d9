-------------------------- MODULE ReassemblerProofs --------------------------
(***************************************************************************)
(* The reassembler delivers its stream, for every stream and every         *)
(* capacity: HoldsStream is inductive as it stands, and so is its          *)
(* conjunction with UnassembledCount; with them every step is one of       *)
(* in-order delivery.                                                      *)
(***************************************************************************)
EXTENDS ReassemblerSpec, ReceiverLemmas, FiniteSetTheorems

\* The count of stored bytes rests on these facts about finite sets.
LEMMA CountingHolds == Counting
<1>1. /\ \A a, b \in Int : IsFiniteSet(a .. b) /\ Cardinality(a .. b) = IF a > b THEN 0 ELSE b - a + 1
      /\ Cardinality({}) = 0
  BY FS_Interval, FS_EmptySet
<1>2. /\ \A S : IsFiniteSet(S) => Cardinality(S) \in Nat
      /\ \A S : IsFiniteSet(S) => \A T \in SUBSET S : IsFiniteSet(T)
  BY FS_CardinalityType, FS_Subset, Zenon
<1>3. \A S, T : IsFiniteSet(S) /\ IsFiniteSet(T) =>
        Cardinality(S \cup T) = Cardinality(S) + Cardinality(T) - Cardinality(S \cap T)
  BY FS_Union, Zenon
<1>4. \A S, T : IsFiniteSet(S) => Cardinality(S \ T) = Cardinality(S) - Cardinality(S \cap T)
  BY FS_Difference, Zenon
<1>5. \A S, T : IsFiniteSet(S) /\ Bijection(S, T) # {} => IsFiniteSet(T) /\ Cardinality(T) = Cardinality(S)
  BY FS_Bijection, Zenon DEF ExistsBijection
<1> QED BY <1>1, <1>2, <1>3, <1>4, <1>5, Zenon DEF Counting

\* push_substring keeps the reassembler holding its stream and its count exact, keeps
\* what has arrived, and leaves nothing behind that the output could take.
LEMMA PushStep ==
  ASSUME HoldsStream, NEW index \in 0 .. Len(Stream), NEW len \in 0 .. Len(Stream),
         NEW last \in BOOLEAN, Push(index, len, last)
  PROVE  /\ HoldsStream' /\ (UnassembledCount => UnassembledCount')
         /\ OnlyMore(reassembler.output, reassembler'.output)
         /\ Keeps(reassembler, reassembler', Capacity) /\ Flows(reassembler', Capacity)
<1>1. /\ index \in Nat /\ len \in Nat /\ index + len <= Len(Stream) /\ (last => index + len = Len(Stream))
      /\ Holds(reassembler, Stream, Capacity, Byte) /\ Stream \in Seq(Byte) /\ Capacity \in Nat \ {0}
      /\ reassembler' = push_substring(reassembler, Substring(Stream, index, len), index, last)
  BY StreamAssumption, CapacityAssumption DEF Push, HoldsStream
<1>2. LET s == push_substring(reassembler, Substring(Stream, index, len), index, last)
      IN /\ Holds(s, Stream, Capacity, Byte) /\ OnlyMore(reassembler.output, s.output)
         /\ Keeps(reassembler, s, Capacity) /\ Flows(s, Capacity)
  BY <1>1, PushHolds
<1>3. CountExact(reassembler) =>
        CountExact(push_substring(reassembler, Substring(Stream, index, len), index, last))
  BY <1>1, PushExact, CountingHolds, Zenon
<1> QED BY <1>1, <1>2, <1>3, Zenon DEF HoldsStream, UnassembledCount, CountExact

\* A reader takes bytes from the output and touches nothing else.
LEMMA ReadStep ==
  ASSUME HoldsStream, NEW len \in 1 .. Capacity, Read(len)
  PROVE  /\ HoldsStream' /\ (UnassembledCount => UnassembledCount')
         /\ reassembler'.rpos = reassembler.rpos /\ reassembler'.bit_map = reassembler.bit_map
         /\ reassembler'.output.nread \in reassembler.output.nread .. reassembler.output.nwritten
         /\ reassembler'.output.nread # reassembler.output.nread
         /\ reassembler'.output.nwritten = reassembler.output.nwritten
         /\ reassembler'.output.input_ended = reassembler.output.input_ended
<1> DEFINE r == reassembler
           p == pop_output(r.output, len)
           s == [r EXCEPT !.output = p]
<1>1. /\ len \in Nat /\ len > 0 /\ Stream \in Seq(Byte) /\ Capacity \in Nat \ {0}
      /\ Holds(r, Stream, Capacity, Byte) /\ r' = s
  BY StreamAssumption, CapacityAssumption DEF HoldsStream, Read
<1>2. /\ Holds(s, Stream, Capacity, Byte) /\ s.output = p
      /\ p.nread \in r.output.nread .. r.output.nwritten /\ p.nwritten = r.output.nwritten
      /\ p.input_ended = r.output.input_ended
  <2>1. LET q == pop_output(r.output, len)
            t == [r EXCEPT !.output = q]
        IN /\ Holds(t, Stream, Capacity, Byte) /\ t.output = q
           /\ q.nread \in r.output.nread .. r.output.nwritten /\ q.nwritten = r.output.nwritten
           /\ q.input_ended = r.output.input_ended
    BY <1>1, PopHolds
  <2> QED BY <2>1, Zenon
<1>3. p.nread # r.output.nread
  <2>1. /\ r.output \in ByteStreams(Byte) /\ Len(r.output.buffer) # 0
        /\ Len(r.output.buffer) \in Nat /\ r.output.nread \in Nat
    BY <1>1 DEF Holds, ReassemblerType, ByteStreams, Read, buffer_empty, buffer_size
  <2>2. p.nread = r.output.nread + MinOf(Len(r.output.buffer), len)
    BY <2>1, Zenon DEF pop_output, buffer_size, ByteStreams
  <2> QED BY <1>1, <2>1, <2>2 DEF MinOf
<1> HIDE DEF p
<1>4. /\ s.rpos = r.rpos /\ s.bit_map = r.bit_map /\ s.capacity = r.capacity
      /\ s.unassembled_bytes = r.unassembled_bytes
  BY <1>1, Zenon DEF Holds, ReassemblerType
<1> HIDE DEF s
<1>5. Occupied(s) = Occupied(r)
  BY <1>4, Zenon DEF Occupied
<1> QED BY <1>1, <1>2, <1>3, <1>4, <1>5, Zenon DEF HoldsStream, UnassembledCount

\* One step of push_substring or of a read keeps the reassembler holding its stream.
LEMMA HoldsStreamInductive ==
  HoldsStream /\ [Next]_vars => HoldsStream' /\ (UnassembledCount => UnassembledCount')
<1> SUFFICES ASSUME HoldsStream, [Next]_vars
             PROVE  HoldsStream' /\ (UnassembledCount => UnassembledCount')
  OBVIOUS
<1>1. CASE UNCHANGED vars
  BY <1>1, Zenon DEF HoldsStream, UnassembledCount, vars
<1> QED BY <1>1, PushStep, ReadStep, Zenon DEF Next

\* Whatever the stream, the capacity and the order in which substrings are pushed, the
\* output and the ring of a StreamReassembler hold bytes of the stream at their own
\* index, and the output ends exactly when the whole stream has been written.
THEOREM HoldsStreamCorrect == Spec => []HoldsStream
<1>1. Init => HoldsStream
  <2>1. Holds(new_StreamReassembler(Capacity, Filler), Stream, Capacity, Byte)
    BY StreamAssumption, CapacityAssumption, NewHolds, Zenon
  <2> QED BY <2>1, Zenon DEF Init, HoldsStream
<1>2. HoldsStream /\ [Next]_vars => HoldsStream'
  BY HoldsStreamInductive, Zenon
<1> QED BY <1>1, <1>2, PTL DEF Spec

\* unassembled_bytes, which push_substring keeps by increments and decrements across
\* every overlap and repetition, is the number of bytes that wait in the ring.
THEOREM CountCorrect == Spec => []UnassembledCount
<1>1. Init => UnassembledCount
  <2>1. CountExact(new_StreamReassembler(Capacity, Filler))
    BY CapacityAssumption, NewExact, CountingHolds, Zenon
  <2> QED BY <2>1, Zenon DEF Init, UnassembledCount, CountExact
<1>2. HoldsStream /\ UnassembledCount /\ [Next]_vars => UnassembledCount'
  BY HoldsStreamInductive, Zenon
<1> QED BY <1>1, <1>2, HoldsStreamCorrect, PTL DEF Spec

\* The fields of a StreamReassembler keep their types; the count, whose decrement is that
\* of an unsigned number, never goes below zero.
THEOREM TypeCorrect == Spec => []TypeOK
<1>1. ASSUME HoldsStream, UnassembledCount PROVE TypeOK
  <2>1. Cardinality(Occupied(reassembler)) \in Nat
    BY <1>1, StreamAssumption, CapacityAssumption, OccupiedFinite, CountingHolds, Zenon DEF HoldsStream
  <2>2. reassembler.unassembled_bytes \in Nat
    BY <1>1, <2>1, Zenon DEF UnassembledCount
  <2> QED BY <1>1, <2>2 DEF HoldsStream, Holds, TypeOK, ReassemblerType
<1> QED BY <1>1, HoldsStreamCorrect, CountCorrect, PTL

\* push_substring drops no byte that has arrived, neither by overwriting its slot nor by
\* clearing one that the output did not take.
THEOREM ArrivedBytesStayHolds == Spec => ArrivedBytesStay
<1> DEFINE Stay == \A i \in reassembler'.rpos .. reassembler.rpos + Capacity - 1 :
                     reassembler.bit_map[i % Capacity] => reassembler'.bit_map[i % Capacity]
<1>1. ASSUME HoldsStream, [Next]_vars PROVE [Stay]_vars
  <2>1. ASSUME NEW index \in 0 .. Len(Stream), NEW len \in 0 .. Len(Stream), NEW last \in BOOLEAN,
               Push(index, len, last)
        PROVE  Stay
    BY <1>1, <2>1, PushStep, Zenon DEF Keeps
  <2>2. ASSUME NEW len \in 1 .. Capacity, Read(len) PROVE Stay
    BY <1>1, <2>2, ReadStep, Zenon
  <2> QED BY <1>1, <2>1, <2>2, Zenon DEF Next
<1> QED BY <1>1, HoldsStreamCorrect, PTL DEF Spec, ArrivedBytesStay

\* push_substring delivers all it can: the next byte stays in the ring only when the
\* output is full.
THEOREM PushDeliversAllHolds == Spec => PushDeliversAll
<1> DEFINE r == reassembler
           All == \/ reassembler'.output.nread > reassembler.output.nread
                  \/ reassembler'.bit_map[reassembler'.rpos % Capacity] =>
                       remaining_capacity(reassembler'.output) = 0
<1>1. ASSUME HoldsStream, HoldsStream', [Next]_vars PROVE [All]_vars
  <2>1. ASSUME NEW index \in 0 .. Len(Stream), NEW len \in 0 .. Len(Stream), NEW last \in BOOLEAN,
               Push(index, len, last)
        PROVE  All
    <3>1. Flows(r', Capacity)
      BY <1>1, <2>1, PushStep, Zenon
    <3>2. r'.output.capacity = Capacity /\ Capacity - Capacity = 0
      BY <1>1, CapacityAssumption DEF HoldsStream, Holds, OutputHolds
    <3> QED BY <3>1, <3>2, Zenon DEF Flows, remaining_capacity, buffer_size
  <2>2. ASSUME NEW len \in 1 .. Capacity, Read(len) PROVE All
    <3> DEFINE a == r.output.nread
               b == r'.output.nread
    <3>1. a \in Nat /\ r.output.nwritten \in Nat
      BY <1>1 DEF HoldsStream, Holds, ReassemblerType, ByteStreams
    <3>2. b \in a .. r.output.nwritten /\ b # a
      BY <1>1, <2>2, ReadStep, Zenon
    <3> HIDE DEF a, b
    <3>3. b > a
      BY <3>1, <3>2
    <3> QED BY <3>3, Zenon DEF a, b
  <2> QED BY <1>1, <2>1, <2>2, Zenon DEF Next
<1> QED BY <1>1, HoldsStreamCorrect, PTL DEF Spec, PushDeliversAll

\* The reader of a StreamReassembler sees in-order delivery of the stream and nothing
\* else: pushes are deliveries, reads are takes.
THEOREM DeliveryRefined == Spec => ImplementsDelivery
<1>1. Init => Delivery!Init
  BY DEF Init, Delivery!Init, new_StreamReassembler, new_ByteStream
<1>2. ASSUME HoldsStream, HoldsStream', [Next]_vars PROVE [Delivery!Next]_(Delivery!vars)
  <2> DEFINE o == reassembler.output
             p == reassembler'.output
  <2>1. /\ p.buffer = SubSeq(Stream, p.nread + 1, p.nwritten)
        /\ p.nwritten \in 0 .. Len(Stream) /\ p.nwritten <= p.nread + Capacity
        /\ p.input_ended \in BOOLEAN /\ (p.input_ended => p.nwritten = Len(Stream))
    BY <1>2, StreamAssumption, CapacityAssumption, WaitingIsStretch, Zenon DEF HoldsStream
  <2>2. ASSUME NEW index \in 0 .. Len(Stream), NEW len \in 0 .. Len(Stream),
               NEW last \in BOOLEAN, Push(index, len, last)
        PROVE  Delivery!Deliver
    <3>1. OnlyMore(o, p)
      BY <1>2, <2>2, PushStep, Zenon
    <3>2. o.nwritten \in Nat
      BY <1>2 DEF HoldsStream, Holds, ReassemblerType, ByteStreams
    <3>3. p.nwritten \in o.nwritten .. Len(Stream)
      BY <2>1, <3>1, <3>2, StreamAssumption DEF OnlyMore
    <3> QED BY <2>1, <3>1, <3>3, Zenon DEF OnlyMore, Delivery!Deliver
  <2>3. ASSUME NEW len \in 1 .. Capacity, Read(len) PROVE Delivery!Take
    <3>1. /\ p.nread \in o.nread .. o.nwritten /\ p.nwritten = o.nwritten
          /\ p.input_ended = o.input_ended
      BY <1>2, <2>3, ReadStep, Zenon
    <3> QED BY <2>1, <3>1, Zenon DEF Delivery!Take
  <2>4. CASE UNCHANGED vars
    BY <2>4, Zenon DEF vars, Delivery!vars
  <2> QED BY <1>2, <2>2, <2>3, <2>4, Zenon DEF Next, Delivery!Next
<1> QED BY <1>1, <1>2, HoldsStreamCorrect, PTL DEF Spec, ImplementsDelivery, Delivery!Spec
=============================================================================
