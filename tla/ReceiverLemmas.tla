---------------------------- MODULE ReceiverLemmas ----------------------------
(***************************************************************************)
(* push_substring and pop_output keep a reassembler holding its stream,    *)
(* and segment_received a receiver that of its peer, whatever the stream,  *)
(* the capacity, the initial sequence number and the segments.             *)
(***************************************************************************)
EXTENDS ReassembledStream, TCPReceiver, WrappingIntegersProofs, WellFoundedInduction

\* The scan of lines 44-46 stops: a nonempty set of naturals has a least element.
LEMMA MinNat ==
  ASSUME NEW S \in SUBSET Nat, S # {}
  PROVE  Min(S) \in S /\ \A y \in S : Min(S) <= y
<1>1. \E x \in S : \A y \in S : ~(y < x)
  <2>1. \A a, b \in Nat : a < b => <<a, b>> \in OpToRel(<, Nat)
    BY Zenon DEF OpToRel
  <2>2. \E x \in S : \A y \in S : ~(<<y, x>> \in OpToRel(<, Nat))
    BY WFMin, NatLessThanWellFounded, Zenon
  <2>3. S \subseteq Nat
    OBVIOUS
  <2> QED BY <2>1, <2>2, <2>3, Zenon
<1>2. \E x \in S : \A y \in S : x =< y
  BY <1>1, SMT
<1> QED BY <1>2, Zenon DEF Min

\* Two indices less than a capacity apart never share a slot.
LEMMA SlotInjective ==
  ASSUME NEW cap \in Nat \ {0}, NEW i \in Nat, NEW j \in Nat, i % cap = j % cap,
         i < j + cap, j < i + cap
  PROVE  i = j
<1>1. cap \in Nat /\ cap > 0
  OBVIOUS
<1>2. i = (cap * (i \div cap)) + (i % cap) /\ (i \div cap) \in Int
  BY <1>1, SMT
<1>3. j = (cap * (j \div cap)) + (j % cap) /\ (j \div cap) \in Int
  BY <1>1, SMT
<1>4. i % cap \in Int
  BY <1>1, SMT
<1> DEFINE p == i \div cap
           q == j \div cap
<1> HIDE DEF p, q
<1>5. i - j = cap * (p - q) /\ p \in Int /\ q \in Int
  BY <1>1, <1>2, <1>3, <1>4, SMT DEF p, q
<1>6. p - q >= 1 => cap * (p - q) >= cap
  BY <1>1, <1>5, SMT
<1>7. p - q <= -1 => cap * (p - q) <= -cap
  BY <1>1, <1>5, SMT
<1>8. p - q = 0 => cap * (p - q) = 0
  BY <1>1, <1>5, SMT
<1> QED BY <1>1, <1>5, <1>6, <1>7, <1>8

\* Every index has a slot.
LEMMA SlotOf ==
  ASSUME NEW cap \in Nat \ {0}, NEW i \in Nat
  PROVE  i % cap \in Slots(cap)
BY SMT DEF Slots

\* The stream indices whose byte a reassembler has written or keeps in its ring.
Known(r, cap) == {i \in Nat : i < r.rpos \/ (i < r.rpos + cap /\ r.bit_map[i % cap])}

\* From r to s, no byte that has arrived and is not yet in the output is lost.
Keeps(r, s, cap) ==
  \A i \in s.rpos .. r.rpos + cap - 1 : r.bit_map[i % cap] => s.bit_map[i % cap]

\* The next byte is still in the ring only if the output is full.
Flows(r, cap) == r.bit_map[r.rpos % cap] => Len(r.output.buffer) = cap

\* store keeps bytes of the stream at their own index, and nothing else moves.
LEMMA StoreHolds ==
  ASSUME NEW B, NEW str \in Seq(B), NEW cap \in Nat \ {0}, 
         NEW r, Holds(r, str, cap, B), NEW index \in Nat, NEW len \in Nat, index + len <= Len(str)
  PROVE  LET s == store(r, Substring(str, index, len), index)
         IN /\ Holds(s, str, cap, B) /\ s.output = r.output /\ s.rpos = r.rpos /\ s.eof_index = r.eof_index
            /\ Known(s, cap) \subseteq Known(r, cap) \cup (index .. index + len - 1)
            /\ Keeps(r, s, cap)
            /\ r.rpos \in index .. index + len - 1 => s.bit_map[r.rpos % cap]
<1> DEFINE data == Substring(str, index, len)
           stored == StoredIndices(r, data, index)
           slot == {i % cap : i \in stored}
           source(b) == CHOOSE i \in stored : i % cap = b
           s == store(r, data, index)
<1>1. /\ r.capacity = cap /\ r.rpos \in Nat /\ cap \in Nat \ {0}
      /\ str \in Seq(B) /\ Len(str) \in Nat
      /\ r.buffer \in [Slots(cap) -> B] /\ r.bit_map \in [Slots(cap) -> BOOLEAN]
  BY DEF Holds, ReassemblerType
<1>2. /\ data \in Seq(B) /\ Len(data) = len
      /\ \A k \in 1 .. len : data[k] = str[index + k] /\ data[k] \in B
  BY <1>1 DEF Substring
<1>3. \A i \in stored : /\ i \in Nat /\ i \in r.rpos .. r.rpos + cap - 1
                        /\ i - index + 1 \in 1 .. len /\ i < Len(str)
                        /\ data[i - index + 1] = str[i + 1] /\ data[i - index + 1] \in B
  <2>1. r.rpos \in Nat /\ cap \in Nat /\ Len(str) \in Nat
    BY <1>1
  <2>2. stored = MaxOf(r.rpos, index) .. MinOf(r.rpos + cap, index + len) - 1
    BY <1>1, <1>2, Zenon DEF StoredIndices
  <2> SUFFICES ASSUME NEW i \in MaxOf(r.rpos, index) .. MinOf(r.rpos + cap, index + len) - 1
               PROVE  /\ i \in Nat /\ i \in r.rpos .. r.rpos + cap - 1
                      /\ i - index + 1 \in 1 .. len /\ i < Len(str)
                      /\ data[i - index + 1] = str[i + 1] /\ data[i - index + 1] \in B
    BY <2>2, Zenon
  <2> HIDE DEF data, stored, slot, s
  <2>3. /\ i \in Nat /\ i \in r.rpos .. r.rpos + cap - 1
        /\ i - index + 1 \in 1 .. len /\ i < Len(str)
        /\ index + (i - index + 1) = i + 1
    BY <2>1, SMT DEF MaxOf, MinOf
  <2>4. data[i - index + 1] = str[index + (i - index + 1)] /\ data[i - index + 1] \in B
    BY <2>3, <1>2, Zenon
  <2> QED BY <2>3, <2>4, Zenon
<1>4. \A b \in slot : source(b) \in stored /\ source(b) % cap = b
  BY Zenon
<1>5. s = [r EXCEPT
        !.buffer = [b \in Slots(cap) |->
                     IF b \in slot THEN data[source(b) - index + 1] ELSE r.buffer[b]],
        !.bit_map = [b \in Slots(cap) |-> b \in slot \/ r.bit_map[b]],
        !.unassembled_bytes = @ + Cardinality({i \in stored : ~r.bit_map[i % cap]})]
  BY <1>1 DEF store
<1> DEFINE newbuf == [b \in Slots(cap) |->
                        IF b \in slot THEN data[source(b) - index + 1] ELSE r.buffer[b]]
           newmap == [b \in Slots(cap) |-> b \in slot \/ r.bit_map[b]]
           newcount == r.unassembled_bytes + Cardinality({i \in stored : ~r.bit_map[i % cap]})
<1>7. /\ newbuf \in [Slots(cap) -> B]
      /\ newmap \in [Slots(cap) -> BOOLEAN]
  <2>1. newbuf \in [Slots(cap) -> B]
    <3>1. ASSUME NEW b \in slot PROVE data[source(b) - index + 1] \in B
      BY <1>3, <1>4, Zenon
    <3> QED BY <1>1, <3>1, Zenon
  <2>2. newmap \in [Slots(cap) -> BOOLEAN]
    BY Zenon
  <2> QED BY <2>1, <2>2
<1>8. /\ s.output = r.output /\ s.rpos = r.rpos /\ s.eof_index = r.eof_index
      /\ s.buffer = newbuf /\ s.bit_map = newmap
      /\ s \in ReassemblerType(cap, B, {s.unassembled_bytes})
  <2> HIDE DEF newbuf, newmap, newcount
  <2>1. s = [r EXCEPT !.buffer = newbuf, !.bit_map = newmap, !.unassembled_bytes = newcount]
    BY <1>5, Zenon DEF newbuf, newmap, newcount
  <2> HIDE DEF s
  <2> QED BY <1>7, <2>1, Zenon DEF Holds, ReassemblerType
<1>12. ASSUME NEW i \in r.rpos .. r.rpos + cap - 1, i % cap \in slot
       PROVE  i \in stored /\ source(i % cap) = i
  <2> DEFINE j == source(i % cap)
  <2>1. j \in stored /\ j % cap = i % cap
    BY <1>4, <1>12, Zenon
  <2> HIDE DEF j
  <2>2. j \in Nat /\ j \in r.rpos .. r.rpos + cap - 1
    BY <1>3, <2>1, Zenon
  <2>3. i \in Nat /\ i < j + cap /\ j < i + cap
    BY <1>1, <2>2
  <2>4. j = i
    BY <2>1, <2>2, <2>3, SlotInjective, Zenon
  <2> QED BY <2>1, <2>4, Zenon DEF j
<1>9. RingHolds(s, str, cap)
  <2> SUFFICES ASSUME NEW i \in r.rpos .. r.rpos + cap - 1, newmap[i % cap]
               PROVE  i < Len(str) /\ newbuf[i % cap] = str[i + 1]
    BY <1>8, Zenon DEF RingHolds
  <2>1. i \in Nat /\ i % cap \in Slots(cap)
    BY <1>1, SlotOf
  <2>2. CASE i % cap \in slot
    BY <2>1, <2>2, <1>3, <1>12, Zenon
  <2>3. CASE i % cap \notin slot
    <3>1. r.bit_map[i % cap] /\ newbuf[i % cap] = r.buffer[i % cap]
      BY <2>1, <2>3, Zenon
    <3> QED BY <3>1, Zenon DEF Holds, RingHolds
  <2> QED BY <2>2, <2>3
<1>10. OutputHolds(s, str, cap) /\ EndHolds(s, str)
  <2> HIDE DEF s
  <2>1. OutputHolds(r, str, cap) /\ EndHolds(r, str)
    BY Zenon DEF Holds
  <2>2. OutputHolds(s, str, cap)
    BY <2>1, <1>8, Zenon DEF OutputHolds
  <2>3. EndHolds(s, str)
    BY <2>1, <1>8, Zenon DEF EndHolds
  <2> QED BY <2>2, <2>3, Zenon
<1>11. Holds(s, str, cap, B)
  BY <1>8, <1>9, <1>10, Zenon DEF Holds
<1>13. Known(s, cap) \subseteq Known(r, cap) \cup (index .. index + len - 1)
  <2> SUFFICES ASSUME NEW i \in Nat, i < r.rpos \/ (i < r.rpos + cap /\ newmap[i % cap])
               PROVE  i \in Known(r, cap) \/ i \in index .. index + len - 1
    BY <1>8, Zenon DEF Known
  <2>1. CASE i < r.rpos
    BY <2>1, Zenon DEF Known
  <2>2. CASE ~(i < r.rpos)
    <3>1. i \in r.rpos .. r.rpos + cap - 1 /\ i % cap \in Slots(cap)
      <4>1. i < r.rpos + cap /\ r.rpos \in Nat /\ cap \in Nat
        BY <1>1, <2>2, Zenon
      <4> HIDE DEF newmap
      <4>2. i \in r.rpos .. r.rpos + cap - 1
        BY <2>2, <4>1
      <4> QED BY <4>2, SlotOf, Zenon
    <3>2. i % cap \in slot \/ r.bit_map[i % cap]
      BY <2>2, <3>1, Zenon
    <3>3. ASSUME i \in stored PROVE i \in index .. index + len - 1
      <4>1. i - index + 1 \in 1 .. len
        BY <1>3, <3>3, Zenon
      <4> QED BY <4>1
    <3> QED BY <1>12, <2>2, <3>1, <3>2, <3>3, Zenon DEF Known
  <2> QED BY <2>1, <2>2
<1>14. Keeps(r, s, cap)
  <2> SUFFICES ASSUME NEW i \in r.rpos .. r.rpos + cap - 1, r.bit_map[i % cap]
               PROVE  newmap[i % cap]
    BY <1>8, Zenon DEF Keeps
  <2>1. i \in Nat
    BY <1>1
  <2>2. i % cap \in Slots(cap)
    BY <2>1, SlotOf, Zenon
  <2> QED BY <2>2, Zenon
<1>15. r.rpos \in index .. index + len - 1 => s.bit_map[r.rpos % cap]
  <2> SUFFICES ASSUME r.rpos \in index .. index + len - 1 PROVE newmap[r.rpos % cap]
    BY <1>8, Zenon
  <2>1. stored = MaxOf(r.rpos, index) .. MinOf(r.rpos + cap, index + len) - 1
    BY <1>1, <1>2, Zenon DEF StoredIndices
  <2>2. r.rpos \in MaxOf(r.rpos, index) .. MinOf(r.rpos + cap, index + len) - 1
    BY <1>1 DEF MaxOf, MinOf
  <2>3. r.rpos \in stored
    BY <2>1, <2>2, Zenon
  <2>4. r.rpos % cap \in slot /\ r.rpos % cap \in Slots(cap)
    BY <1>1, <2>3, SlotOf, Zenon
  <2> QED BY <2>4, Zenon
<1> QED BY <1>8, <1>11, <1>13, <1>14, <1>15, Zenon

\* The contiguous run starts at rpos, ends within the window, every byte of it has
\* arrived, and the next one has not.
LEMMA AvailEnd ==
  ASSUME NEW B, NEW str \in Seq(B), NEW cap \in Nat \ {0}, 
         NEW r, Holds(r, str, cap, B)
  PROVE  /\ avail_end(r) \in r.rpos .. r.rpos + cap
         /\ \A i \in r.rpos .. avail_end(r) - 1 : r.bit_map[i % cap]
         /\ avail_end(r) = r.rpos + cap \/ ~r.bit_map[avail_end(r) % cap]
<1> DEFINE S == {e \in r.rpos .. r.rpos + cap :
                   e = r.rpos + cap \/ ~r.bit_map[e % cap]}
<1>1. r.capacity = cap /\ r.rpos \in Nat /\ cap \in Nat \ {0}
  BY DEF Holds, ReassemblerType
<1>2. avail_end(r) = Min(S)
  BY <1>1, Zenon DEF avail_end
<1>3. S \in SUBSET Nat /\ r.rpos + cap \in S
  BY <1>1
<1>4. Min(S) \in S /\ \A y \in S : Min(S) <= y
  BY <1>3, MinNat, Zenon
<1>5. ASSUME NEW i \in r.rpos .. Min(S) - 1 PROVE r.bit_map[i % cap]
  <2>1. i \in r.rpos .. r.rpos + cap /\ ~(Min(S) <= i)
    BY <1>1, <1>4
  <2> QED BY <2>1, <1>4, Zenon
<1> QED BY <1>2, <1>4, <1>5, Zenon

\* Indices a capacity apart share a slot.
LEMMA SlotShift ==
  ASSUME NEW cap \in Nat \ {0}, NEW i \in Nat
  PROVE  (i + cap) % cap = i % cap
<1>1. cap \in Nat /\ cap > 0
  OBVIOUS
<1> DEFINE m == (i + cap) % cap
           p == (i + cap) \div cap
           n == i % cap
           q == i \div cap
<1>2. i + cap = (cap * p) + m /\ p \in Int /\ m \in 0 .. cap - 1
  BY <1>1, SMT
<1>3. i = (cap * q) + n /\ q \in Int /\ n \in 0 .. cap - 1
  BY <1>1, SMT
<1> HIDE DEF m, n, p, q
<1> DEFINE d == (p - q) - 1
<1>4. m - n = -(cap * d) /\ d \in Int
  BY <1>1, <1>2, <1>3, SMT
<1> HIDE DEF d
<1>5. (d >= 1 => cap * d >= cap) /\ (d <= -1 => cap * d <= -cap)
  BY <1>1, <1>4, SMT
<1>6. d = 0 => cap * d = 0
  BY <1>1, SMT
<1>7. m = n
  BY <1>1, <1>2, <1>3, <1>4, <1>5, <1>6, SMT
<1> QED BY <1>7, Zenon DEF m, n

\* Writing the next bytes of the stream to an output keeps it a stretch of the stream.
LEMMA WriteHolds ==
  ASSUME NEW B, NEW str \in Seq(B), NEW o \in ByteStreams(B), NEW data \in Seq(B),
         Len(o.buffer) <= o.capacity, o.nread + Len(o.buffer) = o.nwritten,
         \A k \in 1 .. Len(o.buffer) : o.buffer[k] = str[o.nread + k],
         \A k \in 1 .. Len(data) : data[k] = str[o.nwritten + k]
  PROVE  LET w == write(o, data)
             n == write_count(o, data)
         IN /\ n \in 0 .. Len(data) /\ (n = Len(data) \/ Len(w.buffer) = o.capacity)
            /\ w \in ByteStreams(B)
            /\ w.capacity = o.capacity /\ w.nread = o.nread /\ w.nwritten = o.nwritten + n
            /\ w.input_ended = o.input_ended /\ w.error = o.error
            /\ Len(w.buffer) = Len(o.buffer) + n /\ Len(w.buffer) <= o.capacity
            /\ \A k \in 1 .. Len(w.buffer) : w.buffer[k] = str[o.nread + k]
<1> DEFINE n == write_count(o, data)
           part == SubSeq(data, 1, n)
           w == write(o, data)
<1>1. /\ o.buffer \in Seq(B) /\ o.capacity \in Nat /\ o.nread \in Nat /\ o.nwritten \in Nat
      /\ o.input_ended \in BOOLEAN /\ o.error \in BOOLEAN
  BY DEF ByteStreams
<1>2. /\ n \in 0 .. Len(data) /\ n <= o.capacity - Len(o.buffer)
      /\ n = Len(data) \/ n = o.capacity - Len(o.buffer)
  BY <1>1 DEF write_count, remaining_capacity, buffer_size, MinOf
<1> HIDE DEF n
<1>3. /\ part \in Seq(B) /\ Len(part) = n
      /\ \A k \in 1 .. n : part[k] = str[o.nwritten + k]
  BY <1>2
<1> HIDE DEF part
<1>4. w = [o EXCEPT !.buffer = o.buffer \o part, !.nwritten = o.nwritten + n]
  BY Zenon DEF write, part, n
<1> HIDE DEF w
<1> DEFINE joined == o.buffer \o part
<1>5. /\ joined \in Seq(B) /\ Len(joined) = Len(o.buffer) + n
      /\ \A k \in 1 .. Len(joined) : joined[k] = str[o.nread + k]
  <2>1. joined \in Seq(B) /\ Len(joined) = Len(o.buffer) + n
    <3>1. o.buffer \in Seq(B) /\ part \in Seq(B) /\ Len(part) = n
      BY <1>1, <1>3, Zenon
    <3>2. \A x, y \in Seq(B) : x \o y \in Seq(B) /\ Len(x \o y) = Len(x) + Len(y)
      OBVIOUS
    <3> QED BY <3>1, <3>2, Zenon
  <2>2. ASSUME NEW k \in 1 .. Len(joined) PROVE joined[k] = str[o.nread + k]
    <3>1. CASE k <= Len(o.buffer)
      BY <1>1, <1>3, <2>1, <3>1
    <3>2. CASE k > Len(o.buffer)
      <4>1. joined[k] = part[k - Len(o.buffer)] /\ k - Len(o.buffer) \in 1 .. n
        BY <1>1, <1>2, <1>3, <2>1, <3>2
      <4>2. o.nwritten + (k - Len(o.buffer)) = o.nread + k
        BY <1>1, <2>1
      <4> QED BY <4>1, <4>2, <1>3, Zenon
    <3> QED BY <1>1, <1>2, <2>1, <3>1, <3>2
  <2> QED BY <2>1, <2>2, Zenon
<1> DEFINE total == o.nwritten + n
<1>9. total \in Nat
  BY <1>1, <1>2
<1> HIDE DEF joined, total
<1>6. w = [o EXCEPT !.buffer = joined, !.nwritten = total]
  BY <1>4, Zenon DEF joined, total
<1>7. /\ w.buffer = joined /\ w.nwritten = total /\ w.capacity = o.capacity
      /\ w.nread = o.nread /\ w.input_ended = o.input_ended /\ w.error = o.error
      /\ w \in ByteStreams(B)
  BY <1>1, <1>9, <1>5, <1>6, Zenon DEF ByteStreams
<1>8. /\ Len(w.buffer) = Len(o.buffer) + n /\ Len(w.buffer) <= o.capacity
      /\ n = Len(data) \/ Len(w.buffer) = o.capacity
  BY <1>1, <1>2, <1>5, <1>7
<1> QED BY <1>2, <1>5, <1>7, <1>8, Zenon DEF w, n, total

\* Between flush and finish: everything may be written and the output not yet ended.
Flushed(r, str, cap, B) ==
  /\ r \in ReassemblerType(cap, B, {r.unassembled_bytes}) /\ OutputHolds(r, str, cap) /\ RingHolds(r, str, cap)
  /\ r.eof_index \in {NoEof, Len(str)}
  /\ r.output.input_ended => r.output.nwritten = r.eof_index

\* What a push may do to the output, seen by its reader.
OnlyMore(o, p) ==
  /\ p.nread = o.nread /\ p.nwritten >= o.nwritten
  /\ (o.input_ended => p.input_ended) /\ p.error = o.error

\* flush moves a prefix of the contiguous run to the output and forgets exactly it.
LEMMA FlushHolds ==
  ASSUME NEW B, NEW str \in Seq(B), NEW cap \in Nat \ {0}, 
         NEW r, Holds(r, str, cap, B)
  PROVE  /\ Flushed(flush(r), str, cap, B) /\ OnlyMore(r.output, flush(r).output)
         /\ Known(flush(r), cap) \subseteq Known(r, cap)
         /\ Keeps(r, flush(r), cap) /\ Flows(flush(r), cap)
<1> DEFINE e == avail_end(r)
           submit == [k \in 1 .. e - r.rpos |-> r.buffer[(r.rpos + k - 1) % cap]]
<1>1. /\ r \in ReassemblerType(cap, B, {r.unassembled_bytes}) /\ r.capacity = cap /\ r.rpos \in Nat
      /\ cap \in Nat \ {0} /\ str \in Seq(B) /\ Len(str) \in Nat
      /\ r.buffer \in [Slots(cap) -> B] /\ r.bit_map \in [Slots(cap) -> BOOLEAN]
      /\ r.output \in ByteStreams(B)
      /\ r.eof_index \in {NoEof, Len(str)}
  BY DEF Holds, ReassemblerType, EndHolds
<1>2. /\ r.output.capacity = cap /\ Len(r.output.buffer) <= cap
      /\ r.output.nread + Len(r.output.buffer) = r.output.nwritten
      /\ r.output.nwritten = r.rpos /\ r.rpos <= Len(str)
      /\ \A k \in 1 .. Len(r.output.buffer) : r.output.buffer[k] = str[r.output.nread + k]
      /\ r.output.input_ended => r.rpos = r.eof_index
  BY Zenon DEF Holds, OutputHolds, EndHolds
<1>3. /\ e \in r.rpos .. r.rpos + cap /\ \A i \in r.rpos .. e - 1 : r.bit_map[i % cap]
      /\ e = r.rpos + cap \/ ~r.bit_map[e % cap]
  BY AvailEnd, Zenon
<1> HIDE DEF e
<1>15. r.rpos \in Nat /\ cap \in Nat /\ cap > 0 /\ Len(str) \in Nat
  BY <1>1
<1>16. e \in Nat /\ r.rpos <= e /\ e <= r.rpos + cap
  BY <1>15, <1>3
<1>4. \A i \in r.rpos .. e - 1 : i < Len(str) /\ r.buffer[i % cap] = str[i + 1]
  <2> SUFFICES ASSUME NEW i \in r.rpos .. e - 1
               PROVE  i < Len(str) /\ r.buffer[i % cap] = str[i + 1]
    OBVIOUS
  <2>1. i \in r.rpos .. r.rpos + cap - 1
    BY <1>15, <1>16
  <2> QED BY <2>1, <1>3, Zenon DEF Holds, RingHolds
<1>5. e <= Len(str)
  <2>1. CASE e = r.rpos
    BY <2>1, <1>2
  <2>2. CASE e # r.rpos
    <3>1. e - 1 \in r.rpos .. e - 1
      BY <2>2, <1>15, <1>16
    <3>2. e - 1 < Len(str)
      BY <3>1, <1>4, Zenon
    <3> QED BY <3>2, <1>15, <1>16
  <2> QED BY <2>1, <2>2
<1>6. /\ submit \in Seq(B) /\ Len(submit) = e - r.rpos
      /\ \A k \in 1 .. Len(submit) : submit[k] = str[r.rpos + k]
  <2>1. e - r.rpos \in Nat
    BY <1>15, <1>16
  <2>2. ASSUME NEW k \in 1 .. e - r.rpos
        PROVE  submit[k] \in B /\ submit[k] = str[r.rpos + k]
    <3> DEFINE i == r.rpos + k - 1
    <3>2. submit[k] = r.buffer[i % cap]
      BY Zenon
    <3> HIDE DEF submit
    <3>1. i \in r.rpos .. e - 1 /\ i \in Nat /\ i + 1 = r.rpos + k
      <4>1. \A a, c \in Nat : \A m \in 1 .. c - a :
              a + m - 1 \in a .. c - 1 /\ a + m - 1 \in Nat /\ (a + m - 1) + 1 = a + m
        BY SMT
      <4> QED BY <4>1, <1>15, <1>16, Zenon
    <3>3. i % cap \in Slots(cap)
      BY <3>1, SlotOf, Zenon
    <3> HIDE DEF i
    <3> QED BY <3>1, <3>2, <3>3, <1>1, <1>4, Zenon
  <2>3. submit \in Seq(B) /\ Len(submit) = e - r.rpos
    <3>1. submit \in [1 .. e - r.rpos -> B]
      BY <2>2, Zenon
    <3> HIDE DEF submit
    <3> QED BY <2>1, <3>1
  <2> QED BY <2>2, <2>3, Zenon
<1> HIDE DEF submit
<1> DEFINE n == write_count(r.output, submit)
           out == write(r.output, submit)
           newpos == r.rpos + n
           newcount == r.unassembled_bytes - n
<1>7. /\ n \in 0 .. e - r.rpos /\ (n = e - r.rpos \/ Len(out.buffer) = cap) /\ out \in ByteStreams(B)
      /\ out.capacity = cap /\ out.nread = r.output.nread /\ out.nwritten = newpos
      /\ out.input_ended = r.output.input_ended /\ out.error = r.output.error
      /\ Len(out.buffer) = Len(r.output.buffer) + n /\ Len(out.buffer) <= cap
      /\ \A k \in 1 .. Len(out.buffer) : out.buffer[k] = str[out.nread + k]
  <2> DEFINE o == r.output
  <2>1. /\ o \in ByteStreams(B) /\ submit \in Seq(B) /\ Len(o.buffer) <= o.capacity
        /\ o.nread + Len(o.buffer) = o.nwritten
        /\ \A k \in 1 .. Len(o.buffer) : o.buffer[k] = str[o.nread + k]
        /\ \A k \in 1 .. Len(submit) : submit[k] = str[o.nwritten + k]
    BY <1>1, <1>2, <1>6, Zenon
  <2>2. /\ n \in 0 .. Len(submit) /\ (n = Len(submit) \/ Len(out.buffer) = o.capacity) /\ out \in ByteStreams(B)
        /\ out.capacity = o.capacity /\ out.nread = o.nread /\ out.nwritten = o.nwritten + n
        /\ out.input_ended = o.input_ended /\ out.error = o.error
        /\ Len(out.buffer) = Len(o.buffer) + n /\ Len(out.buffer) <= o.capacity
        /\ \A k \in 1 .. Len(out.buffer) : out.buffer[k] = str[o.nread + k]
    <3> HIDE DEF o, e
    <3>1. LET w == write(o, submit)
              m == write_count(o, submit)
          IN /\ m \in 0 .. Len(submit) /\ (m = Len(submit) \/ Len(w.buffer) = o.capacity) /\ w \in ByteStreams(B)
             /\ w.capacity = o.capacity /\ w.nread = o.nread /\ w.nwritten = o.nwritten + m
             /\ w.input_ended = o.input_ended /\ w.error = o.error
             /\ Len(w.buffer) = Len(o.buffer) + m /\ Len(w.buffer) <= o.capacity
             /\ \A k \in 1 .. Len(w.buffer) : w.buffer[k] = str[o.nread + k]
      BY <2>1, WriteHolds
    <3> QED BY <3>1, Zenon DEF o
  <2> QED BY <1>2, <1>6, <2>2, Zenon
<1> HIDE DEF n, out
<1>17. n \in Nat /\ newpos \in Nat /\ newpos = r.rpos + n /\ newpos <= Len(str)
  <2>1. n \in 0 .. e - r.rpos
    BY <1>7, Zenon
  <2> QED BY <2>1, <1>15, <1>16, <1>5, SMT
<1>8. n \in Nat /\ newpos \in Nat /\ newpos <= Len(str)
  BY <1>17, Zenon
<1> DEFINE cleared == {i % cap : i \in r.rpos .. r.rpos + n - 1}
           newmap == [b \in Slots(cap) |-> r.bit_map[b] /\ b \notin cleared]
           s == flush(r)
<1>9. s = [r EXCEPT !.output = out, !.bit_map = newmap, !.rpos = newpos,
                    !.unassembled_bytes = newcount]
  BY <1>1 DEF flush, out, n, submit, e
<1>10. newmap \in [Slots(cap) -> BOOLEAN]
  BY Zenon
<1>11. /\ s.output = out /\ s.bit_map = newmap /\ s.rpos = newpos /\ s.buffer = r.buffer
       /\ s.eof_index = r.eof_index /\ s \in ReassemblerType(cap, B, {s.unassembled_bytes})
  <2> HIDE DEF newmap, newpos, newcount, s
  <2> QED BY <1>1, <1>7, <1>8, <1>9, <1>10, Zenon DEF ReassemblerType
<1>20. ASSUME NEW i \in newpos .. newpos + cap - 1, newmap[i % cap]
       PROVE  r.bit_map[i % cap] /\ i \in r.rpos .. r.rpos + cap - 1
  <2>1. i \in Nat /\ i % cap \in Slots(cap)
    <3>1. i \in Nat
      BY <1>15, <1>17
    <3> QED BY <3>1, SlotOf, Zenon
  <2>2. r.bit_map[i % cap] /\ i % cap \notin cleared
    BY <1>20, <2>1, Zenon
  <2>3. i \in r.rpos .. r.rpos + cap - 1
    <3>3. i < r.rpos + cap => i \in r.rpos .. r.rpos + cap - 1
      <4>1. i \in r.rpos + n .. r.rpos + n + cap - 1
        BY Zenon
      <4>2. \A a, m, c \in Nat : \A x \in a + m .. a + m + c - 1 :
              x < a + c => x \in a .. a + c - 1
        BY SMT
      <4> QED BY <4>1, <4>2, <1>15, <1>17, Zenon
    <3>4. i < r.rpos + cap \/ i >= r.rpos + cap
      BY <1>15, <2>1, SMT
    <3> SUFFICES ASSUME i >= r.rpos + cap PROVE FALSE
      BY <3>3, <3>4, Zenon
    <3> DEFINE j == i - cap
    <3>1. j \in Nat /\ j \in r.rpos .. r.rpos + n - 1 /\ j + cap = i
      <4>1. i \in r.rpos + n .. r.rpos + n + cap - 1 /\ i >= r.rpos + cap
        BY Zenon
      <4>2. r.rpos \in Nat /\ n \in Nat /\ cap \in Nat /\ i \in Nat
        BY <1>15, <1>17, <2>1, Zenon
      <4> HIDE DEF newmap, newpos, newcount, s, cleared
      <4> QED BY <4>1, <4>2, SMTT(20)
    <3>2. i % cap = j % cap
      BY <3>1, SlotShift, Zenon
    <3> QED BY <2>2, <3>1, <3>2, Zenon
  <2> QED BY <2>2, <2>3
<1>12. RingHolds(s, str, cap)
  BY <1>11, <1>20, Zenon DEF Holds, RingHolds
<1>13. OutputHolds(s, str, cap)
  <2>1. out.nread + Len(out.buffer) = out.nwritten
    <3>1. r.output.nread \in Nat /\ Len(r.output.buffer) \in Nat
      BY <1>1 DEF ByteStreams
    <3>2. /\ out.nread = r.output.nread /\ Len(out.buffer) = Len(r.output.buffer) + n
          /\ out.nwritten = r.rpos + n /\ r.output.nread + Len(r.output.buffer) = r.rpos
      BY <1>2, <1>7, Zenon
    <3>3. \A a, b, c \in Nat : a + (b + c) = (a + b) + c
      OBVIOUS
    <3>4. r.output.nread + (Len(r.output.buffer) + n) = (r.output.nread + Len(r.output.buffer)) + n
      <4> DEFINE p == r.output.nread
                 q == Len(r.output.buffer)
      <4>1. p \in Nat /\ q \in Nat /\ n \in Nat
        BY <1>17, <3>1, Zenon
      <4> HIDE DEF p, q
      <4>2. p + (q + n) = (p + q) + n
        BY <3>3, <4>1, ZenonT(30)
      <4> QED BY <4>2, Zenon DEF p, q
    <3>5. out.nread + Len(out.buffer) = r.output.nread + (Len(r.output.buffer) + n)
      BY <3>2, Zenon
    <3>6. (r.output.nread + Len(r.output.buffer)) + n = out.nwritten
      BY <3>2, Zenon
    <3> QED BY <3>4, <3>5, <3>6, Zenon
  <2> QED BY <1>7, <1>8, <1>11, <2>1, Zenon DEF OutputHolds
<1>14. s.output.input_ended => s.output.nwritten = s.eof_index
  <2> SUFFICES ASSUME r.output.input_ended PROVE newpos = r.eof_index
    BY <1>7, <1>11, Zenon
  <2>1. r.rpos = Len(str)
    BY <1>1, <1>2 DEF NoEof
  <2>2. r.eof_index = Len(str) /\ Len(str) \in Nat /\ e \in Nat /\ e <= Len(str) /\ n \in 0 .. e - r.rpos
    BY <1>1, <1>2, <1>5, <1>7, <1>16, <2>1 DEF NoEof
  <2> QED BY <2>1, <2>2
<1>18. newpos >= r.rpos
  BY <1>15, <1>17
<1>19. OnlyMore(r.output, s.output)
  BY <1>2, <1>7, <1>11, <1>18, Zenon DEF OnlyMore
<1>21. Known(s, cap) \subseteq Known(r, cap)
  <2> SUFFICES ASSUME NEW i \in Nat, i < newpos \/ (i < newpos + cap /\ newmap[i % cap])
               PROVE  i < r.rpos \/ (i < r.rpos + cap /\ r.bit_map[i % cap])
    BY <1>11, Zenon DEF Known
  <2> HIDE DEF newmap
  <2>1. CASE i < newpos
    <3>1. newpos <= e
      BY <1>7, <1>15, <1>16, <1>17
    <3>2. i < r.rpos \/ (i \in r.rpos .. e - 1 /\ i < r.rpos + cap)
      BY <1>15, <1>16, <1>17, <2>1, <3>1
    <3> QED BY <1>3, <3>2, Zenon
  <2>2. CASE ~(i < newpos)
    <3>1. i \in newpos .. newpos + cap - 1
      <4>1. i < newpos + cap /\ newpos \in Nat /\ cap \in Nat
        BY <1>15, <1>17, <2>2, Zenon
      <4> HIDE DEF newpos
      <4> QED BY <2>2, <4>1
    <3>2. r.bit_map[i % cap] /\ i \in r.rpos .. r.rpos + cap - 1
      BY <1>20, <2>2, <3>1, Zenon
    <3>3. i < r.rpos + cap
      BY <1>15, <3>2
    <3> QED BY <3>2, <3>3
  <2> QED BY <2>1, <2>2
<1>22. Keeps(r, s, cap)
  <2> SUFFICES ASSUME NEW i \in newpos .. r.rpos + cap - 1, r.bit_map[i % cap]
               PROVE  newmap[i % cap]
    BY <1>11, Zenon DEF Keeps
  <2>1. i \in Nat /\ newpos <= i /\ i < r.rpos + cap
    <3>1. newpos \in Nat /\ r.rpos \in Nat /\ cap \in Nat
      BY <1>15, <1>17, Zenon
    <3> HIDE DEF newpos
    <3> QED BY <3>1
  <2>2. i % cap \in Slots(cap)
    BY <2>1, SlotOf, Zenon
  <2>3. ASSUME NEW j \in r.rpos .. r.rpos + n - 1, i % cap = j % cap PROVE FALSE
    <3>1. j \in Nat /\ i < j + cap /\ j < i + cap /\ j < i
      <4>1. newpos = r.rpos + n /\ n \in Nat /\ r.rpos \in Nat /\ cap \in Nat /\ cap > 0
        BY <1>15, <1>17, Zenon
      <4> HIDE DEF newpos
      <4> QED BY <2>1, <4>1, SMTT(20)
    <3>2. i = j
      BY <2>1, <2>3, <3>1, SlotInjective, Zenon
    <3> QED BY <3>1, <3>2
  <2>4. i % cap \notin cleared
    BY <2>3, Zenon
  <2> QED BY <2>2, <2>4, Zenon
<1>23. Flows(s, cap)
  <2> SUFFICES ASSUME newmap[newpos % cap] PROVE Len(out.buffer) = cap
    BY <1>11, Zenon DEF Flows
  <2>1. newpos % cap \in Slots(cap)
    BY <1>17, SlotOf, Zenon
  <2>2. r.bit_map[newpos % cap] /\ newpos % cap \notin cleared
    BY <2>1, Zenon
  <2>3. n = e - r.rpos \/ Len(out.buffer) = cap
    BY <1>7, Zenon
  <2>4. CASE n = e - r.rpos
    <3>1. newpos = e
      BY <1>15, <1>16, <2>4
    <3>2. e = r.rpos + cap
      BY <1>3, <2>2, <3>1, Zenon
    <3>3. r.rpos \in r.rpos .. r.rpos + n - 1
      <4>1. r.rpos \in Nat /\ cap \in Nat /\ cap > 0 /\ n = (r.rpos + cap) - r.rpos
        BY <1>15, <2>4, <3>2, Zenon
      <4> HIDE DEF newmap, newpos, s, cleared
      <4> QED BY <4>1
    <3>4. newpos % cap = r.rpos % cap
      BY <1>15, <3>1, <3>2, SlotShift, Zenon
    <3> QED BY <2>2, <3>3, <3>4, Zenon
  <2> QED BY <2>3, <2>4
<1> QED BY <1>1, <1>11, <1>12, <1>13, <1>14, <1>19, <1>21, <1>22, <1>23, Zenon DEF Flushed

\* finish ends the output as soon as the last byte of a stream whose end is known
\* has been written.
LEMMA FinishHolds ==
  ASSUME NEW B, NEW str \in Seq(B), NEW cap \in Nat \ {0}, 
         NEW r, Flushed(r, str, cap, B), NEW index \in Nat, NEW len \in Nat, index + len <= Len(str),
         NEW last \in BOOLEAN, last => index + len = Len(str)
  PROVE  /\ Holds(finish(r, Substring(str, index, len), index, last), str, cap, B)
         /\ OnlyMore(r.output, finish(r, Substring(str, index, len), index, last).output)
         /\ Known(finish(r, Substring(str, index, len), index, last), cap) = Known(r, cap)
         /\ finish(r, Substring(str, index, len), index, last).rpos = r.rpos
         /\ Keeps(r, finish(r, Substring(str, index, len), index, last), cap)
         /\ Flows(r, cap) => Flows(finish(r, Substring(str, index, len), index, last), cap)
<1> DEFINE data == Substring(str, index, len)
           e == IF last THEN index + Len(data) ELSE r.eof_index
           o == r.output
           out == IF o.nwritten = e THEN end_input(o) ELSE o
           s == finish(r, data, index, last)
<1>1. /\ r \in ReassemblerType(cap, B, {r.unassembled_bytes}) /\ o \in ByteStreams(B) /\ Len(str) \in Nat
      /\ OutputHolds(r, str, cap) /\ RingHolds(r, str, cap) /\ r.eof_index \in {NoEof, Len(str)}
      /\ o.input_ended => o.nwritten = r.eof_index
  BY DEF Flushed, ReassemblerType
<1>2. Len(data) = len
  BY DEF Substring
<1>3. e \in {NoEof, Len(str)} /\ e \in Nat \cup {NoEof} /\ (~last => e = r.eof_index)
      /\ (last => e = Len(str))
  BY <1>1, <1>2
<1>4. s = [r EXCEPT !.eof_index = e, !.output = out]
  BY Zenon DEF finish
<1> HIDE DEF e, s, data
<1>5. end_input(o) = [o EXCEPT !.input_ended = TRUE]
  BY Zenon DEF end_input
<1>6. /\ out \in ByteStreams(B) /\ out.capacity = o.capacity /\ out.buffer = o.buffer
      /\ out.nread = o.nread /\ out.nwritten = o.nwritten /\ out.error = o.error
      /\ out.input_ended <=> o.input_ended \/ o.nwritten = e
  <2>1. CASE o.nwritten = e
    BY <1>1, <1>5, <2>1, Zenon DEF ByteStreams
  <2>2. CASE o.nwritten # e
    BY <1>1, <2>2, Zenon
  <2> QED BY <2>1, <2>2
<1> HIDE DEF out
<1>7. /\ s.output = out /\ s.eof_index = e /\ s.bit_map = r.bit_map /\ s.buffer = r.buffer
      /\ s.rpos = r.rpos /\ s \in ReassemblerType(cap, B, {s.unassembled_bytes})
  BY <1>1, <1>3, <1>4, <1>6, Zenon DEF ReassemblerType
<1>8. OutputHolds(s, str, cap)
  BY <1>1, <1>6, <1>7, Zenon DEF OutputHolds
<1>9. RingHolds(s, str, cap)
  BY <1>1, <1>7, Zenon DEF RingHolds
<1>10. o.nwritten \in Nat
  BY <1>1 DEF ByteStreams
<1>11. o.input_ended => o.nwritten = e
  BY <1>1, <1>3, <1>10 DEF NoEof
<1>12. EndHolds(s, str)
  BY <1>3, <1>6, <1>7, <1>11, Zenon DEF EndHolds
<1>13. OnlyMore(o, out)
  BY <1>6, <1>10 DEF OnlyMore
<1>14. Known(s, cap) = Known(r, cap)
  BY <1>7, Zenon DEF Known
<1>15. Keeps(r, s, cap) /\ (Flows(r, cap) => Flows(s, cap))
  BY <1>6, <1>7, Zenon DEF Keeps, Flows
<1> QED BY <1>7, <1>8, <1>9, <1>12, <1>13, <1>14, <1>15, Zenon DEF Holds, s, data

\* push_substring, of any substring of the stream, keeps a reassembler holding it and
\* only ever adds to what the reader may take, and to what it knows only those bytes.
LEMMA PushHolds ==
  ASSUME NEW B, NEW str \in Seq(B), NEW cap \in Nat \ {0}, 
         NEW r, Holds(r, str, cap, B), NEW index \in Nat, NEW len \in Nat, index + len <= Len(str),
         NEW last \in BOOLEAN, last => index + len = Len(str)
  PROVE  LET s == push_substring(r, Substring(str, index, len), index, last)
         IN /\ Holds(s, str, cap, B) /\ OnlyMore(r.output, s.output)
            /\ Known(s, cap) \subseteq Known(r, cap) \cup (index .. index + len - 1)
            /\ Keeps(r, s, cap) /\ Flows(s, cap)
            /\ r.rpos \in index .. index + len - 1 /\ Len(r.output.buffer) < cap => s.rpos > r.rpos
<1> DEFINE a == store(r, Substring(str, index, len), index)
           b == flush(a)
           c == finish(b, Substring(str, index, len), index, last)
<1>1. /\ Holds(a, str, cap, B) /\ a.output = r.output /\ a.rpos = r.rpos
      /\ Known(a, cap) \subseteq Known(r, cap) \cup (index .. index + len - 1)
      /\ Keeps(r, a, cap) /\ (r.rpos \in index .. index + len - 1 => a.bit_map[r.rpos % cap])
  <2>1. LET s == store(r, Substring(str, index, len), index)
        IN /\ Holds(s, str, cap, B) /\ s.output = r.output /\ s.rpos = r.rpos /\ s.eof_index = r.eof_index
           /\ Known(s, cap) \subseteq Known(r, cap) \cup (index .. index + len - 1)
           /\ Keeps(r, s, cap)
           /\ r.rpos \in index .. index + len - 1 => s.bit_map[r.rpos % cap]
    BY StoreHolds, Zenon
  <2> QED BY <2>1, Zenon
<1>2. /\ Flushed(b, str, cap, B) /\ OnlyMore(a.output, b.output) /\ Known(b, cap) \subseteq Known(a, cap)
      /\ Keeps(a, b, cap) /\ Flows(b, cap)
  BY <1>1, FlushHolds, Zenon
<1>3. /\ Holds(c, str, cap, B) /\ OnlyMore(b.output, c.output) /\ Known(c, cap) = Known(b, cap)
      /\ c.rpos = b.rpos /\ Keeps(b, c, cap) /\ Flows(c, cap)
  <2> HIDE DEF a, b
  <2> QED BY <1>2, FinishHolds
<1>4. /\ a.output.nwritten \in Nat /\ b.output.nwritten \in Nat /\ c.output.nwritten \in Nat
  BY <1>1, <1>2, <1>3, Zenon DEF Holds, Flushed, ReassemblerType, ByteStreams
<1> HIDE DEF a, b, c
<1>5. OnlyMore(r.output, c.output)
  BY <1>1, <1>2, <1>3, <1>4 DEF OnlyMore
<1>6. Known(c, cap) \subseteq Known(r, cap) \cup (index .. index + len - 1)
  BY <1>1, <1>2, <1>3, Zenon
<1>7. /\ r.rpos \in Nat /\ c.rpos \in Nat /\ r.rpos <= b.rpos /\ b.rpos = c.rpos
      /\ r.output.nwritten = r.rpos /\ c.output.nwritten = c.rpos
  <2>1. /\ a.rpos = a.output.nwritten /\ b.rpos = b.output.nwritten /\ c.rpos = c.output.nwritten
        /\ a.output.nwritten <= b.output.nwritten
    BY <1>1, <1>2, <1>3, <1>4 DEF Holds, Flushed, OutputHolds, OnlyMore
  <2> QED BY <1>1, <1>3, <1>4, <2>1
<1>8. Keeps(r, c, cap)
  <2> SUFFICES ASSUME NEW i \in c.rpos .. r.rpos + cap - 1, r.bit_map[i % cap] PROVE c.bit_map[i % cap]
    BY Zenon DEF Keeps
  <2>1. /\ i \in r.rpos .. r.rpos + cap - 1 /\ i \in b.rpos .. r.rpos + cap - 1
        /\ i \in c.rpos .. b.rpos + cap - 1
    BY <1>7
  <2> QED BY <1>1, <1>2, <1>3, <2>1, Zenon DEF Keeps
<1>9. ASSUME r.rpos \in index .. index + len - 1, Len(r.output.buffer) < cap, c.rpos = r.rpos PROVE FALSE
  <2>1. r.rpos \in r.rpos .. r.rpos + cap - 1
    BY <1>7
  <2>2. c.bit_map[c.rpos % cap]
    BY <1>1, <1>2, <1>3, <1>7, <1>9, <2>1, Zenon DEF Keeps
  <2>3. Len(c.output.buffer) = cap
    BY <1>3, <2>2, Zenon DEF Flows
  <2>4. /\ c.output.nread + Len(c.output.buffer) = c.output.nwritten /\ c.output.nread = r.output.nread
        /\ r.output.nread + Len(r.output.buffer) = r.output.nwritten
    BY <1>3, <1>5, Zenon DEF Holds, OutputHolds, OnlyMore
  <2>5. r.output.nread \in Nat /\ Len(r.output.buffer) \in Nat
    BY DEF Holds, ReassemblerType, ByteStreams
  <2> QED BY <1>7, <1>9, <2>3, <2>4, <2>5
<1>10. r.rpos \in index .. index + len - 1 /\ Len(r.output.buffer) < cap => c.rpos > r.rpos
  BY <1>7, <1>9
<1> QED BY <1>3, <1>5, <1>6, <1>8, <1>10, Zenon DEF push_substring, a, b, c

\* Taking bytes from the output moves nread up to them and touches nothing else.
LEMMA PopHolds ==
  ASSUME NEW B, NEW str \in Seq(B), NEW cap \in Nat \ {0}, 
         NEW r, Holds(r, str, cap, B), NEW len \in Nat
  PROVE  LET p == pop_output(r.output, len)
             s == [r EXCEPT !.output = p]
         IN /\ Holds(s, str, cap, B) /\ s.output = p
            /\ p.nread \in r.output.nread .. r.output.nwritten /\ p.nwritten = r.output.nwritten
            /\ p.input_ended = r.output.input_ended /\ p.error = r.output.error
<1> DEFINE o == r.output
           n == MinOf(buffer_size(o), len)
           rest == SubSeq(o.buffer, n + 1, Len(o.buffer))
           total == o.nread + n
           out == pop_output(o, len)
           s == [r EXCEPT !.output = out]
<1>1. /\ r \in ReassemblerType(cap, B, {r.unassembled_bytes}) /\ o \in ByteStreams(B) /\ o.buffer \in Seq(B)
      /\ o.nread \in Nat /\ o.nwritten \in Nat
  BY DEF Holds, ReassemblerType, ByteStreams
<1>2. n \in 0 .. Len(o.buffer)
  BY <1>1 DEF MinOf, buffer_size
<1> HIDE DEF n
<1>3. /\ rest \in Seq(B) /\ Len(rest) = Len(o.buffer) - n
      /\ \A k \in 1 .. Len(rest) : rest[k] = o.buffer[n + k]
  BY <1>1, <1>2
<1>4. total \in Nat
  BY <1>1, <1>2
<1>5. out = [o EXCEPT !.buffer = rest, !.nread = total]
  BY Zenon DEF pop_output, n
<1>6. total + Len(rest) = o.nread + Len(o.buffer) /\ Len(rest) <= Len(o.buffer)
  <2>1. o.nread \in Nat /\ Len(o.buffer) \in Nat /\ n \in 0 .. Len(o.buffer) /\ Len(rest) = Len(o.buffer) - n
    BY <1>1, <1>2, <1>3
  <2> HIDE DEF rest, o
  <2> QED BY <2>1
<1>7. (\A k \in 1 .. Len(o.buffer) : o.buffer[k] = str[o.nread + k]) =>
        \A k \in 1 .. Len(rest) : rest[k] = str[total + k]
  <2> SUFFICES ASSUME \A k \in 1 .. Len(o.buffer) : o.buffer[k] = str[o.nread + k],
                      NEW k \in 1 .. Len(rest)
               PROVE  rest[k] = str[total + k]
    BY Zenon
  <2> HIDE DEF rest, o
  <2>1. n + k \in 1 .. Len(o.buffer) /\ o.nread + (n + k) = total + k
    <3>1. /\ o.nread \in Nat /\ Len(o.buffer) \in Nat /\ n \in 0 .. Len(o.buffer)
          /\ Len(rest) = Len(o.buffer) - n /\ k \in 1 .. Len(rest)
      BY <1>1, <1>2, <1>3
    <3> QED BY <3>1, SMTT(20)
  <2> HIDE DEF total
  <2> QED BY <1>3, <2>1, Zenon
<1> HIDE DEF rest, total, out
<1>8. /\ out.buffer = rest /\ out.nread = total /\ out.nwritten = o.nwritten
      /\ out.capacity = o.capacity /\ out.input_ended = o.input_ended /\ out.error = o.error
      /\ out \in ByteStreams(B)
  BY <1>1, <1>3, <1>4, <1>5, Zenon DEF ByteStreams
<1>9. /\ s.output = out /\ s.eof_index = r.eof_index /\ s.bit_map = r.bit_map
      /\ s.buffer = r.buffer /\ s.rpos = r.rpos /\ s \in ReassemblerType(cap, B, {s.unassembled_bytes})
  BY <1>1, <1>8, Zenon DEF ReassemblerType
<1> HIDE DEF s
<1>10. OutputHolds(s, str, cap)
  <2>1. /\ o.capacity = cap /\ Len(o.buffer) <= cap
        /\ o.nread + Len(o.buffer) = o.nwritten /\ o.nwritten = r.rpos /\ r.rpos <= Len(str)
        /\ \A k \in 1 .. Len(o.buffer) : o.buffer[k] = str[o.nread + k]
    BY Zenon DEF Holds, OutputHolds
  <2>2. Len(rest) <= cap /\ total + Len(rest) = o.nwritten
    BY <1>1, <1>3, <1>6, <2>1
  <2> QED BY <1>7, <1>8, <1>9, <2>1, <2>2, Zenon DEF OutputHolds
<1>11. RingHolds(s, str, cap) /\ EndHolds(s, str)
  BY <1>8, <1>9, Zenon DEF Holds, RingHolds, EndHolds
<1>12. total \in o.nread .. o.nwritten
  BY <1>1, <1>2, SMTT(20) DEF Holds, OutputHolds, total
<1> QED BY <1>8, <1>9, <1>10, <1>11, <1>12, Zenon DEF Holds, s, out

\* A new reassembler holds the stream: nothing of it.
LEMMA NewHolds ==
  ASSUME NEW B, NEW str \in Seq(B), NEW cap \in Nat \ {0}, NEW filler \in B
  PROVE  Holds(new_StreamReassembler(cap, filler), str, cap, B)
<1> DEFINE r == new_StreamReassembler(cap, filler)
           o == new_ByteStream(cap)
<1>1. o \in ByteStreams(B) /\ o = [buffer |-> <<>>, capacity |-> cap, nwritten |-> 0,
                                      nread |-> 0, input_ended |-> FALSE, error |-> FALSE]
  BY DEF new_ByteStream, ByteStreams
<1>2. /\ r.output = o /\ r.rpos = 0 /\ r.eof_index = NoEof /\ r.capacity = cap
      /\ r.bit_map = [b \in Slots(cap) |-> FALSE]
  BY Zenon DEF new_StreamReassembler
<1>3. r \in ReassemblerType(cap, B, {r.unassembled_bytes})
  BY <1>1 DEF new_StreamReassembler, ReassemblerType
<1>4. OutputHolds(r, str, cap)
  BY <1>1, <1>2 DEF OutputHolds
<1>5. RingHolds(r, str, cap)
  <2> SUFFICES ASSUME NEW i \in 0 .. 0 + cap - 1 PROVE ~r.bit_map[i % cap]
    BY <1>2, Zenon DEF RingHolds
  <2>1. i \in Nat
    OBVIOUS
  <2>2. i % cap \in Slots(cap)
    BY <2>1, SlotOf, Zenon
  <2> QED BY <1>2, <2>2, Zenon
<1>6. EndHolds(r, str)
  BY <1>1, <1>2 DEF EndHolds, NoEof
<1> QED BY <1>3, <1>4, <1>5, <1>6, Zenon DEF Holds

\* Sequences are equal that agree everywhere.
LEMMA SameBytes ==
  ASSUME NEW B, NEW p \in Seq(B), NEW q \in Seq(B), Len(p) = Len(q),
         \A i \in 1 .. Len(p) : p[i] = q[i]
  PROVE  p = q
OBVIOUS

\* A sequence that agrees with the stream from some index on is a stretch of it.
LEMMA StretchOfStream ==
  ASSUME NEW B, NEW str \in Seq(B), NEW b \in Seq(B), NEW from \in Nat, NEW to \in Nat,
         from + Len(b) = to, to <= Len(str),
         \A k \in 1 .. Len(b) : b[k] = str[from + k]
  PROVE  b = SubSeq(str, from + 1, to)
<1> DEFINE t == SubSeq(str, from + 1, to)
<1>1. Len(b) \in Nat /\ str \in Seq(B) /\ Len(str) \in Nat
  OBVIOUS
<1>2. \A i \in from + 1 .. to : str[i] \in B
  BY <1>1
<1>3. /\ t \in Seq(B)
      /\ Len(t) = IF from + 1 <= to THEN to - (from + 1) + 1 ELSE 0
      /\ \A i \in 1 .. to - (from + 1) + 1 : t[i] = str[from + 1 + i - 1]
  BY <1>2
<1> HIDE DEF t
<1>4. Len(t) = Len(b) /\ to - (from + 1) + 1 = Len(b)
  BY <1>1, <1>3
<1>5. \A i \in 1 .. Len(b) : t[i] = b[i]
  <2> SUFFICES ASSUME NEW i \in 1 .. Len(b) PROVE t[i] = b[i]
    OBVIOUS
  <2>1. from + 1 + i - 1 = from + i
    BY <1>1
  <2> QED BY <1>3, <1>4, <2>1, Zenon
<1>6. b = t
  BY <1>3, <1>4, <1>5, SameBytes
<1> QED BY <1>6, Zenon DEF t

\* What waits in the output is the stretch of the stream between the two counters.
LEMMA WaitingIsStretch ==
  ASSUME NEW B, NEW str \in Seq(B), NEW cap \in Nat \ {0}, 
         NEW r, Holds(r, str, cap, B)
  PROVE  LET o == r.output
         IN /\ o.buffer = SubSeq(str, o.nread + 1, o.nwritten)
            /\ o.nread \in Nat /\ o.nwritten \in 0 .. Len(str) /\ o.nread <= o.nwritten
            /\ o.nwritten <= o.nread + cap
            /\ o.input_ended \in BOOLEAN
            /\ o.input_ended => o.nwritten = Len(str)
<1> DEFINE o == r.output
<1>1. /\ o.buffer \in Seq(B) /\ o.nread \in Nat /\ o.nwritten \in Nat
      /\ o.input_ended \in BOOLEAN
  BY Zenon DEF Holds, ReassemblerType, ByteStreams
<1>2. /\ Len(o.buffer) <= cap /\ o.nread + Len(o.buffer) = o.nwritten
      /\ o.nwritten <= Len(str) /\ str \in Seq(B)
      /\ \A k \in 1 .. Len(o.buffer) : o.buffer[k] = str[o.nread + k]
  BY Zenon DEF Holds, OutputHolds
<1>3. o.input_ended => o.nwritten = Len(str)
  BY <1>1 DEF Holds, EndHolds, NoEof
<1>4. o.buffer = SubSeq(str, o.nread + 1, o.nwritten)
  BY <1>1, <1>2, StretchOfStream, ZenonT(30)
<1>5. /\ o.nwritten \in 0 .. Len(str) /\ o.nread <= o.nwritten
      /\ o.nwritten <= o.nread + cap
  BY <1>1, <1>2, SMTT(20)
<1> QED BY <1>1, <1>3, <1>4, <1>5, Zenon

\* A push moves the end of the stream exactly when it is marked last.
LEMMA PushEof ==
  ASSUME NEW B, NEW str \in Seq(B), NEW cap \in Nat \ {0},
         NEW r, Holds(r, str, cap, B), NEW index \in Nat, NEW len \in Nat, index + len <= Len(str),
         NEW last \in BOOLEAN
  PROVE  push_substring(r, Substring(str, index, len), index, last).eof_index =
           IF last THEN index + len ELSE r.eof_index
<1> DEFINE data == Substring(str, index, len)
           a == store(r, data, index)
           b == flush(a)
<1>1. Holds(a, str, cap, B) /\ a.eof_index = r.eof_index
  BY StoreHolds
<1>2. a \in ReassemblerType(cap, B, {a.unassembled_bytes})
  BY <1>1, Zenon DEF Holds
<1>3. Flushed(b, str, cap, B)
  BY <1>1, FlushHolds, Zenon
<1>4. b.eof_index = a.eof_index
  <2> HIDE DEF a
  <2> QED BY <1>2, Zenon DEF flush, ReassemblerType
<1>5. b \in ReassemblerType(cap, B, {b.unassembled_bytes})
  BY <1>3, Zenon DEF Flushed
<1>6. Len(data) = len
  BY DEF Substring
<1> HIDE DEF b, data
<1>7. finish(b, data, index, last).eof_index = IF last THEN index + Len(data) ELSE b.eof_index
  BY <1>5, Zenon DEF finish, ReassemblerType
<1> QED BY <1>1, <1>4, <1>6, <1>7, Zenon DEF push_substring, a, b, data

\* An empty substring stores nothing, wherever it is said to start.
LEMMA EmptyPush ==
  ASSUME NEW B, NEW str \in Seq(B), NEW cap \in Nat \ {0},
         NEW r, Holds(r, str, cap, B), NEW index \in Nat
  PROVE  push_substring(r, << >>, index, FALSE) = push_substring(r, << >>, 0, FALSE)
<1>1. r.rpos \in Nat /\ r.capacity \in Nat
  BY DEF Holds, ReassemblerType
<1>2. ASSUME NEW i \in Nat PROVE StoredIndices(r, << >>, i) = {}
  BY <1>1, SMTT(20) DEF StoredIndices, MaxOf, MinOf
<1>3. store(r, << >>, index) = store(r, << >>, 0)
  <2> DEFINE still == [b \in Slots(r.capacity) |-> r.buffer[b]]
             result == [r EXCEPT
               !.buffer = still,
               !.bit_map = [b \in Slots(r.capacity) |-> b \in {} \/ r.bit_map[b]],
               !.unassembled_bytes = @ + Cardinality({j \in {} : ~r.bit_map[j % r.capacity]})]
  <2>1. ASSUME NEW i \in Nat PROVE store(r, << >>, i) = result
    <3> DEFINE copied == [b \in Slots(r.capacity) |->
                 IF b \in {} THEN << >>[(CHOOSE j \in {} : j % r.capacity = b) - i + 1] ELSE r.buffer[b]]
    <3>1. StoredIndices(r, << >>, i) = {}
      BY <1>2
    <3>2. {j % r.capacity : j \in {}} = {}
      OBVIOUS
    <3>3. copied = still
      BY Zenon
    <3> QED BY <3>1, <3>2, <3>3, Zenon DEF store
  <2> QED BY <2>1, Zenon
<1>4. ASSUME NEW b PROVE finish(b, << >>, index, FALSE) = finish(b, << >>, 0, FALSE)
  BY Zenon DEF finish
<1> QED BY <1>3, <1>4, Zenon DEF push_substring

\* Where a piece of SYN, stream and FIN lies in the stream.
Index(abs) == IF abs > 0 THEN abs - 1 ELSE 0

\* seg is a piece of SYN, str and FIN, the one that starts at absolute number abs.
Cut(seg, abs, isn, str) ==
  LET len == length_in_sequence_space(seg)
      n == Len(seg.payload)
  IN /\ seg.seqno = wrap(abs, isn) /\ abs + len <= Len(str) + 2
     /\ seg.syn = (abs = 0 /\ len > 0) /\ seg.fin = (len > 0 /\ abs + len = Len(str) + 2)
     /\ n \in Nat /\ seg.payload = Substring(str, Index(abs), n)

\* What a piece carries lies within the stream, and the FIN behind its end.
LEMMA CutSpec ==
  ASSUME NEW B, NEW str \in Seq(B), NEW abs \in Nat, NEW isn, NEW seg, Cut(seg, abs, isn, str)
  PROVE  LET len == length_in_sequence_space(seg)
             n == Len(seg.payload)
         IN /\ len \in Nat /\ n \in Nat /\ abs + len <= Len(str) + 2 /\ n <= len
            /\ Index(abs) \in Nat /\ (abs > 0 => Index(abs) = abs - 1) /\ (abs = 0 => Index(abs) = 0)
            /\ n # 0 => Index(abs) + n <= Len(str)
            /\ seg.fin => Index(abs) + n = Len(str)
            /\ len > 0 => n > 0 \/ seg.syn \/ seg.fin
            /\ \A k \in 1 .. n : Index(abs) + k \in abs .. abs + len - 1
<1> DEFINE len == length_in_sequence_space(seg)
           n == Len(seg.payload)
           L == Len(str)
           S == IF abs = 0 /\ len > 0 THEN 1 ELSE 0
           F == IF len > 0 /\ abs + len = L + 2 THEN 1 ELSE 0
<1>1. /\ abs + len <= L + 2 /\ n \in Nat /\ seg.syn = (abs = 0 /\ len > 0)
      /\ seg.fin = (len > 0 /\ abs + len = L + 2)
  BY Zenon DEF Cut
<1>2. bit(seg.syn) = S /\ bit(seg.fin) = F
  BY <1>1, Zenon DEF bit
<1>3. len = n + S + F
  BY <1>2, Zenon DEF length_in_sequence_space
<1>4. L \in Nat
  OBVIOUS
<1> HIDE DEF len, n, L
<1>5. len \in Nat
  BY <1>1, <1>3
<1>6. Index(abs) \in Nat /\ (abs > 0 => Index(abs) = abs - 1) /\ (abs = 0 => Index(abs) = 0)
  BY DEF Index
<1> DEFINE i == Index(abs)
<1> HIDE DEF i
<1>7. i \in Nat /\ (abs > 0 => i = abs - 1) /\ (abs = 0 => i = 0)
  BY <1>6 DEF i
<1>8. abs + len <= L + 2 /\ n \in Nat
  BY <1>1
<1>9. n # 0 => i + n <= L
  BY <1>3, <1>4, <1>5, <1>7, <1>8
<1>10. len > 0 /\ abs + len = L + 2 => i + n = L
  BY <1>3, <1>4, <1>5, <1>7, <1>8
<1>11. len > 0 => n > 0 \/ (abs = 0 /\ len > 0) \/ (len > 0 /\ abs + len = L + 2)
  BY <1>3, <1>4, <1>5, <1>8
<1>12. \A k \in 1 .. n : i + k \in abs .. abs + len - 1
  BY <1>3, <1>4, <1>5, <1>7, <1>8
<1>13. n <= len
  BY <1>3, <1>5, <1>8
<1> QED BY <1>1, <1>5, <1>6, <1>8, <1>9, <1>10, <1>11, <1>12, <1>13, Zenon DEF len, n, L, i

\* The running count is the number of occupied slots.
CountExact(r) == r.unassembled_bytes = Cardinality(Occupied(r))

\* What is known of the cardinality of finite sets, which FiniteSetTheorems states: the lemmas
\* on the count take it as a hypothesis, and the modules that are about the count discharge it.
Counting ==
  /\ \A a, b \in Int : IsFiniteSet(a .. b) /\ Cardinality(a .. b) = IF a > b THEN 0 ELSE b - a + 1
  /\ \A S : IsFiniteSet(S) => Cardinality(S) \in Nat
  /\ \A S : IsFiniteSet(S) => \A T \in SUBSET S : IsFiniteSet(T)
  /\ \A S, T : IsFiniteSet(S) /\ IsFiniteSet(T) =>
       Cardinality(S \cup T) = Cardinality(S) + Cardinality(T) - Cardinality(S \cap T)
  /\ \A S, T : IsFiniteSet(S) => Cardinality(S \ T) = Cardinality(S) - Cardinality(S \cap T)
  /\ \A S, T : IsFiniteSet(S) /\ Bijection(S, T) # {} => IsFiniteSet(T) /\ Cardinality(T) = Cardinality(S)
  /\ Cardinality({}) = 0

\* Indices of one window occupy as many slots as there are of them.
LEMMA SlotCount ==
  ASSUME Counting, NEW cap \in Nat \ {0}, NEW a \in Nat, NEW W \in SUBSET (a .. a + cap - 1)
  PROVE  /\ IsFiniteSet(W) /\ IsFiniteSet({i % cap : i \in W})
         /\ Cardinality({i % cap : i \in W}) = Cardinality(W)
<1> DEFINE T == {i % cap : i \in W}
           f == [i \in W |-> i % cap]
<1>1. IsFiniteSet(W)
  <2> DEFINE V == a .. a + cap - 1
  <2>1. a \in Int /\ a + cap - 1 \in Int
    OBVIOUS
  <2>2. IsFiniteSet(V) /\ W \in SUBSET V
    BY <2>1, Zenon DEF Counting
  <2> HIDE DEF V
  <2> QED BY <2>2, Zenon DEF Counting
<1>2. \A i, j \in W : i % cap = j % cap => i = j
  <2> SUFFICES ASSUME NEW i \in W, NEW j \in W, i % cap = j % cap PROVE i = j
    OBVIOUS
  <2>1. i \in Nat /\ j \in Nat /\ i < j + cap /\ j < i + cap
    OBVIOUS
  <2> QED BY <2>1, SlotInjective, Zenon
<1>3. f \in Bijection(W, T)
  BY <1>2, Zenon DEF Bijection, Injection, Surjection, IsInjective
<1> QED BY <1>1, <1>3, Zenon DEF Counting

\* The occupied slots are finitely many.
LEMMA OccupiedFinite ==
  ASSUME Counting, NEW B, NEW str \in Seq(B), NEW cap \in Nat \ {0}, NEW r, Holds(r, str, cap, B)
  PROVE  IsFiniteSet(Occupied(r)) /\ Cardinality(Occupied(r)) \in Nat
<1>1. r.capacity = cap
  BY Zenon DEF Holds, ReassemblerType
<1>2. IsFiniteSet(Slots(cap))
  <2>1. 0 \in Int /\ cap - 1 \in Int
    OBVIOUS
  <2> QED BY <2>1, Zenon DEF Counting, Slots
<1>3. Occupied(r) \in SUBSET Slots(cap)
  BY <1>1, Zenon DEF Occupied
<1> QED BY <1>2, <1>3, Zenon DEF Counting

\* store counts the bytes that were not there yet.
LEMMA StoreExact ==
  ASSUME Counting, NEW B, NEW str \in Seq(B), NEW cap \in Nat \ {0}, NEW r, Holds(r, str, cap, B),
         CountExact(r),
         NEW index \in Nat, NEW data \in Seq(B)
  PROVE  CountExact(store(r, data, index))
<1> DEFINE stored == StoredIndices(r, data, index)
           new == {i \in stored : ~r.bit_map[i % cap]}
           slot == {i % cap : i \in stored}
           fresh == {i % cap : i \in new}
           s == store(r, data, index)
<1>1. /\ r.capacity = cap /\ r.rpos \in Nat /\ r.bit_map \in [Slots(cap) -> BOOLEAN]
      /\ r \in ReassemblerType(cap, B, {r.unassembled_bytes})
  BY Zenon DEF Holds, ReassemblerType
<1>2. stored \subseteq r.rpos .. r.rpos + cap - 1
  BY <1>1, SMTT(20) DEF StoredIndices, MaxOf, MinOf
<1>3. \A i \in stored : i % cap \in Slots(cap)
  <2>1. \A i \in stored : i \in Nat
    BY <1>1, <1>2
  <2> QED BY <2>1, SlotOf, Zenon
<1>4. s.unassembled_bytes = r.unassembled_bytes + Cardinality(new) /\ s.capacity = cap
      /\ s.bit_map = [b \in Slots(cap) |-> b \in slot \/ r.bit_map[b]]
  <2> DEFINE to(z) == {i % z : i \in stored}
             buf(z) == [b \in Slots(z) |->
                          IF b \in to(z) THEN data[(CHOOSE i \in stored : i % z = b) - index + 1] ELSE r.buffer[b]]
             map(z) == [b \in Slots(z) |-> b \in to(z) \/ r.bit_map[b]]
             count(z) == r.unassembled_bytes + Cardinality({i \in stored : ~r.bit_map[i % z]})
  <2>1. s = [r EXCEPT !.buffer = buf(r.capacity), !.bit_map = map(r.capacity), !.unassembled_bytes = count(r.capacity)]
    BY Zenon DEF store
  <2> HIDE DEF s, buf, map, count
  <2>2. s.unassembled_bytes = count(cap) /\ s.capacity = cap /\ s.bit_map = map(cap)
    BY <1>1, <2>1, Zenon DEF ReassemblerType
  <2> QED BY <2>2, Zenon DEF map, count
<1> HIDE DEF s, stored
<1>5. Occupied(s) = Occupied(r) \cup fresh
  <2>1. ASSUME NEW b \in Slots(cap) PROVE (b \in slot \/ r.bit_map[b]) <=> (r.bit_map[b] \/ b \in fresh)
    BY Zenon
  <2>2. fresh \subseteq Slots(cap)
    BY <1>3, Zenon
  <2> HIDE DEF fresh, slot
  <2>3. Occupied(s) = {b \in Slots(cap) : b \in slot \/ r.bit_map[b]}
    BY <1>4, Zenon DEF Occupied
  <2>4. Occupied(r) = {b \in Slots(cap) : r.bit_map[b]}
    BY <1>1, Zenon DEF Occupied
  <2> QED BY <2>1, <2>2, <2>3, <2>4, Zenon
<1>6. Occupied(r) \cap fresh = {}
  BY Zenon DEF Occupied
<1>7. IsFiniteSet(fresh) /\ Cardinality(fresh) = Cardinality(new) /\ IsFiniteSet(new)
  <2>1. new \in SUBSET (r.rpos .. r.rpos + cap - 1)
    BY <1>2, Zenon
  <2> HIDE DEF new
  <2> QED BY <1>1, <2>1, SlotCount, Zenon
<1> HIDE DEF fresh, new
<1>8. IsFiniteSet(Occupied(r)) /\ Cardinality(Occupied(r)) \in Nat /\ Cardinality(new) \in Nat
  BY <1>7, OccupiedFinite, Zenon DEF Counting
<1>9. Cardinality(Occupied(s)) = Cardinality(Occupied(r)) + Cardinality(fresh) - Cardinality({})
  <2>1. Cardinality(Occupied(r) \cup fresh) =
          Cardinality(Occupied(r)) + Cardinality(fresh) - Cardinality(Occupied(r) \cap fresh)
    BY <1>7, <1>8, Zenon DEF Counting
  <2> QED BY <1>5, <1>6, <2>1, Zenon
<1>10. Cardinality({}) = 0
  BY Zenon DEF Counting
<1>11. Cardinality(Occupied(s)) = Cardinality(Occupied(r)) + Cardinality(new)
  BY <1>7, <1>8, <1>9, <1>10
<1> QED BY <1>4, <1>11, Zenon DEF CountExact, s

\* flush takes off as many as it moves.
LEMMA FlushExact ==
  ASSUME Counting, NEW B, NEW str \in Seq(B), NEW cap \in Nat \ {0}, NEW r, Holds(r, str, cap, B),
         CountExact(r)
  PROVE  CountExact(flush(r))
<1> DEFINE e == avail_end(r)
           submit == [k \in 1 .. e - r.rpos |-> r.buffer[(r.rpos + k - 1) % cap]]
           n == write_count(r.output, submit)
           W == r.rpos .. r.rpos + n - 1
           cleared == {i % cap : i \in W}
           s == flush(r)
<1>1. /\ r.capacity = cap /\ r.rpos \in Nat /\ cap \in Nat /\ r.output.capacity = cap
      /\ r \in ReassemblerType(cap, B, {r.unassembled_bytes})
      /\ Len(r.output.buffer) <= cap /\ Len(r.output.buffer) \in Nat
  BY DEF Holds, ReassemblerType, OutputHolds, ByteStreams
<1>2. e \in r.rpos .. r.rpos + cap /\ \A i \in r.rpos .. e - 1 : r.bit_map[i % cap]
  BY AvailEnd, Zenon
<1>3. s.unassembled_bytes = r.unassembled_bytes - n /\ s.capacity = cap
      /\ s.bit_map = [b \in Slots(cap) |-> r.bit_map[b] /\ b \notin cleared]
  <2> DEFINE out == write(r.output, submit)
             newmap == [b \in Slots(cap) |-> r.bit_map[b] /\ b \notin cleared]
             pos == r.rpos + n
             count == r.unassembled_bytes - n
  <2>1. s = [r EXCEPT !.output = out, !.bit_map = newmap, !.rpos = pos, !.unassembled_bytes = count]
    BY <1>1 DEF flush
  <2> HIDE DEF s, out, newmap, pos, count
  <2>2. s.unassembled_bytes = count /\ s.capacity = cap /\ s.bit_map = newmap
    BY <1>1, <2>1, Zenon DEF ReassemblerType
  <2> QED BY <2>2, Zenon DEF newmap, count
<1> HIDE DEF s, e
<1>4. Len(submit) = e - r.rpos
  <2>1. e - r.rpos \in Nat
    BY <1>1, <1>2
  <2> QED BY <2>1
<1>5. n = MinOf(Len(submit), cap - Len(r.output.buffer))
  BY <1>1, Zenon DEF write_count, remaining_capacity, buffer_size
<1> HIDE DEF submit, n
<1>6. n \in Nat /\ r.rpos + n <= e /\ r.rpos + n <= r.rpos + cap
  <2> DEFINE p == r.rpos
             m == Len(r.output.buffer)
  <2>1. p \in Nat /\ m \in Nat /\ m <= cap /\ e \in p .. p + cap
    BY <1>1, <1>2
  <2>2. n = IF e - p <= cap - m THEN e - p ELSE cap - m
    BY <1>4, <1>5, Zenon DEF MinOf
  <2> HIDE DEF p, m
  <2>3. n \in Nat /\ p + n <= e /\ p + n <= p + cap
    BY <2>1, <2>2
  <2> QED BY <2>3 DEF p
<1>7. /\ W \in SUBSET (r.rpos .. r.rpos + cap - 1) /\ \A i \in W : r.bit_map[i % cap]
      /\ \A i \in W : i \in Nat
  <2>1. W \in SUBSET (r.rpos .. r.rpos + cap - 1) /\ W \subseteq r.rpos .. e - 1 /\ \A i \in W : i \in Nat
    <3> DEFINE p == r.rpos
    <3>1. p \in Nat /\ cap \in Nat /\ e \in p .. p + cap /\ n \in Nat /\ p + n <= e /\ p + n <= p + cap
      BY <1>1, <1>2, <1>6, Zenon
    <3> HIDE DEF p
    <3>2. \A i \in p .. p + n - 1 : i \in p .. p + cap - 1 /\ i \in p .. e - 1 /\ i \in Nat
      BY <3>1
    <3> QED BY <3>2, Zenon DEF p
  <2> HIDE DEF W
  <2> QED BY <1>2, <2>1, Zenon
<1>8. Cardinality(W) = n
  <2>1. \A a, m \in Nat : Cardinality(a .. a + m - 1) = m
    <3> TAKE a, m \in Nat
    <3>1. a \in Int /\ a + m - 1 \in Int
      OBVIOUS
    <3>2. Cardinality(a .. a + m - 1) = IF a > a + m - 1 THEN 0 ELSE (a + m - 1) - a + 1
      BY <3>1, Zenon DEF Counting
    <3> QED BY <3>2
  <2> QED BY <1>1, <1>6, <2>1, Zenon
<1> HIDE DEF W
<1>9. Cardinality(cleared) = n
  BY <1>1, <1>7, <1>8, SlotCount, Zenon
<1>10. Occupied(r) \cap cleared = cleared
  <2>1. ASSUME NEW i \in W PROVE i % cap \in Slots(cap) /\ r.bit_map[i % cap]
    BY <1>7, <2>1, SlotOf, Zenon
  <2> QED BY <1>1, <2>1, Zenon DEF Occupied
<1> HIDE DEF cleared
<1>11. Occupied(s) = Occupied(r) \ cleared
  BY <1>1, <1>3, Zenon DEF Occupied
<1>12. Cardinality(Occupied(s)) = Cardinality(Occupied(r)) - Cardinality(cleared)
  <2>1. IsFiniteSet(Occupied(r))
    BY OccupiedFinite, Zenon
  <2>2. Cardinality(Occupied(r) \ cleared) = Cardinality(Occupied(r)) - Cardinality(Occupied(r) \cap cleared)
    BY <2>1, Zenon DEF Counting
  <2> QED BY <1>10, <1>11, <2>2, Zenon
<1> QED BY <1>3, <1>9, <1>12, Zenon DEF CountExact, s

\* push_substring keeps the count exact, across every overlap and repetition.
LEMMA PushExact ==
  ASSUME Counting, NEW B, NEW str \in Seq(B), NEW cap \in Nat \ {0}, NEW r, Holds(r, str, cap, B),
         CountExact(r),
         NEW index \in Nat, NEW len \in Nat, index + len <= Len(str), NEW last \in BOOLEAN
  PROVE  CountExact(push_substring(r, Substring(str, index, len), index, last))
<1> DEFINE data == Substring(str, index, len)
           a == store(r, data, index)
           b == flush(a)
           c == finish(b, data, index, last)
<1>1. data \in Seq(B)
  BY DEF Substring
<1>2. Holds(a, str, cap, B)
  BY StoreHolds
<1>3. CountExact(a)
  <2> HIDE DEF data
  <2> QED BY <1>1, StoreExact, Zenon
<1> HIDE DEF a
<1>4. CountExact(b) /\ Flushed(b, str, cap, B)
  BY <1>2, <1>3, FlushExact, FlushHolds, Zenon
<1>5. b \in ReassemblerType(cap, B, {b.unassembled_bytes})
  BY <1>4, Zenon DEF Flushed
<1> HIDE DEF b
<1>6. c.unassembled_bytes = b.unassembled_bytes /\ c.bit_map = b.bit_map /\ c.capacity = b.capacity
  BY <1>5, Zenon DEF finish, ReassemblerType
<1>7. Occupied(c) = Occupied(b)
  BY <1>6, Zenon DEF Occupied
<1> QED BY <1>4, <1>6, <1>7, Zenon DEF CountExact, push_substring, a, b, c

\* Nothing is stored at first.
LEMMA NewExact ==
  ASSUME Counting, NEW cap \in Nat \ {0}, NEW filler
  PROVE  CountExact(new_StreamReassembler(cap, filler))
<1> DEFINE r == new_StreamReassembler(cap, filler)
<1>1. r.unassembled_bytes = 0 /\ Occupied(r) = {}
  BY Zenon DEF new_StreamReassembler, Occupied
<1> QED BY <1>1, Zenon DEF CountExact, Counting

\* A receiver holds the stream of a peer whose initial sequence number is isn, and knows
\* its end exactly when a FIN was accepted whole.
ReceiverOf(rcv, str, cap, B, isn) ==
  /\ rcv \in [reassembler : {rcv.reassembler}, isn : {NoIsn, isn}, fin_abs_seq : Nat]
  /\ Holds(rcv.reassembler, str, cap, B)
  /\ rcv.fin_abs_seq = IF rcv.reassembler.eof_index = NoEof THEN 0 ELSE Len(str) + 2

\* What a segment may do to the receiver, seen by its reader and by its peer.
Advances(rcv, t) ==
  /\ OnlyMore(stream_out(rcv), stream_out(t))
  /\ has_ackno(rcv) => has_ackno(t)
  /\ rcv.fin_abs_seq # 0 => t.fin_abs_seq = rcv.fin_abs_seq

\* segment_received, of any recent piece, pushes the right bytes at the right index, and
\* marks them last exactly when they are.
LEMMA ReceiveHolds ==
  ASSUME NEW B, NEW str \in Seq(B), NEW cap \in Nat \ {0}, NEW Isn \in WrappingInt32,
         NEW rcv, ReceiverOf(rcv, str, cap, B, Isn), NEW abs \in Nat, NEW seg, Cut(seg, abs, Isn, str),
         abs < stream_out(rcv).nwritten + HalfSeq, stream_out(rcv).nwritten <= abs + HalfSeq
  PROVE  LET t == receive(rcv, seg)
             n == Len(seg.payload)
         IN /\ ReceiverOf(t, str, cap, B, Isn) /\ Advances(rcv, t)
            /\ has_ackno(t) /\ ~has_ackno(rcv) => seg.syn
            /\ ~has_ackno(t) => t = rcv
            /\ t.fin_abs_seq # rcv.fin_abs_seq => seg.fin
            /\ Known(t.reassembler, cap) \subseteq
                 Known(rcv.reassembler, cap) \cup (Index(abs) .. Index(abs) + n - 1)
            /\ Counting /\ CountExact(rcv.reassembler) => CountExact(t.reassembler)
<1> DEFINE r == rcv.reassembler
           t == receive(rcv, seg)
           n == Len(seg.payload)
           EndSeq == Len(str) + 2
           isn == IF seg.syn /\ ~has_ackno(rcv) THEN seg.seqno ELSE rcv.isn
           left == IF has_ackno(rcv) THEN abs_ackno(rcv) ELSE 0
           right == left + window_size(rcv)
           abs_seq == unwrap(seg.seqno, isn, stream_out(rcv).nwritten)
           size == length_in_sequence_space(seg)
           late_ack == rcv.fin_abs_seq > 0 /\ abs_seq >= rcv.fin_abs_seq /\ size = 0
           fin == IF abs_seq + size <= right /\ seg.fin THEN abs_seq + size ELSE rcv.fin_abs_seq
           index == IF abs_seq > 0 THEN abs_seq - 1 ELSE 0
           last == index + n + 2 = fin
           pushed == push_substring(r, seg.payload, index, last)
           skipped == isn = NoIsn \/ late_ack \/ ~overlaps(abs_seq, size, left, right)
<1>1. t = IF skipped THEN [rcv EXCEPT !.isn = isn]
          ELSE [isn |-> isn, fin_abs_seq |-> fin, reassembler |-> pushed]
  BY Zenon DEF receive
<1>2. EndSeq \in Nat /\ Len(str) \in Nat /\ EndSeq = Len(str) + 2
  OBVIOUS
<1>3. /\ seg.seqno = wrap(abs, Isn) /\ seg.syn = (abs = 0 /\ size > 0)
      /\ seg.fin = (size > 0 /\ abs + size = EndSeq)
      /\ seg.payload = Substring(str, Index(abs), n)
  BY Zenon DEF Cut
<1>4. /\ size \in Nat /\ n \in Nat /\ Index(abs) \in Nat
      /\ (abs > 0 => Index(abs) = abs - 1) /\ (abs = 0 => Index(abs) = 0)
      /\ n # 0 => Index(abs) + n <= Len(str)
      /\ seg.fin => Index(abs) + n = Len(str)
  <2>1. LET len == length_in_sequence_space(seg)
            m == Len(seg.payload)
        IN /\ len \in Nat /\ m \in Nat
           /\ Index(abs) \in Nat /\ (abs > 0 => Index(abs) = abs - 1) /\ (abs = 0 => Index(abs) = 0)
           /\ m # 0 => Index(abs) + m <= Len(str)
           /\ seg.fin => Index(abs) + m = Len(str)
    BY CutSpec
  <2> QED BY <2>1, Zenon
<1>5. /\ rcv \in [reassembler : {r}, isn : {NoIsn, Isn}, fin_abs_seq : Nat]
      /\ Holds(r, str, cap, B) /\ rcv.isn \in {NoIsn, Isn} /\ rcv.fin_abs_seq \in Nat
      /\ rcv.fin_abs_seq = IF r.eof_index = NoEof THEN 0 ELSE EndSeq
  BY Zenon DEF ReceiverOf
<1>6. r.output.nwritten \in Nat /\ r.eof_index \in {NoEof, Len(str)} /\ Len(str) # NoEof
  BY <1>2, <1>5 DEF Holds, ReassemblerType, ByteStreams, EndHolds, NoEof
<1>7. /\ isn \in {NoIsn, Isn} /\ (has_ackno(rcv) => isn = rcv.isn /\ isn # NoIsn)
      /\ isn # NoIsn /\ ~has_ackno(rcv) => seg.syn
      /\ isn = NoIsn => isn = rcv.isn
  <2>1. CASE seg.syn /\ ~has_ackno(rcv)
    <3>1. wrap(0, Isn) = Isn
      BY SeqModAssumption DEF wrap, wadd, WrappingInt32
    <3>2. isn = Isn /\ rcv.isn = NoIsn
      BY <1>3, <2>1, <3>1, Zenon DEF has_ackno
    <3> QED BY <2>1, <3>2, Zenon
  <2>2. CASE ~(seg.syn /\ ~has_ackno(rcv))
    BY <1>5, <2>2, Zenon DEF has_ackno
  <2> QED BY <2>1, <2>2
<1>8. isn # NoIsn => abs_seq = abs
  <2>1. abs < r.output.nwritten + HalfSeq /\ r.output.nwritten <= abs + HalfSeq
    BY Zenon DEF stream_out
  <2>2. unwrap(wrap(abs, Isn), Isn, r.output.nwritten) = abs
    BY <1>6, <2>1, UnwrapWrap, Zenon
  <2> QED BY <1>3, <1>7, <2>2, Zenon DEF stream_out
<1> HIDE DEF isn, abs_seq, size, n, left, right, t
<1>9. CASE skipped
  <2>1. t = [rcv EXCEPT !.isn = isn]
    BY <1>1, <1>9, Zenon
  <2>2. /\ t.isn = isn /\ t.reassembler = r /\ t.fin_abs_seq = rcv.fin_abs_seq
        /\ t \in [reassembler : {r}, isn : {NoIsn, Isn}, fin_abs_seq : Nat]
    BY <1>5, <1>7, <2>1, Zenon
  <2>3. ReceiverOf(t, str, cap, B, Isn)
    BY <1>5, <2>2, Zenon DEF ReceiverOf
  <2>4. OnlyMore(stream_out(rcv), stream_out(t))
    BY <1>6, <2>2 DEF OnlyMore, stream_out
  <2>5. Advances(rcv, t) /\ (has_ackno(t) /\ ~has_ackno(rcv) => seg.syn)
    BY <1>7, <2>2, <2>4, Zenon DEF Advances, has_ackno
  <2>6. ~has_ackno(t) => t = rcv
    BY <1>5, <1>7, <2>1, <2>2, Zenon DEF has_ackno
  <2> QED BY <2>2, <2>3, <2>5, <2>6, Zenon DEF t, n
<1>10. CASE ~skipped
  <2>1. /\ t.isn = isn /\ t.fin_abs_seq = fin /\ t.reassembler = pushed
        /\ t = [isn |-> isn, fin_abs_seq |-> fin, reassembler |-> pushed]
    BY <1>1, <1>10, Zenon
  <2>2. isn = Isn /\ isn # NoIsn /\ abs_seq = abs /\ index = Index(abs) /\ ~late_ack
    BY <1>7, <1>8, <1>10, Zenon DEF Index
  <2>4. /\ fin \in {0, EndSeq} /\ (rcv.fin_abs_seq # 0 => fin = rcv.fin_abs_seq)
        /\ fin # rcv.fin_abs_seq => seg.fin /\ fin = EndSeq /\ Index(abs) + n = Len(str)
    <3>1. CASE abs_seq + size <= right /\ seg.fin
      <4>1. fin = EndSeq /\ Index(abs) + n = Len(str)
        BY <1>3, <1>4, <2>2, <3>1, Zenon
      <4> QED BY <1>2, <1>5, <3>1, <4>1
    <3>2. CASE ~(abs_seq + size <= right /\ seg.fin)
      BY <1>5, <3>2
    <3> QED BY <3>1, <3>2
  <2>5. last \in BOOLEAN /\ (last <=> fin = EndSeq /\ Index(abs) + n = Len(str))
    BY <1>2, <1>4, <2>2, <2>4
  <2> HIDE DEF fin, index, last, late_ack
  <2>6. /\ Holds(pushed, str, cap, B) /\ OnlyMore(r.output, pushed.output)
        /\ pushed.eof_index = IF last THEN Len(str) ELSE r.eof_index
        /\ Known(pushed, cap) \subseteq Known(r, cap) \cup (Index(abs) .. Index(abs) + n - 1)
        /\ Counting /\ CountExact(r) => CountExact(pushed)
    <3>1. CASE Index(abs) + n <= Len(str)
      <4>1. LET p == push_substring(r, Substring(str, Index(abs), n), Index(abs), last)
            IN /\ Holds(p, str, cap, B) /\ OnlyMore(r.output, p.output)
               /\ Known(p, cap) \subseteq Known(r, cap) \cup (Index(abs) .. Index(abs) + n - 1)
        BY <1>4, <1>5, <2>5, <3>1, PushHolds
      <4>2. push_substring(r, Substring(str, Index(abs), n), Index(abs), last).eof_index =
              IF last THEN Index(abs) + n ELSE r.eof_index
        BY <1>4, <1>5, <2>5, <3>1, PushEof
      <4>4. Counting /\ CountExact(r) => CountExact(push_substring(r, Substring(str, Index(abs), n), Index(abs), last))
        BY <1>4, <1>5, <2>5, <3>1, PushExact, Zenon
      <4>3. pushed = push_substring(r, Substring(str, Index(abs), n), Index(abs), last)
        BY <1>3, <2>2, Zenon
      <4> HIDE DEF pushed
      <4> QED BY <2>5, <4>1, <4>2, <4>3, <4>4, Zenon
    <3>2. CASE ~(Index(abs) + n <= Len(str))
      <4>1. n = 0 /\ Index(abs) + n # Len(str)
        BY <1>2, <1>4, <3>2
      <4>2. last = FALSE
        BY <2>5, <4>1, Zenon
      <4>3. seg.payload = << >> /\ Substring(str, 0, 0) = << >>
        BY <1>3, <1>4, <4>1 DEF Substring
      <4>4. pushed = push_substring(r, << >>, 0, FALSE)
        BY <1>4, <1>5, <2>2, <4>2, <4>3, EmptyPush, Zenon
      <4>5. 0 \in Nat /\ 0 + 0 <= Len(str) /\ FALSE \in BOOLEAN /\ 0 .. 0 + 0 - 1 = {}
        OBVIOUS
      <4>6. LET p == push_substring(r, Substring(str, 0, 0), 0, FALSE)
            IN /\ Holds(p, str, cap, B) /\ OnlyMore(r.output, p.output)
               /\ Known(p, cap) \subseteq Known(r, cap) \cup (0 .. 0 + 0 - 1)
        BY <1>5, <4>5, PushHolds, Zenon
      <4>7. push_substring(r, Substring(str, 0, 0), 0, FALSE).eof_index = r.eof_index
        <5>1. \A i, k \in Nat, l \in BOOLEAN : i + k <= Len(str) =>
                push_substring(r, Substring(str, i, k), i, l).eof_index = IF l THEN i + k ELSE r.eof_index
          BY <1>5, PushEof
        <5> QED BY <4>5, <5>1, Zenon
      <4>8. Counting /\ CountExact(r) => CountExact(push_substring(r, Substring(str, 0, 0), 0, FALSE))
        BY <1>5, <4>5, PushExact, Zenon
      <4> HIDE DEF pushed
      <4> QED BY <4>2, <4>3, <4>4, <4>5, <4>6, <4>7, <4>8, Zenon
    <3> QED BY <3>1, <3>2
  <2> HIDE DEF pushed
  <2>7. fin \in Nat /\ fin = IF pushed.eof_index = NoEof THEN 0 ELSE EndSeq
    BY <1>2, <1>5, <1>6, <2>4, <2>5, <2>6
  <2>8. t \in [reassembler : {t.reassembler}, isn : {NoIsn, Isn}, fin_abs_seq : Nat]
    BY <2>1, <2>2, <2>7, Zenon
  <2>9. ReceiverOf(t, str, cap, B, Isn)
    BY <2>1, <2>6, <2>7, <2>8, Zenon DEF ReceiverOf
  <2>10. Advances(rcv, t) /\ has_ackno(t)
    BY <2>1, <2>2, <2>4, <2>6, Zenon DEF Advances, has_ackno, stream_out
  <2> QED BY <1>7, <2>1, <2>2, <2>4, <2>6, <2>9, <2>10, Zenon DEF t, n
<1> QED BY <1>9, <1>10

\* The two edges of the window, in the counters of the output.
Edges(rcv, str, cap) ==
  LET o == stream_out(rcv)
      f == IF rcv.fin_abs_seq # 0 /\ o.nwritten = Len(str) THEN 1 ELSE 0
  IN /\ o.nwritten \in Nat /\ o.nread \in Nat
     /\ o.nwritten <= Len(str) /\ o.nwritten = rcv.reassembler.rpos
     /\ abs_ackno(rcv) = 1 + o.nwritten + f
     /\ abs_ackno(rcv) + window_size(rcv) = 1 + cap + o.nread + f
     /\ window_size(rcv) = cap - Len(o.buffer) /\ Len(o.buffer) \in 0 .. cap

\* Where the window lies.
LEMMA WindowEdges ==
  ASSUME NEW B, NEW str \in Seq(B), NEW cap \in Nat \ {0}, NEW isn, NEW rcv, ReceiverOf(rcv, str, cap, B, isn)
  PROVE  Edges(rcv, str, cap)
<1> DEFINE o == stream_out(rcv)
           f == IF rcv.fin_abs_seq # 0 /\ o.nwritten = Len(str) THEN 1 ELSE 0
           m == Len(o.buffer)
<1>1. Holds(rcv.reassembler, str, cap, B) /\ rcv.fin_abs_seq \in {0, Len(str) + 2}
  BY Zenon DEF ReceiverOf
<1>2. /\ o.nwritten \in Nat /\ o.nread \in Nat /\ o.nwritten <= Len(str) /\ Len(str) \in Nat
      /\ o.nwritten = rcv.reassembler.rpos
      /\ o.capacity = cap /\ o.nread + m = o.nwritten /\ m \in Nat /\ m <= cap /\ cap \in Nat
  <2>1. o \in ByteStreams(B)
    BY <1>1, Zenon DEF Holds, ReassemblerType, stream_out
  <2>2. /\ o.capacity = cap /\ m <= cap /\ o.nread + m = o.nwritten
        /\ o.nwritten = rcv.reassembler.rpos /\ rcv.reassembler.rpos <= Len(str)
    BY <1>1, Zenon DEF Holds, OutputHolds, stream_out
  <2>3. o.nwritten \in Nat /\ o.nread \in Nat /\ o.buffer \in Seq(B)
    BY <2>1, Zenon DEF ByteStreams
  <2> HIDE DEF o
  <2>4. m \in Nat /\ Len(str) \in Nat /\ cap \in Nat
    BY <2>3
  <2> QED BY <2>2, <2>3, <2>4, Zenon
<1>3. window_size(rcv) = cap - m
  BY <1>2, Zenon DEF window_size, remaining_capacity, buffer_size
<1>4. abs_ackno(rcv) = IF 1 + o.nwritten + 1 = rcv.fin_abs_seq THEN rcv.fin_abs_seq ELSE 1 + o.nwritten
  BY Zenon DEF abs_ackno
<1> HIDE DEF o, m
<1>5. abs_ackno(rcv) = 1 + o.nwritten + f /\ f \in Nat
  <2> DEFINE b == o.nwritten
             L == Len(str)
             x == rcv.fin_abs_seq
  <2>1. b \in Nat /\ L \in Nat /\ b <= L /\ x \in {0, L + 2}
    BY <1>1, <1>2, Zenon
  <2> HIDE DEF b, L, x
  <2>2. (1 + b + 1 = x <=> x # 0 /\ b = L) /\ 1 + b = 1 + b + 0
    BY <2>1
  <2>3. f = (IF x # 0 /\ b = L THEN 1 ELSE 0) /\ abs_ackno(rcv) = (IF 1 + b + 1 = x THEN x ELSE 1 + b)
    BY <1>4, Zenon DEF b, L, x
  <2> HIDE DEF f
  <2>4. abs_ackno(rcv) = 1 + b + f /\ f \in {0, 1}
    BY <2>2, <2>3, Zenon
  <2>5. 0 \in Nat /\ 1 \in Nat
    OBVIOUS
  <2> QED BY <2>4, <2>5, Zenon DEF b
<1> HIDE DEF f
<1>6. abs_ackno(rcv) + window_size(rcv) = 1 + cap + o.nread + f /\ m \in 0 .. cap
  <2> DEFINE a == o.nread
             b == o.nwritten
  <2>1. a \in Nat /\ b \in Nat /\ a + m = b /\ m \in Nat /\ m <= cap /\ cap \in Nat /\ f \in Nat
    BY <1>2, <1>5, Zenon
  <2>2. abs_ackno(rcv) = 1 + b + f /\ window_size(rcv) = cap - m
    BY <1>3, <1>5, Zenon
  <2> HIDE DEF a, b
  <2>3. (1 + b + f) + (cap - m) = 1 + cap + a + f /\ m \in 0 .. cap
    BY <2>1
  <2> QED BY <2>2, <2>3, Zenon DEF a
<1> QED BY <1>2, <1>3, <1>5, <1>6, Zenon DEF Edges, o, f, m

\* A segment that starts with the next number gets the receiver ahead, unless its window
\* is closed.
LEMMA ReceiveNext ==
  ASSUME NEW B, NEW str \in Seq(B), NEW cap \in Nat \ {0}, NEW Isn \in WrappingInt32, SEQ_MOD > 2,
         NEW rcv, ReceiverOf(rcv, str, cap, B, Isn), ~has_ackno(rcv) => stream_out(rcv).nwritten = 0,
         window_size(rcv) > 0, NEW abs, abs = (IF has_ackno(rcv) THEN abs_ackno(rcv) ELSE 0),
         abs < Len(str) + 2, NEW seg, Cut(seg, abs, Isn, str), length_in_sequence_space(seg) > 0
  PROVE  has_ackno(receive(rcv, seg)) /\ abs_ackno(receive(rcv, seg)) > abs
<1> DEFINE r == rcv.reassembler
           o == stream_out(rcv)
           f == IF rcv.fin_abs_seq # 0 /\ o.nwritten = Len(str) THEN 1 ELSE 0
           t == receive(rcv, seg)
           n == Len(seg.payload)
           w == window_size(rcv)
           isn == IF seg.syn /\ ~has_ackno(rcv) THEN seg.seqno ELSE rcv.isn
           left == IF has_ackno(rcv) THEN abs_ackno(rcv) ELSE 0
           right == left + w
           abs_seq == unwrap(seg.seqno, isn, o.nwritten)
           size == length_in_sequence_space(seg)
           late_ack == rcv.fin_abs_seq > 0 /\ abs_seq >= rcv.fin_abs_seq /\ size = 0
           fin == IF abs_seq + size <= right /\ seg.fin THEN abs_seq + size ELSE rcv.fin_abs_seq
           index == IF abs_seq > 0 THEN abs_seq - 1 ELSE 0
           last == index + n + 2 = fin
           pushed == push_substring(r, seg.payload, index, last)
           skipped == isn = NoIsn \/ late_ack \/ ~overlaps(abs_seq, size, left, right)
<1>1. /\ o.nwritten \in Nat /\ o.nwritten <= Len(str) /\ o.nwritten = r.rpos
      /\ abs_ackno(rcv) = 1 + o.nwritten + f
      /\ w = cap - Len(o.buffer) /\ Len(o.buffer) \in 0 .. cap
  <2>1. Edges(rcv, str, cap)
    BY WindowEdges, Zenon
  <2> QED BY <2>1, Zenon DEF Edges
<1>2. /\ abs \in Nat /\ abs <= o.nwritten + 1 /\ o.nwritten <= abs /\ HalfSeq \in Nat /\ HalfSeq > 1
      /\ has_ackno(rcv) => abs = o.nwritten + 1 /\ f = 0
  <2>1. HalfSeq \in Nat /\ HalfSeq > 1
    BY SeqModAssumption DEF HalfSeq
  <2>2. CASE has_ackno(rcv)
    <3>1. abs = 1 + o.nwritten + f
      BY <1>1, <2>2, Zenon
    <3> HIDE DEF o
    <3>2. f = 0
      BY <1>1, <3>1, SMTT(20)
    <3> QED BY <1>1, <2>1, <3>1, <3>2
  <2>3. CASE ~has_ackno(rcv)
    BY <1>1, <2>1, <2>3
  <2> QED BY <2>2, <2>3
<1>3. abs < o.nwritten + HalfSeq /\ o.nwritten <= abs + HalfSeq
  BY <1>1, <1>2, SMTT(20)
<1>4. /\ ReceiverOf(t, str, cap, B, Isn) /\ Advances(rcv, t)
  <2>1. LET u == receive(rcv, seg)
        IN ReceiverOf(u, str, cap, B, Isn) /\ Advances(rcv, u)
    BY <1>2, <1>3, ReceiveHolds
  <2> QED BY <2>1, Zenon
<1>5. /\ stream_out(t).nwritten \in Nat /\ stream_out(t).nwritten = t.reassembler.rpos
      /\ abs_ackno(t) >= 1 + stream_out(t).nwritten /\ abs_ackno(t) \in Nat
      /\ t.fin_abs_seq # 0 /\ stream_out(t).nwritten = Len(str) => abs_ackno(t) = 2 + stream_out(t).nwritten
      /\ stream_out(t).nwritten >= o.nwritten /\ stream_out(t).nwritten <= Len(str)
  <2>1. LET q == stream_out(t)
            g == IF t.fin_abs_seq # 0 /\ q.nwritten = Len(str) THEN 1 ELSE 0
        IN /\ q.nwritten \in Nat /\ q.nwritten <= Len(str) /\ q.nwritten = t.reassembler.rpos
           /\ abs_ackno(t) = 1 + q.nwritten + g
    <3>1. Edges(t, str, cap)
      BY <1>4, WindowEdges, Zenon
    <3> HIDE DEF t
    <3> QED BY <3>1, Zenon DEF Edges
  <2>2. stream_out(t).nwritten >= o.nwritten
    BY <1>4, Zenon DEF Advances, OnlyMore
  <2> HIDE DEF t
  <2> DEFINE q == stream_out(t)
  <2> HIDE DEF q
  <2>3. /\ q.nwritten \in Nat /\ q.nwritten <= Len(str) /\ q.nwritten = t.reassembler.rpos
        /\ abs_ackno(t) = 1 + q.nwritten + (IF t.fin_abs_seq # 0 /\ q.nwritten = Len(str) THEN 1 ELSE 0)
    BY <2>1, Zenon DEF q
  <2>4. /\ abs_ackno(t) >= 1 + q.nwritten /\ abs_ackno(t) \in Nat
        /\ t.fin_abs_seq # 0 /\ q.nwritten = Len(str) => abs_ackno(t) = 2 + q.nwritten
    BY <2>3
  <2> QED BY <2>2, <2>3, <2>4, Zenon DEF q
<1>6. t = IF skipped THEN [rcv EXCEPT !.isn = isn]
          ELSE [isn |-> isn, fin_abs_seq |-> fin, reassembler |-> pushed]
  BY Zenon DEF receive
<1>7. /\ rcv \in [reassembler : {r}, isn : {NoIsn, Isn}, fin_abs_seq : Nat] /\ Holds(r, str, cap, B)
      /\ rcv.fin_abs_seq \in {0, Len(str) + 2}
  BY Zenon DEF ReceiverOf
<1> SUFFICES has_ackno(t) /\ abs_ackno(t) > abs
  OBVIOUS
<1>8. t.isn = isn /\ (~skipped => t.fin_abs_seq = fin /\ t.reassembler = pushed)
  <2> HIDE DEF isn, skipped, fin, pushed, t
  <2> QED BY <1>6, <1>7, Zenon
<1>9. /\ seg.seqno = wrap(abs, Isn) /\ seg.syn = (abs = 0 /\ size > 0)
      /\ seg.fin => abs + size = Len(str) + 2
      /\ seg.payload = Substring(str, Index(abs), n)
  BY Zenon DEF Cut
<1>10. /\ size \in Nat /\ n \in Nat /\ Index(abs) \in Nat /\ size > 0
       /\ (abs > 0 => Index(abs) = abs - 1)
       /\ n # 0 => Index(abs) + n <= Len(str)
       /\ seg.fin => Index(abs) + n = Len(str)
       /\ n > 0 \/ seg.syn \/ seg.fin
  <2>1. LET len == length_in_sequence_space(seg)
            m == Len(seg.payload)
        IN /\ len \in Nat /\ m \in Nat
           /\ Index(abs) \in Nat /\ (abs > 0 => Index(abs) = abs - 1)
           /\ m # 0 => Index(abs) + m <= Len(str)
           /\ seg.fin => Index(abs) + m = Len(str)
           /\ len > 0 => m > 0 \/ seg.syn \/ seg.fin
    BY <1>2, CutSpec
  <2> QED BY <2>1, Zenon
<1>11. CASE ~has_ackno(rcv)
  <2>1. abs = 0 /\ seg.syn
    BY <1>9, <1>10, <1>11, Zenon
  <2>2. isn = wrap(0, Isn)
    BY <1>9, <1>11, <2>1, Zenon
  <2>3. wrap(0, Isn) \in Nat
    BY WrapSpec DEF WrappingInt32
  <2>4. isn # NoIsn
    <3> HIDE DEF isn
    <3> QED BY <2>2, <2>3 DEF NoIsn
  <2>5. has_ackno(t)
    BY <1>8, <2>4, Zenon DEF has_ackno
  <2> HIDE DEF t, o
  <2>6. abs_ackno(t) > 0
    <3> DEFINE x == stream_out(t).nwritten
    <3>1. x \in Nat /\ abs_ackno(t) >= 1 + x /\ abs_ackno(t) \in Nat
      BY <1>5, Zenon
    <3> HIDE DEF x
    <3> QED BY <3>1
  <2> QED BY <2>1, <2>5, <2>6, Zenon
<1>12. CASE has_ackno(rcv)
  <2>1. isn = rcv.isn /\ isn = Isn /\ isn # NoIsn
    BY <1>7, <1>12, Zenon DEF has_ackno
  <2>2. abs_seq = abs
    <3>1. unwrap(wrap(abs, Isn), Isn, o.nwritten) = abs
      BY <1>1, <1>2, <1>3, UnwrapWrap, Zenon
    <3> QED BY <1>9, <2>1, <3>1, Zenon
  <2>3. left = abs /\ abs = o.nwritten + 1
    BY <1>2, <1>12, Zenon
  <2>4. w \in Nat /\ w > 0 /\ Len(o.buffer) < cap
    BY <1>1
  <2> DEFINE b == o.nwritten
             I == Index(abs)
             L == Len(str)
  <2>5. b \in Nat /\ L \in Nat /\ b <= L /\ abs = b + 1 /\ n \in Nat /\ size \in Nat /\ size > 0 /\ I = abs - 1
    <3>1. abs > 0 /\ L \in Nat
      BY <1>1, <2>3
    <3> QED BY <1>1, <1>10, <2>3, <3>1, Zenon
  <2>6. ~skipped
    <3> HIDE DEF isn, abs_seq, w, size, left
    <3>1. overlaps(abs_seq, size, left, right)
      BY <1>2, <1>10, <2>2, <2>3, <2>4 DEF overlaps
    <3>2. size # 0
      BY <1>10
    <3> QED BY <2>1, <3>1, <3>2, Zenon
  <2> HIDE DEF skipped
  <2>7. t.fin_abs_seq = fin /\ t.reassembler = pushed /\ has_ackno(t)
    BY <1>8, <2>1, <2>6, Zenon DEF has_ackno
  <2> HIDE DEF t, isn, abs_seq, w, size, left, b, I, L, n
  <2>8. index = I
    BY <2>2, <2>5
  <2>9. CASE n > 0
    <3>2. I + n <= L /\ b \in I .. I + n - 1
      <4>1. n # 0 => I + n <= L
        BY <1>10, Zenon DEF I, L
      <4> QED BY <2>5, <2>9, <4>1
    <3>4. last \in BOOLEAN /\ (last => I + n = L)
      <4>1. fin \in {0, L + 2}
        BY <1>7, <1>9, <2>2, Zenon DEF L
      <4> HIDE DEF fin, index
      <4> QED BY <2>5, <2>8, <4>1
    <3> HIDE DEF last, index
    <3>5. \A i, m \in Nat, l \in BOOLEAN : i + m <= Len(str) /\ (l => i + m = Len(str)) =>
            (r.rpos \in i .. i + m - 1 /\ Len(r.output.buffer) < cap =>
               push_substring(r, Substring(str, i, m), i, l).rpos > r.rpos)
      BY <1>7, PushHolds, SMTT(20)
    <3>6. pushed.rpos > r.rpos
      <4>1. I \in Nat /\ n \in Nat /\ r.rpos \in I .. I + n - 1 /\ I + n <= Len(str) /\ (last => I + n = Len(str))
        BY <1>1, <1>10, <3>2, <3>4, Zenon DEF b, I, L, n
      <4>2. Len(r.output.buffer) < cap /\ seg.payload = Substring(str, I, n)
        BY <1>9, <2>4, Zenon DEF stream_out, I, n
      <4> QED BY <2>8, <3>4, <3>5, <4>1, <4>2, Zenon
    <3>7. stream_out(t).nwritten > b
      BY <1>1, <1>5, <2>7, <3>6, Zenon DEF b
    <3>8. abs_ackno(t) > abs
      <4> DEFINE x == stream_out(t).nwritten
      <4>1. x \in Nat /\ x > b /\ abs_ackno(t) >= 1 + x /\ abs_ackno(t) \in Nat
        BY <1>5, <3>7, Zenon
      <4> HIDE DEF x
      <4> QED BY <2>5, <4>1
    <3> QED BY <2>7, <3>8, Zenon
  <2>10. CASE n = 0
    <3>1. seg.fin
      <4>1. abs # 0 /\ ~(n > 0)
        BY <2>5, <2>10
      <4> QED BY <1>9, <1>10, <4>1, Zenon DEF n
    <3>2. b = L /\ size = 1
      <4>1. abs + size = L + 2 /\ I + n = L
        BY <1>9, <1>10, <3>1, Zenon DEF L, I, n, size
      <4> QED BY <2>5, <2>10, <4>1
    <3>3. abs_seq + size <= right
      BY <1>2, <2>2, <2>3, <2>4, <3>2
    <3>4. fin = abs_seq + size
      BY <3>1, <3>3, Zenon
    <3>5. t.fin_abs_seq # 0
      BY <1>2, <2>2, <2>7, <3>2, <3>4
    <3>6. stream_out(t).nwritten = L
      BY <1>5, <2>5, <3>2 DEF b, L
    <3>7. abs_ackno(t) = 2 + stream_out(t).nwritten
      BY <1>5, <3>5, <3>6, Zenon DEF L
    <3>8. abs_ackno(t) > abs
      <4> DEFINE x == stream_out(t).nwritten
      <4> HIDE DEF x
      <4>1. x = L /\ abs_ackno(t) = 2 + x
        BY <3>6, <3>7, Zenon DEF x
      <4> QED BY <2>5, <3>2, <4>1
    <3> QED BY <2>7, <3>8, Zenon
  <2> QED BY <2>5, <2>9, <2>10
<1> QED BY <1>11, <1>12

\* A segment whose flags and payload are what SYN, str and FIN have from absolute number a
\* on is a piece of them.
LEMMA CutOf ==
  ASSUME NEW B, NEW str \in Seq(B), NEW isn, NEW a \in Nat, NEW seg, seg.payload \in Seq(B),
         seg.syn \in BOOLEAN, seg.fin \in BOOLEAN, seg.seqno = wrap(a, isn),
         a + length_in_sequence_space(seg) <= Len(str) + 2,
         seg.syn <=> a = 0 /\ length_in_sequence_space(seg) > 0,
         seg.fin <=> length_in_sequence_space(seg) > 0 /\ a + length_in_sequence_space(seg) = Len(str) + 2,
         a = 0 => seg.payload = << >>,
         \A k \in 1 .. Len(seg.payload) : seg.payload[k] = str[a + k - 1]
  PROVE  Cut(seg, a, isn, str) /\ a <= Len(str) + 2
<1> DEFINE len == length_in_sequence_space(seg)
           b == seg.payload
           n == Len(b)
           i == Index(a)
<1>1. n \in Nat /\ Len(str) \in Nat /\ b \in Seq(B)
  OBVIOUS
<1>2. /\ seg.seqno = wrap(a, isn) /\ a + len <= Len(str) + 2
      /\ seg.syn = (a = 0 /\ len > 0) /\ seg.fin = (len > 0 /\ a + len = Len(str) + 2)
      /\ a = 0 => b = << >>
      /\ \A k \in 1 .. n : b[k] = str[a + k - 1]
  BY Zenon
<1>3. /\ len = n + bit(seg.syn) + bit(seg.fin) /\ bit(seg.syn) \in {0, 1} /\ bit(seg.fin) \in {0, 1}
      /\ bit(seg.fin) = 0 => ~(len > 0 /\ a + len = Len(str) + 2)
  <2>1. 1 # 0 /\ \A f \in BOOLEAN : bit(f) \in {0, 1} /\ (f => bit(f) = 1)
    BY DEF bit
  <2> QED BY <1>1, <1>2, <2>1, Zenon DEF length_in_sequence_space
<1>4. len \in Nat /\ a <= Len(str) + 2
  <2> DEFINE x == bit(seg.syn)
             y == bit(seg.fin)
  <2>1. len = n + x + y /\ x \in {0, 1} /\ y \in {0, 1} /\ n \in Nat /\ Len(str) \in Nat
        /\ a + len <= Len(str) + 2
    BY <1>1, <1>2, <1>3, Zenon
  <2> HIDE DEF len, x, y, n
  <2> QED BY <2>1
<1>5. b = Substring(str, i, n)
  <2>1. CASE n = 0
    <3>1. b = << >>
      BY <1>1, <2>1
    <3>2. i \in Nat
      BY DEF Index
    <3> HIDE DEF i
    <3>3. SubSeq(str, i + 1, i + 0) = << >>
      BY <3>2
    <3> QED BY <2>1, <3>1, <3>3, Zenon DEF Substring
  <2>2. CASE n # 0
    <3>1. a # 0
      BY <1>2, <2>2
    <3>2. i = a - 1 /\ i \in Nat
      BY <3>1 DEF Index
    <3>3. i + n \in Nat /\ i + n <= Len(str)
      <4> DEFINE x == bit(seg.syn)
                 y == bit(seg.fin)
      <4>1. /\ len = n + x + y /\ x \in {0, 1} /\ y \in {0, 1} /\ n \in Nat /\ Len(str) \in Nat
            /\ a + len <= Len(str) + 2
            /\ y = 0 => ~(len > 0 /\ a + len = Len(str) + 2)
        BY <1>1, <1>2, <1>3, Zenon
      <4> HIDE DEF len, x, y, n, i
      <4> QED BY <2>2, <3>1, <3>2, <4>1
    <3>4. \A k \in 1 .. n : b[k] = str[i + k]
      <4>1. \A k \in 1 .. n : a + k - 1 = i + k
        BY <1>1, <3>2
      <4> QED BY <1>2, <4>1
    <3> HIDE DEF i, b
    <3>5. b = SubSeq(str, i + 1, i + n)
      BY <1>1, <3>2, <3>3, <3>4, StretchOfStream
    <3> QED BY <3>5, Zenon DEF Substring
  <2> QED BY <2>1, <2>2
<1> QED BY <1>1, <1>2, <1>4, <1>5, Zenon DEF Cut

\* When the numbers of all its pieces lie in half the sequence space, whatever piece of
\* the stream arrives, however old, the receiver holds the stream.
LEMMA ReceiveOld ==
  ASSUME NEW B, NEW str \in Seq(B), NEW cap \in Nat \ {0}, NEW isn \in WrappingInt32,
         NEW rcv, ReceiverOf(rcv, str, cap, B, isn), NEW a \in Nat, NEW seg, Cut(seg, a, isn, str),
         a <= Len(str) + 2, Len(str) + 2 < HalfSeq
  PROVE  LET t == receive(rcv, seg) IN ReceiverOf(t, str, cap, B, isn) /\ Advances(rcv, t)
<1> DEFINE m == stream_out(rcv).nwritten
<1>1. m \in 0 .. Len(str)
  <2>1. Holds(rcv.reassembler, str, cap, B)
    BY Zenon DEF ReceiverOf
  <2>2. rcv.reassembler.output.nwritten \in 0 .. Len(str)
    BY <2>1, WaitingIsStretch, Zenon
  <2> QED BY <2>2, Zenon DEF stream_out
<1> HIDE DEF m
<1>2. a < m + HalfSeq /\ m <= a + HalfSeq
  BY <1>1, SeqModAssumption DEF HalfSeq
<1> QED BY <1>2, ReceiveHolds DEF m

\* The acknowledgment and the window are numbers of their types.
LEMMA AckType ==
  ASSUME NEW B, NEW str \in Seq(B), NEW cap \in Nat \ {0}, NEW isn \in WrappingInt32,
         NEW rcv, ReceiverOf(rcv, str, cap, B, isn)
  PROVE  (has_ackno(rcv) => ackno(rcv) \in WrappingInt32) /\ window_size(rcv) \in Int
<1>1. rcv.isn \in {NoIsn, isn}
  BY Zenon DEF ReceiverOf
<1>2. LET o == stream_out(rcv)
          f == IF rcv.fin_abs_seq # 0 /\ o.nwritten = Len(str) THEN 1 ELSE 0
      IN /\ o.nwritten \in Nat /\ abs_ackno(rcv) = 1 + o.nwritten + f
         /\ window_size(rcv) = cap - Len(o.buffer) /\ Len(o.buffer) \in 0 .. cap
  <2>1. Edges(rcv, str, cap)
    BY WindowEdges, Zenon
  <2> QED BY <2>1, Zenon DEF Edges
<1>3. abs_ackno(rcv) \in Int /\ window_size(rcv) \in Int
  BY <1>2
<1> QED BY <1>1, <1>3, WrapSpec, Zenon DEF has_ackno, ackno

\* How far rcv acknowledges, nothing before the SYN; and t has heard all that rcv has.
heard(rcv) == IF has_ackno(rcv) THEN abs_ackno(rcv) ELSE 0
HeardMore(rcv, t) ==
  /\ has_ackno(rcv) => has_ackno(t)
  /\ stream_out(t).nwritten >= stream_out(rcv).nwritten
  /\ stream_out(rcv).input_ended => stream_out(t).input_ended
  /\ stream_out(rcv).error => stream_out(t).error

\* The acknowledgment counts the SYN, what the output has been given, and its end.
LEMMA HeardCounts ==
  ASSUME NEW B, NEW str \in Seq(B), NEW cap \in Nat \ {0}, NEW isn, NEW rcv, ReceiverOf(rcv, str, cap, B, isn)
  PROVE  LET o == stream_out(rcv)
         IN /\ abs_ackno(rcv) = 1 + o.nwritten + (IF o.input_ended THEN 1 ELSE 0)
            /\ o.nwritten \in 0 .. Len(str) /\ heard(rcv) \in 0 .. Len(str) + 2
            /\ o.input_ended => o.nwritten = Len(str)
            /\ Len(str) + 2 <= heard(rcv) => o.input_ended
<1> DEFINE o == stream_out(rcv)
           e == rcv.reassembler.eof_index
           L == Len(str)
<1>1. /\ Holds(rcv.reassembler, str, cap, B) /\ rcv.fin_abs_seq = (IF e = NoEof THEN 0 ELSE L + 2)
      /\ rcv.isn \in {NoIsn, isn}
  BY Zenon DEF ReceiverOf
<1>2. o.nwritten \in 0 .. L /\ o.input_ended \in BOOLEAN /\ (o.input_ended => o.nwritten = L)
  BY <1>1, WaitingIsStretch, Zenon DEF stream_out
<1>3. e \in {NoEof, L} /\ (o.input_ended <=> o.nwritten = e)
  BY <1>1, Zenon DEF Holds, EndHolds, stream_out
<1>4. abs_ackno(rcv) = IF 1 + o.nwritten + 1 = rcv.fin_abs_seq THEN rcv.fin_abs_seq ELSE 1 + o.nwritten
  BY Zenon DEF abs_ackno
<1>5. L \in Nat
  OBVIOUS
<1> DEFINE n == o.nwritten
<1> HIDE DEF n, e, L
<1>6. n \in 0 .. L /\ (o.input_ended <=> n = e) /\ o.input_ended \in BOOLEAN
      /\ abs_ackno(rcv) = IF 1 + n + 1 = rcv.fin_abs_seq THEN rcv.fin_abs_seq ELSE 1 + n
  BY <1>2, <1>3, <1>4, Zenon DEF n
<1> HIDE DEF o
<1>7. abs_ackno(rcv) = 1 + n + (IF o.input_ended THEN 1 ELSE 0)
  BY <1>1, <1>3, <1>5, <1>6 DEF NoEof
<1>8. abs_ackno(rcv) \in 1 .. L + 2 /\ 0 \in 0 .. L + 2
      /\ abs_ackno(rcv) \in 0 .. L + 2
  BY <1>5, <1>6, <1>7
<1>9. heard(rcv) \in 0 .. L + 2
  BY <1>8, Zenon DEF heard
<1>10. L + 2 <= heard(rcv) => o.input_ended
  BY <1>5, <1>6, <1>7 DEF heard
<1> QED BY <1>2, <1>7, <1>9, <1>10, Zenon DEF n, L, o

\* ackno is the number of something that has been heard.
LEMMA HeardAck ==
  ASSUME NEW B, NEW str \in Seq(B), NEW cap \in Nat \ {0}, NEW isn, NEW rcv, ReceiverOf(rcv, str, cap, B, isn)
  PROVE  has_ackno(rcv) => ackno(rcv) \in {wrap(n, isn) : n \in 1 .. heard(rcv)}
<1>1. abs_ackno(rcv) = 1 + stream_out(rcv).nwritten + (IF stream_out(rcv).input_ended THEN 1 ELSE 0)
      /\ stream_out(rcv).nwritten \in 0 .. Len(str)
  BY HeardCounts, Zenon
<1>2. abs_ackno(rcv) \in 1 .. abs_ackno(rcv)
  BY <1>1
<1> QED BY <1>2, Zenon DEF ReceiverOf, heard, ackno, has_ackno

\* More heard is no less acknowledged.
LEMMA HeardGrows ==
  ASSUME NEW B, NEW str \in Seq(B), NEW cap \in Nat \ {0}, NEW isn, NEW rcv, ReceiverOf(rcv, str, cap, B, isn),
         NEW t, ReceiverOf(t, str, cap, B, isn), HeardMore(rcv, t)
  PROVE  heard(rcv) <= heard(t)
<1> DEFINE b(r) == IF stream_out(r).input_ended THEN 1 ELSE 0
<1>1. /\ stream_out(rcv).nwritten \in Nat /\ abs_ackno(rcv) = 1 + stream_out(rcv).nwritten + b(rcv)
      /\ stream_out(t).nwritten \in Nat /\ abs_ackno(t) = 1 + stream_out(t).nwritten + b(t)
  BY HeardCounts
<1>2. b(rcv) \in 0 .. 1 /\ b(t) \in 0 .. 1 /\ b(rcv) <= b(t)
  BY DEF HeardMore
<1> HIDE DEF b
<1> QED BY <1>1, <1>2 DEF HeardMore, heard

\* The receiver rcv with o for its output.
with_output(rcv, o) == [rcv EXCEPT !.reassembler.output = o]

\* set_error on the output leaves the rest of the receiver as it was.
Fails(rcv, str, cap, B, isn) ==
  LET t == with_output(rcv, set_error(stream_out(rcv)))
  IN /\ ReceiverOf(t, str, cap, B, isn) /\ stream_out(t).error = TRUE /\ t.isn = rcv.isn
     /\ stream_out(t).nread = stream_out(rcv).nread
     /\ stream_out(t).nwritten = stream_out(rcv).nwritten
     /\ stream_out(t).input_ended = stream_out(rcv).input_ended

\* What set_error does to the receiver's output disturbs none of what the receiver holds.
LEMMA ReceiverError ==
  ASSUME NEW B, NEW str, NEW cap, NEW isn, NEW rcv, ReceiverOf(rcv, str, cap, B, isn)
  PROVE  Fails(rcv, str, cap, B, isn)
<1> DEFINE r == rcv.reassembler
           o == r.output
           p == set_error(o)
           q == [r EXCEPT !.output = p]
           u == [rcv EXCEPT !.reassembler = q]
<1>1. /\ rcv \in [reassembler : {r}, isn : {NoIsn, isn}, fin_abs_seq : Nat] /\ Holds(r, str, cap, B)
      /\ rcv.fin_abs_seq = IF r.eof_index = NoEof THEN 0 ELSE Len(str) + 2
  BY Zenon DEF ReceiverOf
<1>2. /\ r \in ReassemblerType(cap, B, {r.unassembled_bytes}) /\ o \in ByteStreams(B)
      /\ OutputHolds(r, str, cap) /\ RingHolds(r, str, cap) /\ EndHolds(r, str)
  BY <1>1 DEF Holds, ReassemblerType
<1>3. /\ p \in ByteStreams(B) /\ p.nread = o.nread /\ p.buffer = o.buffer /\ p.nwritten = o.nwritten
      /\ p.capacity = o.capacity /\ p.input_ended = o.input_ended /\ p.error = TRUE
  <2> HIDE DEF o
  <2> QED BY <1>2, Zenon DEF set_error, ByteStreams
<1> HIDE DEF p
<1>4. /\ q \in ReassemblerType(cap, B, {q.unassembled_bytes}) /\ q.output = p /\ q.rpos = r.rpos
      /\ q.bit_map = r.bit_map /\ q.buffer = r.buffer /\ q.eof_index = r.eof_index
  <2> HIDE DEF r
  <2> QED BY <1>2, <1>3 DEF ReassemblerType
<1> HIDE DEF q
<1>5. Holds(q, str, cap, B)
  <2> HIDE DEF o
  <2>1. r.output = o
    BY Zenon DEF o
  <2>2. OutputHolds(q, str, cap)
    BY <1>2, <1>3, <1>4, <2>1, ZenonT(30) DEF OutputHolds
  <2>3. RingHolds(q, str, cap)
    BY <1>2, <1>4, Zenon DEF RingHolds
  <2>4. EndHolds(q, str)
    BY <1>2, <1>3, <1>4, <2>1, Zenon DEF EndHolds
  <2> QED BY <1>4, <2>2, <2>3, <2>4, Zenon DEF Holds
<1>6. /\ u \in [reassembler : {q}, isn : {NoIsn, isn}, fin_abs_seq : Nat]
      /\ u.reassembler = q /\ u.isn = rcv.isn /\ u.fin_abs_seq = rcv.fin_abs_seq
  BY <1>1, Zenon
<1>7. with_output(rcv, set_error(stream_out(rcv))) = u
  BY Zenon DEF q, p, with_output, stream_out
<1> HIDE DEF u
<1>8. ReceiverOf(u, str, cap, B, isn)
  BY <1>1, <1>4, <1>5, <1>6, Zenon DEF ReceiverOf
<1>9. /\ stream_out(u).error = TRUE /\ u.isn = rcv.isn
      /\ stream_out(u).nread = stream_out(rcv).nread
      /\ stream_out(u).nwritten = stream_out(rcv).nwritten
      /\ stream_out(u).input_ended = stream_out(rcv).input_ended
  BY <1>3, <1>4, <1>6, Zenon DEF stream_out
<1> QED BY <1>7, <1>8, <1>9, Zenon DEF Fails

\* So does the reader.
Pops(rcv, len, str, cap, B, isn) ==
  LET t == with_output(rcv, pop_output(stream_out(rcv), len))
  IN /\ ReceiverOf(t, str, cap, B, isn) /\ stream_out(t).error = stream_out(rcv).error /\ t.isn = rcv.isn
     /\ stream_out(t).nread \in stream_out(rcv).nread .. stream_out(rcv).nwritten
     /\ stream_out(t).nwritten = stream_out(rcv).nwritten
     /\ stream_out(t).input_ended = stream_out(rcv).input_ended

\* What pop_output takes was written, and the receiver holds the rest.
LEMMA ReceiverRead ==
  ASSUME NEW B, NEW str \in Seq(B), NEW cap \in Nat \ {0}, NEW isn, NEW rcv,
         ReceiverOf(rcv, str, cap, B, isn), NEW len \in Nat
  PROVE  Pops(rcv, len, str, cap, B, isn)
<1> DEFINE r == rcv.reassembler
           o == r.output
           p == pop_output(o, len)
           q == [r EXCEPT !.output = p]
           u == [rcv EXCEPT !.reassembler = q]
<1>1. /\ rcv \in [reassembler : {r}, isn : {NoIsn, isn}, fin_abs_seq : Nat] /\ Holds(r, str, cap, B)
      /\ rcv.fin_abs_seq = IF r.eof_index = NoEof THEN 0 ELSE Len(str) + 2
  BY Zenon DEF ReceiverOf
<1>3. /\ Holds(q, str, cap, B) /\ q.output = p
      /\ p.nread \in o.nread .. o.nwritten /\ p.nwritten = o.nwritten
      /\ p.input_ended = o.input_ended /\ p.error = o.error
  <2>1. LET v == pop_output(r.output, len)
            w == [r EXCEPT !.output = v]
        IN /\ Holds(w, str, cap, B) /\ w.output = v
           /\ v.nread \in r.output.nread .. r.output.nwritten /\ v.nwritten = r.output.nwritten
           /\ v.input_ended = r.output.input_ended /\ v.error = r.output.error
    BY <1>1, PopHolds
  <2> QED BY <2>1, Zenon
<1> HIDE DEF p
<1>4. q.eof_index = r.eof_index
  BY <1>1, Zenon DEF Holds, ReassemblerType
<1> HIDE DEF q
<1>5. /\ u \in [reassembler : {q}, isn : {NoIsn, isn}, fin_abs_seq : Nat]
      /\ u.reassembler = q /\ u.isn = rcv.isn /\ u.fin_abs_seq = rcv.fin_abs_seq
  BY <1>1, Zenon
<1>6. with_output(rcv, pop_output(stream_out(rcv), len)) = u
  BY Zenon DEF q, p, with_output, stream_out
<1> HIDE DEF u
<1>7. ReceiverOf(u, str, cap, B, isn)
  BY <1>1, <1>3, <1>4, <1>5, Zenon DEF ReceiverOf
<1>8. /\ stream_out(u).error = stream_out(rcv).error /\ u.isn = rcv.isn
      /\ stream_out(u).nread \in stream_out(rcv).nread .. stream_out(rcv).nwritten
      /\ stream_out(u).nwritten = stream_out(rcv).nwritten
      /\ stream_out(u).input_ended = stream_out(rcv).input_ended
  BY <1>3, <1>5, Zenon DEF stream_out
<1> QED BY <1>6, <1>7, <1>8, Zenon DEF Pops
=============================================================================
