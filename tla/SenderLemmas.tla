----------------------------- MODULE SenderLemmas -----------------------------
(***************************************************************************)
(* What the operations of TCPSender preserve, for every stream and every   *)
(* value of the constants, whoever calls them: a sender keeps for          *)
(* retransmission consecutive pieces of SYN, stream and FIN, its counters  *)
(* agree with them, and its timer runs exactly while there are any.        *)
(***************************************************************************)
EXTENDS TCPSender, WrappingIntegersProofs, WellFoundedInduction, TLAPS

\* The values a segment and a sender may have.
Segments(B) ==
  [seqno : WrappingInt32, ackno : WrappingInt32, win : 0 .. WIN_MOD - 1, syn : BOOLEAN,
   ack : BOOLEAN, rst : BOOLEAN, fin : BOOLEAN, payload : Seq(B)]

Senders(B) ==
  [isn : WrappingInt32, initial_rto : Nat \ {0}, stream : ByteStreams(B),
   segments_out : Seq(Segments(B)), segments_outstanding : Seq(Segments(B)),
   next_seqno : Nat, syn_sent : BOOLEAN, fin_sent : BOOLEAN, bytes_in_flight : Nat,
   receiver_window_size : 0 .. WIN_MOD - 1, receiver_free_space : 0 .. WIN_MOD - 1,
   consecutive_retransmissions : Nat, rto : Nat, time_elapsed : Nat, timer_running : BOOLEAN]

\* These flags and this payload, of length len, are what SYN, str and FIN have from
\* absolute number a on.
Spans(a, len, syn, fin, payload, str) ==
  /\ a + len <= Len(str) + 2
  /\ syn <=> a = 0 /\ len > 0
  /\ fin <=> len > 0 /\ a + len = Len(str) + 2
  /\ a = 0 => payload = <<>>
  /\ \A k \in 1 .. Len(payload) : payload[k] = str[a + k - 1]

\* seg is the piece of SYN, str and FIN that starts at absolute number a.
Piece(seg, a, isn, str) ==
  /\ seg.seqno = wrap(a, isn)
  /\ Spans(a, length_in_sequence_space(seg), seg.syn, seg.fin, seg.payload, str)

\* A piece as the sender makes it: what it acknowledges, and whether it resets, is for the
\* connection to say.
Fresh(seg, a, isn, str) == Piece(seg, a, isn, str) /\ seg.ackno = 0 /\ ~seg.rst

\* The first number a sender still keeps.
oldest(s) == s.next_seqno - s.bytes_in_flight

\* The outbound stream holds what the application has written of str and the sender has
\* not read.
Outbound(o, str) ==
  /\ Len(o.buffer) <= o.capacity /\ o.nread + Len(o.buffer) = o.nwritten
  /\ o.nwritten <= Len(str) /\ (o.input_ended => o.nwritten = Len(str))
  /\ \A k \in 1 .. Len(o.buffer) : o.buffer[k] = str[o.nread + k]

\* What was sent is the SYN, what was read of the stream, and the FIN behind its end.
Counted(s) ==
  /\ s.next_seqno = bit(s.syn_sent) + s.stream.nread + bit(s.fin_sent)
  /\ s.fin_sent => eof(s.stream)
  /\ ~s.syn_sent => s.next_seqno = 0

\* The segments of a queue are consecutive pieces, the first at absolute number a.
Train(queue, a, isn, str) ==
  \A i \in 1 .. Len(queue) :
    /\ Fresh(queue[i], a + sizes(queue)[i - 1], isn, str)
    /\ length_in_sequence_space(queue[i]) \in 1 .. WIN_MOD
    /\ Len(queue[i].payload) <= MAX_PAYLOAD_SIZE

\* The outstanding segments are consecutive pieces, from oldest(s) to next_seqno.
Tiled(s, str) ==
  LET out == s.segments_outstanding
  IN /\ s.bytes_in_flight = sizes(out)[Len(out)] /\ s.bytes_in_flight <= s.next_seqno
     /\ Train(out, oldest(s), s.isn, str)

\* The sequence that starts with k and doubles.
Doubling(k) == {f \in [Nat -> Nat] : f[0] = k /\ \A n \in Nat : f[n + 1] = 2 * f[n]}

\* The timeout doubles with every retransmission, and time never runs past it.
Timed(s) ==
  /\ \A f \in Doubling(s.initial_rto) : s.rto = f[s.consecutive_retransmissions]
  /\ s.time_elapsed < s.rto

\* What waits to be taken by the connection are pieces too.
Queued(s, str) ==
  \A i \in 1 .. Len(s.segments_out) : \E a \in Nat : Fresh(s.segments_out[i], a, s.isn, str)

Core(s, str, B) ==
  /\ s \in Senders(B) /\ Outbound(s.stream, str)
  /\ Counted(s) /\ Tiled(s, str) /\ Timed(s) /\ Queued(s, str)

\* The timer runs while something is outstanding, and when nothing is, the free space is
\* the whole window.
Armed(s) ==
  /\ s.timer_running <=> s.segments_outstanding # <<>>
  /\ s.syn_sent /\ s.segments_outstanding = <<>> =>
       s.receiver_free_space = s.receiver_window_size

\* Bytes or an end of the stream still to be sent wait for an acknowledgment under way.
Busy(s) ==
  s.syn_sent /\ (~buffer_empty(s.stream) \/ (s.stream.input_ended /\ ~s.fin_sent)) =>
    s.segments_outstanding # <<>>

\* From s to t, n more numbers were sent.
Sends(s, t, n) ==
  /\ t.next_seqno = s.next_seqno + n /\ t.bytes_in_flight = s.bytes_in_flight + n
  /\ t.receiver_free_space = (s.receiver_free_space - n) % WIN_MOD
  /\ t.receiver_window_size = s.receiver_window_size
  /\ t.isn = s.isn /\ t.initial_rto = s.initial_rto
  /\ t.consecutive_retransmissions = s.consecutive_retransmissions
  /\ t.timer_running = TRUE /\ t.segments_outstanding # <<>>

SenderHolds(s, str, B) == Core(s, str, B) /\ Armed(s) /\ Busy(s)
-----------------------------------------------------------------------------
\* No segments at all.
LEMMA NoneOf ==
  ASSUME NEW S
  PROVE  /\ << >> \in Seq(S) /\ Len(<< >>) = 0
         /\ \A q \in Seq(S) : q # << >> => Len(q) \in Nat \ {0}
OBVIOUS

\* Where send_segment's queue ends, the next one begins.
LEMMA JoinOf ==
  ASSUME NEW S, NEW p \in Seq(S), NEW q \in Seq(S)
  PROVE  /\ p \o q \in Seq(S) /\ Len(p \o q) = Len(p) + Len(q)
         /\ \A i \in 1 .. Len(p) + Len(q) :
              (p \o q)[i] = IF i <= Len(p) THEN p[i] ELSE q[i - Len(p)]
OBVIOUS

\* A stretch of a queue or of a stream, which may be empty.
LEMMA SliceOf ==
  ASSUME NEW S, NEW q, NEW m \in Int, NEW n \in Int, \A i \in m .. n : q[i] \in S
  PROVE  /\ SubSeq(q, m, n) \in Seq(S)
         /\ Len(SubSeq(q, m, n)) = IF m <= n THEN n - m + 1 ELSE 0
         /\ \A i \in 1 .. n - m + 1 : SubSeq(q, m, n)[i] = q[m + i - 1]
OBVIOUS

\* Induction up to n, for a set of naturals instead of a predicate.
LEMMA UpTo ==
  ASSUME NEW n \in Nat, NEW S, 0 \in S, \A i \in 0 .. n - 1 : i \in S => i + 1 \in S
  PROVE  \A i \in 0 .. n : i \in S
<1> DEFINE T == {i \in 0 .. n : i \notin S}
<1> SUFFICES ASSUME T # {} PROVE FALSE
  OBVIOUS
<1>1. \A a, b \in Nat : a < b => <<a, b>> \in OpToRel(<, Nat)
  BY Zenon DEF OpToRel
<1>2. T \subseteq Nat
  OBVIOUS
<1>3. PICK x \in T : \A y \in T : ~(<<y, x>> \in OpToRel(<, Nat))
  BY <1>2, WFMin, NatLessThanWellFounded, Zenon
<1>4. \A y \in T : ~(y < x)
  BY <1>1, <1>2, <1>3, Zenon
<1>5. x \in 0 .. n /\ x \notin S /\ x # 0
  BY <1>3, Zenon
<1>6. x - 1 \in 0 .. n - 1 /\ x - 1 \in 0 .. n /\ x - 1 < x /\ (x - 1) + 1 = x
  BY <1>5
<1>7. x - 1 \in S
  BY <1>4, <1>6, Zenon
<1> QED BY <1>5, <1>6, <1>7, Zenon

\* The scan of ack_received stops: a nonempty set of naturals has a least element.
LEMMA LeastNat ==
  ASSUME NEW S \in SUBSET Nat, S # {}
  PROVE  Min(S) \in S /\ \A y \in S : Min(S) <= y
<1>1. \E x \in S : \A y \in S : ~(y < x)
  <2>1. \A a, b \in Nat : a < b => <<a, b>> \in OpToRel(<, Nat)
    BY Zenon DEF OpToRel
  <2>2. \E x \in S : \A y \in S : ~(<<y, x>> \in OpToRel(<, Nat))
    BY WFMin, NatLessThanWellFounded, Zenon
  <2> QED BY <2>1, <2>2, Zenon
<1>2. \E x \in S : \A y \in S : x <= y
  BY <1>1, SMT
<1> QED BY <1>2, Zenon DEF Min

\* A segment takes its payload's numbers and one for each of SYN and FIN.
LEMMA LengthNat ==
  ASSUME NEW B, NEW seg \in Segments(B)
  PROVE  /\ length_in_sequence_space(seg) \in Nat
         /\ length_in_sequence_space(seg) >= Len(seg.payload)
<1>1. Len(seg.payload) \in Nat
  BY DEF Segments
<1>2. bit(seg.syn) \in Nat /\ bit(seg.fin) \in Nat
  BY DEF bit
<1> QED BY <1>1, <1>2 DEF length_in_sequence_space

\* sizes counts: its recursion is well defined for every queue.
LEMMA Sizes ==
  ASSUME NEW B, NEW q \in Seq(Segments(B))
  PROVE  /\ sizes(q) \in [0 .. Len(q) -> Nat] /\ sizes(q)[0] = 0
         /\ \A i \in 1 .. Len(q) :
              sizes(q)[i] = sizes(q)[i - 1] + length_in_sequence_space(q[i])
<1> DEFINE N == Len(q)
           len(i) == length_in_sequence_space(q[i])
           Sums(f, m) == f[0] = 0 /\ \A i \in 1 .. m : f[i] = f[i - 1] + len(i)
           S == {m \in Nat : m <= N => \E f \in [0 .. N -> Nat] : Sums(f, m)}
           Rec(f) == f = [n \in 0 .. N |-> IF n = 0 THEN 0 ELSE f[n - 1] + len(n)]
<1>1. N \in Nat /\ \A i \in 1 .. N : len(i) \in Nat
  BY LengthNat
<1> HIDE DEF N, len
<1>2. 0 \in S
  <2>1. [n \in 0 .. N |-> 0] \in [0 .. N -> Nat] /\ Sums([n \in 0 .. N |-> 0], 0)
    BY <1>1
  <2> QED BY <2>1, Zenon
<1>3. ASSUME NEW m \in 0 .. N - 1, m \in S PROVE m + 1 \in S
  <2>1. PICK f \in [0 .. N -> Nat] : Sums(f, m)
    BY <1>1, <1>3
  <2> DEFINE g == [f EXCEPT ![m + 1] = f[m] + len(m + 1)]
  <2>2. g \in [0 .. N -> Nat]
    BY <1>1, <2>1, SMTT(20)
  <2>3. g[m + 1] = f[m] + len(m + 1) /\ \A i \in 0 .. m : g[i] = f[i]
    BY <1>1, <2>1
  <2> HIDE DEF g
  <2>4. ASSUME NEW i \in 1 .. m + 1 PROVE g[i] = g[i - 1] + len(i)
    <3>1. CASE i = m + 1
      BY <2>3, <3>1
    <3>2. CASE i # m + 1
      <4>1. i \in 1 .. m /\ i \in 0 .. m /\ i - 1 \in 0 .. m
        BY <3>2
      <4>2. f[i] = f[i - 1] + len(i)
        BY <2>1, <4>1
      <4> QED BY <2>3, <4>1, <4>2, Zenon
    <3> QED BY <3>1, <3>2
  <2>5. Sums(g, m + 1)
    <3>1. g[0] = 0
      BY <2>1, <2>3
    <3> QED BY <2>4, <3>1
  <2>6. m + 1 \in Nat
    OBVIOUS
  <2> QED BY <2>2, <2>5, <2>6, Zenon
<1>4. N \in S
  <2>1. N \in 0 .. N
    BY <1>1
  <2> HIDE DEF S
  <2> QED BY <1>1, <1>2, <1>3, <2>1, UpTo, Zenon
<1>5. PICK f \in [0 .. N -> Nat] : Sums(f, N)
  <2>1. N <= N
    BY <1>1
  <2> QED BY <1>4, <2>1, Zenon
<1>6. Rec(f)
  <2>1. \A n \in 0 .. N : f[n] = IF n = 0 THEN 0 ELSE f[n - 1] + len(n)
    BY <1>1, <1>5
  <2> QED BY <2>1
<1>7. sizes(q) = CHOOSE g : Rec(g)
  BY Zenon DEF sizes, N, len
<1>8. Rec(sizes(q))
  BY <1>6, <1>7, Zenon
<1> DEFINE g == sizes(q)
<1> HIDE DEF g
<1>9. /\ g = [n \in 0 .. N |-> g[n]] /\ g[0] = 0
      /\ \A n \in 1 .. N : g[n] = g[n - 1] + len(n)
  <2>1. Rec(g)
    BY <1>8, Zenon DEF g
  <2>2. \A n \in 0 .. N : g[n] = IF n = 0 THEN 0 ELSE g[n - 1] + len(n)
    BY <2>1, Zenon
  <2>3. g = [n \in 0 .. N |-> g[n]]
    BY <2>1, <2>2
  <2> QED BY <1>1, <2>2, <2>3
<1>10. \A n \in 0 .. N : g[n] \in Nat
  <2> DEFINE T == {i \in Nat : i <= N => g[i] \in Nat}
  <2>1. 0 \in T
    BY <1>9
  <2>2. ASSUME NEW i \in 0 .. N - 1, i \in T PROVE i + 1 \in T
    <3>1. i + 1 \in 1 .. N /\ (i + 1) - 1 = i /\ g[i] \in Nat
      BY <1>1, <2>2
    <3>2. g[i + 1] = g[i] + len(i + 1) /\ len(i + 1) \in Nat
      BY <1>1, <1>9, <3>1, Zenon
    <3> QED BY <3>1, <3>2
  <2> HIDE DEF T
  <2>3. \A i \in 0 .. N : i \in T
    BY <1>1, <2>1, <2>2, UpTo, Zenon
  <2> QED BY <1>1, <2>3 DEF T
<1> QED BY <1>9, <1>10, Zenon DEF N, len, g

\* Whatever counts like sizes is sizes.
LEMMA SizesAre ==
  ASSUME NEW B, NEW q \in Seq(Segments(B)), NEW f, f[0] = 0,
         \A i \in 1 .. Len(q) : f[i] = f[i - 1] + length_in_sequence_space(q[i])
  PROVE  \A i \in 0 .. Len(q) : f[i] = sizes(q)[i]
<1> DEFINE N == Len(q)
           g == sizes(q)
           T == {i \in Nat : i <= N => f[i] = g[i]}
<1>1. N \in Nat /\ g[0] = 0 /\ \A i \in 1 .. N : g[i] = g[i - 1] + length_in_sequence_space(q[i])
  BY Sizes
<1> HIDE DEF g
<1>2. 0 \in T
  BY <1>1
<1>3. ASSUME NEW i \in 0 .. N - 1, i \in T PROVE i + 1 \in T
  <2>1. i + 1 \in 1 .. N /\ (i + 1) - 1 = i /\ f[i] = g[i] /\ i + 1 \in Nat
    BY <1>1, <1>3
  <2>2. /\ f[i + 1] = f[i] + length_in_sequence_space(q[i + 1])
        /\ g[i + 1] = g[i] + length_in_sequence_space(q[i + 1])
    BY <1>1, <2>1
  <2> QED BY <2>1, <2>2, Zenon
<1>4. \A i \in 0 .. N : i \in T
  <2> HIDE DEF T, N
  <2> QED BY <1>1, <1>2, <1>3, UpTo, Zenon
<1>5. ASSUME NEW i \in 0 .. N PROVE f[i] = g[i]
  BY <1>1, <1>4
<1> QED BY <1>5 DEF g

\* The sizes of a queue behind which another is put.
LEMMA SizesConcat ==
  ASSUME NEW B, NEW p \in Seq(Segments(B)), NEW q \in Seq(Segments(B))
  PROVE  /\ p \o q \in Seq(Segments(B)) /\ Len(p \o q) = Len(p) + Len(q)
         /\ \A i \in 0 .. Len(p) : sizes(p \o q)[i] = sizes(p)[i]
         /\ \A j \in 0 .. Len(q) : sizes(p \o q)[Len(p) + j] = sizes(p)[Len(p)] + sizes(q)[j]
<1> DEFINE r == p \o q
           M == Len(p)
           N == Len(q)
           f == [i \in 0 .. M + N |-> IF i <= M THEN sizes(p)[i] ELSE sizes(p)[M] + sizes(q)[i - M]]
<1>1. /\ r \in Seq(Segments(B)) /\ Len(r) = M + N /\ M \in Nat /\ N \in Nat
      /\ \A i \in 1 .. M : r[i] = p[i]
      /\ \A i \in M + 1 .. M + N : r[i] = q[i - M]
  BY JoinOf
<1>2. /\ sizes(p) \in [0 .. M -> Nat] /\ sizes(p)[0] = 0
      /\ \A i \in 1 .. M : sizes(p)[i] = sizes(p)[i - 1] + length_in_sequence_space(p[i])
  BY Sizes
<1>3. /\ sizes(q) \in [0 .. N -> Nat] /\ sizes(q)[0] = 0
      /\ \A i \in 1 .. N : sizes(q)[i] = sizes(q)[i - 1] + length_in_sequence_space(q[i])
  BY Sizes
<1> HIDE DEF r, M, N
<1>4. \A i \in 1 .. M + N : length_in_sequence_space(r[i]) \in Nat
  BY <1>1, LengthNat
<1>5. f[0] = 0
  BY <1>1, <1>2
<1>6. ASSUME NEW i \in 1 .. Len(r) PROVE f[i] = f[i - 1] + length_in_sequence_space(r[i])
  <2>1. i \in 1 .. M + N /\ i \in 0 .. M + N /\ i - 1 \in 0 .. M + N
    BY <1>1, <1>6
  <2>2. CASE i <= M
    <3>1. i \in 1 .. M /\ i - 1 <= M
      BY <1>1, <1>6, <2>2
    <3>2. f[i] = sizes(p)[i] /\ f[i - 1] = sizes(p)[i - 1]
      BY <2>1, <2>2, <3>1
    <3> QED BY <1>1, <1>2, <3>1, <3>2, Zenon
  <2>3. CASE i > M
    <3>1. i - M \in 1 .. N /\ (i - M) - 1 \in 0 .. N /\ i \in M + 1 .. M + N
      BY <1>1, <1>6, <2>3
    <3>2. f[i] = sizes(p)[M] + sizes(q)[i - M]
      BY <1>1, <2>1, <2>3
    <3>3. f[i - 1] = sizes(p)[M] + sizes(q)[(i - M) - 1]
      <4>1. CASE i - 1 = M
        <5>1. (i - M) - 1 = 0
          BY <1>1, <2>1, <4>1
        <5>2. f[i - 1] = sizes(p)[M] /\ sizes(p)[M] \in Nat
          BY <1>1, <1>2, <2>1, <4>1
        <5> QED BY <1>3, <5>1, <5>2
      <4>2. CASE i - 1 # M
        <5>1. ~(i - 1 <= M) /\ (i - 1) - M = (i - M) - 1
          BY <1>1, <2>1, <2>3, <4>2
        <5> QED BY <2>1, <5>1
      <4> QED BY <4>1, <4>2
    <3>4. sizes(q)[i - M] = sizes(q)[(i - M) - 1] + length_in_sequence_space(q[i - M])
      BY <1>3, <3>1
    <3>5. r[i] = q[i - M]
      BY <1>1, <3>1
    <3>6. /\ sizes(q)[(i - M) - 1] \in Nat /\ sizes(p)[M] \in Nat
          /\ length_in_sequence_space(r[i]) \in Nat
      BY <1>1, <1>2, <1>3, <1>4, <2>1, <3>1
    <3> HIDE DEF f
    <3> QED BY <3>2, <3>3, <3>4, <3>5, <3>6
  <2> QED BY <1>1, <1>6, <2>2, <2>3
<1>7. \A i \in 0 .. Len(r) : f[i] = sizes(r)[i]
  <2> HIDE DEF f
  <2> QED BY <1>1, <1>5, <1>6, SizesAre, Zenon
<1>8. ASSUME NEW i \in 0 .. M PROVE sizes(r)[i] = sizes(p)[i]
  <2>1. i \in 0 .. Len(r) /\ i <= M /\ i \in 0 .. M + N
    BY <1>1
  <2>2. f[i] = sizes(p)[i]
    BY <2>1
  <2> QED BY <1>7, <2>1, <2>2, Zenon
<1>9. ASSUME NEW j \in 0 .. N PROVE sizes(r)[M + j] = sizes(p)[M] + sizes(q)[j]
  <2>1. M + j \in 0 .. Len(r) /\ M + j \in 0 .. M + N /\ (M + j) - M = j /\ M \in 0 .. M
    BY <1>1
  <2>2. f[M + j] = sizes(p)[M] + sizes(q)[j]
    <3>1. CASE j = 0
      BY <1>1, <1>2, <1>3, <2>1, <3>1
    <3>2. CASE j # 0
      <4>1. ~(M + j <= M)
        BY <1>1, <3>2
      <4> QED BY <2>1, <4>1
    <3> QED BY <3>1, <3>2
  <2> QED BY <1>7, <2>1, <2>2, Zenon
<1> QED BY <1>1, <1>8, <1>9 DEF r, M, N

\* SizesConcat, at one place behind the front queue.
LEMMA SizesBehind ==
  ASSUME NEW B, NEW p \in Seq(Segments(B)), NEW q \in Seq(Segments(B)), NEW j \in 0 .. Len(q)
  PROVE  sizes(p \o q)[Len(p) + j] = sizes(p)[Len(p)] + sizes(q)[j]
BY SizesConcat

\* The sizes of a queue without its first n segments.
LEMMA SizesDrop ==
  ASSUME NEW B, NEW q \in Seq(Segments(B)), NEW n \in 0 .. Len(q)
  PROVE  LET r == SubSeq(q, n + 1, Len(q))
         IN /\ r \in Seq(Segments(B)) /\ Len(r) = Len(q) - n
            /\ \A i \in 1 .. Len(r) : r[i] = q[n + i]
            /\ \A j \in 0 .. Len(r) : sizes(r)[j] = sizes(q)[n + j] - sizes(q)[n]
<1> DEFINE r == SubSeq(q, n + 1, Len(q))
           N == Len(q)
           f == [j \in 0 .. N - n |-> sizes(q)[n + j] - sizes(q)[n]]
<1>1. N \in Nat /\ n \in Nat /\ n <= N
  OBVIOUS
<1>2. r \in Seq(Segments(B)) /\ Len(r) = N - n /\ \A i \in 1 .. N - n : r[i] = q[n + i]
  <2>1. CASE n = N
    <3>1. r = << >>
      BY <2>1
    <3> QED BY <1>1, <2>1, <3>1
  <2>2. CASE n < N
    <3>1. n + 1 \in 1 .. N + 1 /\ N \in n .. N /\ n + 1 <= N
      BY <1>1, <2>2
    <3>2. \A i \in n + 1 .. N : q[i] \in Segments(B)
      BY <1>1
    <3> QED BY <1>1, <3>1, <3>2, SliceOf
  <2> QED BY <1>1, <2>1, <2>2
<1>3. /\ sizes(q) \in [0 .. N -> Nat] /\ sizes(q)[0] = 0
      /\ \A i \in 1 .. N : sizes(q)[i] = sizes(q)[i - 1] + length_in_sequence_space(q[i])
  BY Sizes
<1> HIDE DEF r, N
<1>4. f[0] = 0
  BY <1>1, <1>3
<1>5. ASSUME NEW i \in 1 .. Len(r) PROVE f[i] = f[i - 1] + length_in_sequence_space(r[i])
  <2>1. /\ i \in 0 .. N - n /\ i - 1 \in 0 .. N - n /\ n + i \in 1 .. N
        /\ (n + i) - 1 = n + (i - 1) /\ i \in 1 .. N - n /\ n + (i - 1) \in 0 .. N
    BY <1>1, <1>2, <1>5
  <2>2. sizes(q)[n + i] = sizes(q)[n + (i - 1)] + length_in_sequence_space(q[n + i])
    BY <1>3, <2>1
  <2>3. r[i] = q[n + i]
    BY <1>2, <2>1
  <2>4. length_in_sequence_space(r[i]) \in Nat
    BY <1>2, LengthNat
  <2>5. f[i] = sizes(q)[n + i] - sizes(q)[n] /\ f[i - 1] = sizes(q)[n + (i - 1)] - sizes(q)[n]
    BY <2>1
  <2>6. sizes(q)[n + (i - 1)] \in Nat /\ sizes(q)[n] \in Nat
    BY <1>1, <1>3, <2>1, SMTT(20)
  <2> HIDE DEF f
  <2> QED BY <2>2, <2>3, <2>4, <2>5, <2>6
<1>6. \A i \in 0 .. Len(r) : f[i] = sizes(r)[i]
  <2> HIDE DEF f
  <2> QED BY <1>2, <1>4, <1>5, SizesAre, Zenon
<1>7. \A i \in 0 .. Len(r) : f[i] = sizes(q)[n + i] - sizes(q)[n]
  BY <1>2
<1> QED BY <1>2, <1>6, <1>7, Zenon DEF r, N

\* More segments never take fewer numbers.
LEMMA SizesGrow ==
  ASSUME NEW B, NEW q \in Seq(Segments(B)), NEW i \in 0 .. Len(q), NEW j \in 0 .. Len(q), i <= j
  PROVE  sizes(q)[i] <= sizes(q)[j]
<1> DEFINE N == Len(q)
           g == sizes(q)
           T == {k \in Nat : i + k <= N => g[i] <= g[i + k]}
<1>1. /\ N \in Nat /\ g \in [0 .. N -> Nat]
      /\ \A k \in 1 .. N : g[k] = g[k - 1] + length_in_sequence_space(q[k])
      /\ \A k \in 1 .. N : length_in_sequence_space(q[k]) \in Nat
  BY Sizes, LengthNat
<1> HIDE DEF g, N
<1>2. i \in Nat /\ j \in Nat /\ i \in 0 .. N /\ j \in 0 .. N
  BY DEF N
<1>3. 0 \in T
  BY <1>1, <1>2
<1>4. ASSUME NEW k \in 0 .. N - 1, k \in T PROVE k + 1 \in T
  <2> SUFFICES ASSUME i + (k + 1) <= N PROVE g[i] <= g[i + (k + 1)]
    BY <1>4
  <2>1. i + k <= N /\ i + (k + 1) \in 1 .. N /\ (i + (k + 1)) - 1 = i + k /\ i + k \in 0 .. N
    BY <1>1, <1>2
  <2>2. g[i] <= g[i + k]
    BY <1>4, <2>1
  <2>3. g[i + (k + 1)] = g[i + k] + length_in_sequence_space(q[i + (k + 1)])
    BY <1>1, <2>1
  <2>4. g[i] \in Nat /\ g[i + k] \in Nat /\ length_in_sequence_space(q[i + (k + 1)]) \in Nat
    BY <1>1, <1>2, <2>1
  <2> QED BY <2>2, <2>3, <2>4
<1>5. \A k \in 0 .. N : k \in T
  <2> HIDE DEF T
  <2> QED BY <1>1, <1>3, <1>4, UpTo, Zenon
<1>6. j - i \in 0 .. N /\ i + (j - i) = j /\ j <= N
  BY <1>1, <1>2
<1>7. g[i] <= g[i + (j - i)]
  BY <1>5, <1>6
<1> QED BY <1>6, <1>7 DEF g

\* A queue whose segments all take numbers takes none only if it is empty.
LEMMA SizesPositive ==
  ASSUME NEW B, NEW q \in Seq(Segments(B)),
         \A i \in 1 .. Len(q) : length_in_sequence_space(q[i]) > 0
  PROVE  sizes(q)[Len(q)] \in Nat /\ (sizes(q)[Len(q)] = 0 <=> q = << >>)
<1>1. /\ Len(q) \in Nat /\ sizes(q) \in [0 .. Len(q) -> Nat] /\ sizes(q)[0] = 0
      /\ \A k \in 1 .. Len(q) : sizes(q)[k] = sizes(q)[k - 1] + length_in_sequence_space(q[k])
  BY Sizes
<1>2. CASE q = << >>
  BY <1>1, <1>2
<1>3. CASE q # << >>
  <2>1. Len(q) > 0
    BY <1>1, <1>3, NoneOf
  <2>2. 1 \in 0 .. Len(q) /\ 1 \in 1 .. Len(q) /\ Len(q) \in 0 .. Len(q) /\ 1 <= Len(q)
    BY <1>1, <2>1
  <2>3. sizes(q)[1] = 0 + length_in_sequence_space(q[1]) /\ length_in_sequence_space(q[1]) > 0
    BY <1>1, <2>2
  <2>4. length_in_sequence_space(q[1]) \in Nat
    BY <2>2, LengthNat
  <2>5. sizes(q)[1] <= sizes(q)[Len(q)]
    BY <2>2, SizesGrow
  <2>6. sizes(q)[Len(q)] \in Nat /\ sizes(q)[1] \in Nat
    BY <1>1, <2>2
  <2> QED BY <1>3, <2>3, <2>4, <2>5, <2>6
<1> QED BY <1>2, <1>3

\* The sizes of a queue of one segment.
LEMMA SizesSingle ==
  ASSUME NEW B, NEW seg \in Segments(B)
  PROVE  /\ <<seg>> \in Seq(Segments(B)) /\ Len(<<seg>>) = 1
         /\ sizes(<<seg>>)[0] = 0 /\ sizes(<<seg>>)[1] = length_in_sequence_space(seg)
<1>1. <<seg>> \in Seq(Segments(B)) /\ Len(<<seg>>) = 1 /\ <<seg>>[1] = seg
  OBVIOUS
<1> DEFINE q == <<seg>>
<1> HIDE DEF q
<1>2. q \in Seq(Segments(B)) /\ Len(q) = 1 /\ q[1] = seg
  BY <1>1 DEF q
<1>3. /\ sizes(q)[0] = 0
      /\ \A k \in 1 .. Len(q) : sizes(q)[k] = sizes(q)[k - 1] + length_in_sequence_space(q[k])
  BY <1>2, Sizes, Zenon
<1>4. 1 \in 1 .. Len(q) /\ 1 - 1 = 0
  BY <1>2
<1>5. length_in_sequence_space(seg) \in Nat
  BY LengthNat
<1>6. sizes(q)[1] = 0 + length_in_sequence_space(seg)
  BY <1>2, <1>3, <1>4
<1> QED BY <1>2, <1>3, <1>5, <1>6 DEF q

\* A train of pieces goes on where the one before it ends.
LEMMA TrainConcat ==
  ASSUME NEW B, NEW p \in Seq(Segments(B)), NEW q \in Seq(Segments(B)), NEW a \in Nat, NEW isn, NEW str,
         Train(p, a, isn, str), Train(q, a + sizes(p)[Len(p)], isn, str)
  PROVE  Train(p \o q, a, isn, str)
<1> DEFINE r == p \o q
           M == Len(p)
           N == Len(q)
<1>1. M \in Nat /\ N \in Nat /\ sizes(p) \in [0 .. M -> Nat] /\ sizes(q) \in [0 .. N -> Nat]
  BY Sizes
<1>2. r \in Seq(Segments(B)) /\ Len(r) = M + N
      /\ \A i \in 0 .. M : sizes(r)[i] = sizes(p)[i]
      /\ \A j \in 0 .. N : sizes(r)[M + j] = sizes(p)[M] + sizes(q)[j]
  BY SizesConcat
<1>3. /\ \A i \in 1 .. M : r[i] = p[i]
      /\ \A i \in M + 1 .. M + N : r[i] = q[i - M]
  BY <1>1, JoinOf
<1> HIDE DEF r
<1>4. ASSUME NEW i \in 1 .. M + N
      PROVE  /\ Fresh(r[i], a + sizes(r)[i - 1], isn, str)
             /\ length_in_sequence_space(r[i]) \in 1 .. WIN_MOD
             /\ Len(r[i].payload) <= MAX_PAYLOAD_SIZE
  <2>1. CASE i <= M
    <3>1. i \in 1 .. M /\ i - 1 \in 0 .. M
      BY <1>1, <2>1
    <3>2. r[i] = p[i] /\ sizes(r)[i - 1] = sizes(p)[i - 1]
      BY <1>2, <1>3, <3>1
    <3> QED BY <3>1, <3>2, Zenon DEF Train
  <2>2. CASE i > M
    <3> DEFINE j == i - M
    <3>1. j \in 1 .. N /\ j - 1 \in 0 .. N /\ i \in M + 1 .. M + N /\ M + (j - 1) = i - 1
      BY <1>1, <2>2
    <3>2. r[i] = q[j] /\ sizes(r)[i - 1] = sizes(p)[M] + sizes(q)[j - 1]
      <4>1. sizes(r)[M + (j - 1)] = sizes(p)[M] + sizes(q)[j - 1]
        BY <1>2, <3>1
      <4> QED BY <1>3, <3>1, <4>1
    <3> HIDE DEF j
    <3>3. a + sizes(r)[i - 1] = (a + sizes(p)[M]) + sizes(q)[j - 1]
      <4>1. sizes(q)[j - 1] \in Nat
        BY <1>1, <3>1, Zenon
      <4>2. M \in 0 .. M
        BY <1>1
      <4>3. sizes(p)[M] \in Nat
        BY <1>1, <4>2
      <4> QED BY <3>2, <4>1, <4>3
    <3> QED BY <3>1, <3>2, <3>3, Zenon DEF Train
  <2> QED BY <1>1, <2>1, <2>2
<1>5. Train(r, a, isn, str)
  BY <1>2, <1>4, Zenon DEF Train
<1> QED BY <1>5 DEF r

\* What is left of a train when its first n segments go.
LEMMA TrainDrop ==
  ASSUME NEW B, NEW q \in Seq(Segments(B)), NEW n \in 0 .. Len(q), NEW a \in Nat, NEW isn, NEW str,
         Train(q, a, isn, str)
  PROVE  Train(SubSeq(q, n + 1, Len(q)), a + sizes(q)[n], isn, str)
<1> DEFINE r == SubSeq(q, n + 1, Len(q))
           N == Len(q)
<1>1. N \in Nat /\ sizes(q) \in [0 .. N -> Nat]
  BY Sizes
<1>2. /\ r \in Seq(Segments(B)) /\ Len(r) = N - n
      /\ \A i \in 1 .. Len(r) : r[i] = q[n + i]
      /\ \A j \in 0 .. Len(r) : sizes(r)[j] = sizes(q)[n + j] - sizes(q)[n]
  BY SizesDrop
<1> HIDE DEF r
<1>3. ASSUME NEW i \in 1 .. Len(r)
      PROVE  /\ Fresh(r[i], (a + sizes(q)[n]) + sizes(r)[i - 1], isn, str)
             /\ length_in_sequence_space(r[i]) \in 1 .. WIN_MOD
             /\ Len(r[i].payload) <= MAX_PAYLOAD_SIZE
  <2> DEFINE j == n + i
  <2>1. j \in 1 .. N /\ j - 1 \in 0 .. N /\ i - 1 \in 0 .. Len(r) /\ n + (i - 1) = j - 1
    BY <1>1, <1>2
  <2>2. r[i] = q[j] /\ sizes(r)[i - 1] = sizes(q)[j - 1] - sizes(q)[n]
    <3>1. sizes(r)[i - 1] = sizes(q)[n + (i - 1)] - sizes(q)[n]
      BY <1>2, <2>1
    <3> QED BY <1>2, <2>1, <3>1
  <2> HIDE DEF j
  <2>3. (a + sizes(q)[n]) + sizes(r)[i - 1] = a + sizes(q)[j - 1]
    <3>1. sizes(q)[j - 1] \in Nat /\ sizes(q)[n] \in Nat
      BY <1>1, <2>1, SMTT(20)
    <3> QED BY <2>2, <3>1
  <2> QED BY <2>1, <2>2, <2>3, Zenon DEF Train
<1>4. Train(r, a + sizes(q)[n], isn, str)
  BY <1>3, Zenon DEF Train
<1> QED BY <1>4 DEF r

\* _send_segment, for consecutive pieces that start at next_seqno, keeps the queue of
\* outstanding segments tiled and starts the timer.
LEMMA SendSegments ==
  ASSUME NEW B, NEW str \in Seq(B), NEW s \in Senders(B), Tiled(s, str), Timed(s), Queued(s, str),
         NEW segs \in Seq(Segments(B)), segs # << >>,
         Train(segs, s.next_seqno, s.isn, str)
  PROVE  LET size == sizes(segs)[Len(segs)]
             t == _send_segments(s, segs, size)
         IN /\ t \in Senders(B) /\ Tiled(t, str) /\ Timed(t) /\ Queued(t, str)
            /\ t.timer_running = TRUE /\ t.segments_outstanding # << >> /\ size \in Nat
            /\ t.next_seqno = s.next_seqno + size /\ t.bytes_in_flight = s.bytes_in_flight + size
            /\ t.receiver_free_space = (s.receiver_free_space - size) % WIN_MOD
            /\ t.stream = s.stream /\ t.syn_sent = s.syn_sent /\ t.fin_sent = s.fin_sent
            /\ t.isn = s.isn /\ t.initial_rto = s.initial_rto
            /\ t.receiver_window_size = s.receiver_window_size
            /\ t.consecutive_retransmissions = s.consecutive_retransmissions
            /\ Len(t.segments_out) = Len(s.segments_out) + Len(segs)
<1> DEFINE size == sizes(segs)[Len(segs)]
           t == _send_segments(s, segs, size)
           out == s.segments_outstanding
           M == Len(out)
           N == Len(segs)
           free == (s.receiver_free_space - size) % WIN_MOD
<1>1. /\ out \in Seq(Segments(B)) /\ s.segments_out \in Seq(Segments(B)) /\ s.next_seqno \in Nat
      /\ s.bytes_in_flight \in Nat /\ s.receiver_free_space \in 0 .. WIN_MOD - 1 /\ s.time_elapsed \in Nat
  BY DEF Senders
<1> HIDE DEF out
<1>2. /\ M \in Nat /\ N \in Nat /\ N > 0 /\ sizes(segs) \in [0 .. N -> Nat] /\ sizes(out) \in [0 .. M -> Nat]
      /\ size \in Nat
  <2>1. N > 0 /\ N \in Nat /\ N \in 0 .. N
    BY NoneOf
  <2>2. sizes(segs) \in [0 .. N -> Nat]
    BY Sizes, Zenon
  <2>3. sizes(out) \in [0 .. M -> Nat] /\ M \in Nat
    BY <1>1, Sizes
  <2> QED BY <2>1, <2>2, <2>3, SMTT(20)
<1>3. /\ out \o segs \in Seq(Segments(B)) /\ Len(out \o segs) = M + N
      /\ sizes(out \o segs)[M + N] = sizes(out)[M] + size
  <2>1. N \in 0 .. N
    BY <1>2
  <2>2. sizes(out \o segs)[M + N] = sizes(out)[M] + size
    BY <1>1, <2>1, SizesBehind
  <2> QED BY <1>1, <2>2
<1>4. WIN_MOD \in Nat \ {0}
  BY SenderAssumption
<1>5. free \in 0 .. WIN_MOD - 1
  BY <1>1, <1>2, <1>4, SMTT(20)
<1> HIDE DEF size, free
<1>6. /\ t.next_seqno = s.next_seqno + size /\ t.bytes_in_flight = s.bytes_in_flight + size
      /\ t.receiver_free_space = free /\ t.segments_out = s.segments_out \o segs
      /\ t.segments_outstanding = out \o segs /\ t.timer_running = TRUE
      /\ t.time_elapsed = IF s.timer_running THEN s.time_elapsed ELSE 0
      /\ t.stream = s.stream /\ t.syn_sent = s.syn_sent /\ t.fin_sent = s.fin_sent
      /\ t.isn = s.isn /\ t.initial_rto = s.initial_rto /\ t.rto = s.rto
      /\ t.receiver_window_size = s.receiver_window_size
      /\ t.consecutive_retransmissions = s.consecutive_retransmissions
  BY SMTT(20) DEF _send_segments, Senders, free, out
<1>7. t \in Senders(B)
  <2>1. s.segments_out \o segs \in Seq(Segments(B))
    BY <1>1
  <2>2. s.next_seqno + size \in Nat /\ s.bytes_in_flight + size \in Nat
    BY <1>1, <1>2, SMTT(20)
  <2>3. (IF s.timer_running THEN s.time_elapsed ELSE 0) \in Nat
    BY <1>1
  <2> QED BY <1>3, <1>5, <2>1, <2>2, <2>3, Zenon DEF _send_segments, Senders, free, out
<1> HIDE DEF t
<1>8. oldest(t) = oldest(s) /\ oldest(s) \in Nat /\ oldest(s) + s.bytes_in_flight = s.next_seqno
      /\ s.bytes_in_flight = sizes(out)[M]
  <2>1. s.bytes_in_flight = sizes(out)[M] /\ s.bytes_in_flight <= s.next_seqno
    BY Zenon DEF Tiled, out
  <2>2. oldest(t) = t.next_seqno - t.bytes_in_flight /\ oldest(s) = s.next_seqno - s.bytes_in_flight
    BY Zenon DEF oldest
  <2>3. t.next_seqno = s.next_seqno + size /\ t.bytes_in_flight = s.bytes_in_flight + size
    BY <1>6, Zenon
  <2>4. s.next_seqno \in Nat /\ s.bytes_in_flight \in Nat /\ size \in Nat
    BY <1>1, <1>2, Zenon
  <2>5. oldest(t) = oldest(s) /\ oldest(s) \in Nat /\ oldest(s) + s.bytes_in_flight = s.next_seqno
    BY <2>1, <2>2, <2>3, <2>4
  <2> QED BY <2>1, <2>5, Zenon
<1>9. Tiled(t, str)
  <2>1. t.bytes_in_flight = sizes(out \o segs)[M + N] /\ t.bytes_in_flight <= t.next_seqno
    <3>1. t.next_seqno = s.next_seqno + size /\ t.bytes_in_flight = s.bytes_in_flight + size
          /\ s.bytes_in_flight <= s.next_seqno
      BY <1>6, Zenon DEF Tiled
    <3> QED BY <1>1, <1>2, <1>3, <1>8, <3>1
  <2>2. Train(out, oldest(s), s.isn, str)
    BY Zenon DEF Tiled, out
  <2>3. Train(segs, oldest(s) + sizes(out)[M], s.isn, str)
    BY <1>8
  <2>4. Train(out \o segs, oldest(s), s.isn, str)
    BY <1>1, <1>8, <2>2, <2>3, TrainConcat
  <2> QED BY <1>3, <1>6, <1>8, <2>1, <2>4, Zenon DEF Tiled
<1>10. Queued(t, str)
  <2> DEFINE p == s.segments_out
             q == p \o segs
             L == Len(p)
  <2>1. L \in Nat /\ Len(q) = L + N
    BY <1>1, <1>2
  <2>2. \A i \in 1 .. L : q[i] = p[i]
    BY <1>1, <1>2, JoinOf
  <2>3. \A i \in L + 1 .. L + N : q[i] = segs[i - L]
    BY <1>1, <1>2, JoinOf
  <2> HIDE DEF q
  <2>4. ASSUME NEW i \in 1 .. L + N PROVE \E a \in Nat : Fresh(q[i], a, t.isn, str)
    <3>1. CASE i <= L
      <4>1. i \in 1 .. L
        BY <2>1, <3>1
      <4> QED BY <1>6, <2>2, <4>1, Zenon DEF Queued
    <3>2. CASE i > L
      <4> DEFINE j == i - L
      <4>1. j \in 1 .. N /\ j - 1 \in 0 .. N /\ i \in L + 1 .. L + N
        BY <1>2, <2>1, <3>2
      <4>2. q[i] = segs[j]
        BY <2>3, <4>1
      <4> HIDE DEF j
      <4>3. s.next_seqno + sizes(segs)[j - 1] \in Nat
        <5>1. sizes(segs)[j - 1] \in Nat
          BY <1>2, <4>1, Zenon
        <5> QED BY <1>1, <5>1
      <4> QED BY <1>6, <4>1, <4>2, <4>3, Zenon DEF Train
    <3> QED BY <2>1, <3>1, <3>2
  <2>5. t.segments_out = q
    BY <1>6 DEF q
  <2> QED BY <2>1, <2>4, <2>5, Zenon DEF Queued
<1>11. Timed(t)
  <2>1. s.time_elapsed < s.rto /\ s.rto \in Nat
    BY DEF Timed, Senders
  <2>2. t.time_elapsed < s.rto
    BY <1>1, <1>6, <2>1
  <2> QED BY <1>6, <2>2, Zenon DEF Timed
<1>12. t.segments_outstanding # << >> /\ Len(t.segments_out) = Len(s.segments_out) + N
  <2>1. Len(t.segments_outstanding) # 0
    BY <1>2, <1>3, <1>6
  <2>2. Len(s.segments_out \o segs) = Len(s.segments_out) + N
    BY <1>1
  <2> QED BY <1>6, <2>1, <2>2
<1> QED BY <1>2, <1>6, <1>7, <1>9, <1>10, <1>11, <1>12 DEF size, t, free

\* It is a segment.
LEMMA NextSegment ==
  ASSUME NEW B, NEW s \in Senders(B), NEW offset \in Nat, NEW syn \in BOOLEAN, NEW fin \in BOOLEAN,
         NEW payload \in Seq(B)
  PROVE  next_segment(s, offset, syn, fin, payload) \in Segments(B)
<1> DEFINE seg == next_segment(s, offset, syn, fin, payload)
<1>1. wrap(s.next_seqno + offset, s.isn) \in WrappingInt32 /\ 0 \in WrappingInt32 /\ 0 \in 0 .. WIN_MOD - 1
  <2>1. s.next_seqno + offset \in Int /\ s.isn \in WrappingInt32
    BY DEF Senders
  <2>2. 0 \in WrappingInt32 /\ 0 \in 0 .. WIN_MOD - 1
    BY SeqModAssumption, SenderAssumption DEF WrappingInt32
  <2> QED BY <2>1, <2>2, WrapSpec
<1>2. seg = [[seqno |-> 0, ackno |-> 0, win |-> 0, syn |-> FALSE, ack |-> FALSE, rst |-> FALSE,
              fin |-> FALSE, payload |-> <<>>]
             EXCEPT !.seqno = wrap(s.next_seqno + offset, s.isn), !.syn = syn, !.fin = fin, !.payload = payload]
  BY Zenon DEF next_segment, new_TCPSegment
<1> QED BY <1>1, <1>2, Zenon DEF Segments

\* Changes of the stream and of the flags leave what is outstanding, and the timer, alone.
LEMMA SameQueues ==
  ASSUME NEW str, NEW s, NEW u,
         u.segments_outstanding = s.segments_outstanding, u.segments_out = s.segments_out,
         u.next_seqno = s.next_seqno, u.bytes_in_flight = s.bytes_in_flight, u.isn = s.isn,
         u.initial_rto = s.initial_rto, u.rto = s.rto, u.time_elapsed = s.time_elapsed,
         u.consecutive_retransmissions = s.consecutive_retransmissions,
         Tiled(s, str), Timed(s), Queued(s, str)
  PROVE  Tiled(u, str) /\ Timed(u) /\ Queued(u, str)
<1>1. oldest(u) = oldest(s)
  BY Zenon DEF oldest
<1>2. Tiled(u, str)
  BY <1>1, Zenon DEF Tiled
<1>3. Timed(u)
  BY Zenon DEF Timed
<1>4. Queued(u, str)
  BY Zenon DEF Queued
<1> QED BY <1>2, <1>3, <1>4

\* ByteStream::read takes the next n bytes of the stream.
LEMMA ReadOut ==
  ASSUME NEW B, NEW str \in Seq(B), NEW o \in ByteStreams(B), Outbound(o, str), NEW n \in 0 .. Len(o.buffer)
  PROVE  LET p == pop_output(o, n)
         IN /\ p \in ByteStreams(B) /\ Outbound(p, str) /\ p.nread = o.nread + n
            /\ Len(p.buffer) = Len(o.buffer) - n /\ p.input_ended = o.input_ended
            /\ p.nwritten = o.nwritten /\ p.error = o.error /\ p.capacity = o.capacity
<1> DEFINE b == o.buffer
           c == SubSeq(b, n + 1, Len(b))
           p == pop_output(o, n)
<1>1. /\ b \in Seq(B) /\ o.nread \in Nat /\ o.nwritten \in Nat /\ o.capacity \in Nat /\ Len(b) \in Nat
      /\ o.input_ended \in BOOLEAN /\ o.error \in BOOLEAN
  BY DEF ByteStreams
<1>2. n \in Nat /\ n <= Len(b)
  BY <1>1
<1>3. c \in Seq(B) /\ Len(c) = Len(b) - n /\ \A k \in 1 .. Len(b) - n : c[k] = b[n + k]
  BY <1>1, <1>2, SliceOf
<1>4. MinOf(buffer_size(o), n) = n
  BY <1>1, <1>2 DEF MinOf, buffer_size
<1> HIDE DEF c
<1>5. p = [o EXCEPT !.buffer = c, !.nread = @ + n]
  BY <1>4 DEF pop_output, c
<1>6. /\ p.buffer = c /\ p.nread = o.nread + n /\ p.input_ended = o.input_ended
      /\ p.nwritten = o.nwritten /\ p.error = o.error /\ p.capacity = o.capacity
  BY <1>5 DEF ByteStreams
<1>7. p \in ByteStreams(B)
  <2>1. o.nread + n \in Nat
    BY <1>1, <1>2
  <2> QED BY <1>3, <1>5, <2>1, Zenon DEF ByteStreams
<1> HIDE DEF p
<1>8. Outbound(p, str)
  <2>1. /\ Len(b) <= o.capacity /\ o.nread + Len(b) = o.nwritten
        /\ o.nwritten <= Len(str) /\ (o.input_ended => o.nwritten = Len(str))
        /\ \A k \in 1 .. Len(b) : b[k] = str[o.nread + k]
    BY DEF Outbound
  <2>2. ASSUME NEW k \in 1 .. Len(c) PROVE c[k] = str[p.nread + k]
    <3>1. n + k \in 1 .. Len(b) /\ k \in 1 .. Len(b) - n /\ o.nread + (n + k) = (o.nread + n) + k
      BY <1>1, <1>2, <1>3
    <3>2. c[k] = b[n + k] /\ b[n + k] = str[o.nread + (n + k)]
      BY <1>3, <2>1, <3>1
    <3> QED BY <1>6, <3>1, <3>2
  <2>3. Len(c) <= o.capacity /\ p.nread + Len(c) = o.nwritten
    <3>1. p.nread = o.nread + n /\ Len(b) <= o.capacity /\ o.nread + Len(b) = o.nwritten
      BY <1>6, <2>1, Zenon
    <3>2. Len(c) = Len(b) - n
      BY <1>3, Zenon
    <3>3. Len(b) \in Nat /\ o.capacity \in Nat /\ o.nread \in Nat
      BY <1>1, Zenon
    <3> QED BY <1>2, <3>1, <3>2, <3>3, SMTT(20)
  <2> QED BY <1>6, <2>1, <2>2, <2>3, Zenon DEF Outbound
<1> QED BY <1>3, <1>6, <1>8, <1>7 DEF p

\* segs is what s sends next once its flags and its stream are as in u.
Due(s, u, segs, str, B) ==
  /\ Core(s, str, B) /\ u = [s EXCEPT !.stream = u.stream, !.syn_sent = TRUE, !.fin_sent = u.fin_sent]
  /\ u.stream \in ByteStreams(B) /\ Outbound(u.stream, str)
  /\ u.fin_sent \in BOOLEAN /\ (u.fin_sent => eof(u.stream))
  /\ segs \in Seq(Segments(B)) /\ segs # <<>> /\ Train(segs, s.next_seqno, s.isn, str)
  /\ s.next_seqno + sizes(segs)[Len(segs)] = 1 + u.stream.nread + bit(u.fin_sent)

\* t is s after segs, prepared as in u, has been sent.
After(s, u, segs, t, str, B) ==
  /\ Core(t, str, B) /\ Sends(s, t, sizes(segs)[Len(segs)]) /\ sizes(segs)[Len(segs)] \in Nat
  /\ t.stream = u.stream /\ t.syn_sent = TRUE /\ t.fin_sent = u.fin_sent
  /\ Len(t.segments_out) = Len(s.segments_out) + Len(segs)

\* _send_segment after the SYN flag, the stream and the FIN flag have been brought up to
\* date for what is sent.
LEMMA Sent ==
  ASSUME NEW B, NEW str \in Seq(B), NEW s, NEW u, NEW segs, Due(s, u, segs, str, B)
  PROVE  After(s, u, segs, _send_segments(u, segs, sizes(segs)[Len(segs)]), str, B)
<1> DEFINE o == u.stream
           fin == u.fin_sent
           size == sizes(segs)[Len(segs)]
           t == _send_segments(u, segs, size)
<1>1. /\ Core(s, str, B) /\ o \in ByteStreams(B) /\ Outbound(o, str) /\ fin \in BOOLEAN /\ (fin => eof(o))
      /\ segs \in Seq(Segments(B)) /\ segs # << >> /\ Train(segs, s.next_seqno, s.isn, str)
      /\ s.next_seqno + size = 1 + o.nread + bit(fin)
      /\ u = [s EXCEPT !.stream = o, !.syn_sent = TRUE, !.fin_sent = fin]
  BY Zenon DEF Due
<1>2. s \in Senders(B) /\ Tiled(s, str) /\ Timed(s) /\ Queued(s, str)
  BY <1>1 DEF Core
<1>3. u \in Senders(B)
  BY <1>2, <1>1, ZenonT(30) DEF Senders
<1>4. /\ u.segments_outstanding = s.segments_outstanding /\ u.segments_out = s.segments_out
      /\ u.next_seqno = s.next_seqno /\ u.bytes_in_flight = s.bytes_in_flight /\ u.isn = s.isn
      /\ u.initial_rto = s.initial_rto /\ u.rto = s.rto /\ u.time_elapsed = s.time_elapsed
      /\ u.consecutive_retransmissions = s.consecutive_retransmissions
      /\ u.receiver_free_space = s.receiver_free_space /\ u.receiver_window_size = s.receiver_window_size
      /\ u.syn_sent = TRUE
  BY <1>2, <1>1, ZenonT(30) DEF Senders
<1>5. Tiled(u, str) /\ Timed(u) /\ Queued(u, str)
  BY <1>2, <1>4, SameQueues, Zenon
<1>6. Train(segs, u.next_seqno, u.isn, str)
  BY <1>4, <1>1, Zenon
<1>7. segs \in Seq(Segments(B)) /\ segs # << >>
  BY <1>1, Zenon
<1>8. /\ t \in Senders(B) /\ Tiled(t, str) /\ Timed(t) /\ Queued(t, str)
      /\ t.timer_running = TRUE /\ t.segments_outstanding # << >> /\ size \in Nat
      /\ t.next_seqno = u.next_seqno + size /\ t.bytes_in_flight = u.bytes_in_flight + size
      /\ t.receiver_free_space = (u.receiver_free_space - size) % WIN_MOD
      /\ t.stream = u.stream /\ t.syn_sent = u.syn_sent /\ t.fin_sent = u.fin_sent
      /\ t.isn = u.isn /\ t.initial_rto = u.initial_rto
      /\ t.receiver_window_size = u.receiver_window_size
      /\ t.consecutive_retransmissions = u.consecutive_retransmissions
      /\ Len(t.segments_out) = Len(u.segments_out) + Len(segs)
  BY <1>3, <1>5, <1>6, <1>7, SendSegments, Zenon
<1> HIDE DEF t, size
<1>9. Sends(s, t, size)
  BY <1>4, <1>8, Zenon DEF Sends
<1>10. Counted(t)
  <2>1. t.next_seqno = s.next_seqno + size /\ t.syn_sent = TRUE /\ t.fin_sent = fin /\ t.stream = o
    BY <1>4, <1>8, Zenon
  <2>2. bit(TRUE) = 1
    BY DEF bit
  <2>3. t.next_seqno = bit(t.syn_sent) + t.stream.nread + bit(t.fin_sent)
    BY <1>1, <2>1, <2>2, Zenon
  <2> QED BY <1>1, <2>1, <2>3, Zenon DEF Counted
<1>11. Core(t, str, B)
  BY <1>4, <1>8, <1>10, <1>1, Zenon DEF Core
<1> QED BY <1>4, <1>8, <1>9, <1>11, Zenon DEF After, t, size

\* A single piece at the next number is a train.
LEMMA SingleTrain ==
  ASSUME NEW B, NEW str, NEW a \in Nat, NEW isn, NEW seg \in Segments(B), Fresh(seg, a, isn, str),
         length_in_sequence_space(seg) = 1
  PROVE  Train(<<seg>>, a, isn, str)
<1>1. sizes(<<seg>>)[0] = 0 /\ Len(<<seg>>) = 1 /\ <<seg>>[1] = seg
  BY SizesSingle
<1>2. length_in_sequence_space(seg) \in 1 .. WIN_MOD /\ Len(seg.payload) <= MAX_PAYLOAD_SIZE
  <2>1. Len(seg.payload) \in Nat /\ length_in_sequence_space(seg) >= Len(seg.payload)
    BY LengthNat DEF Segments
  <2> QED BY <2>1, SenderAssumption
<1> DEFINE q == <<seg>>
<1> HIDE DEF q
<1>3. sizes(q)[0] = 0 /\ Len(q) = 1 /\ q[1] = seg
  BY <1>1, Zenon DEF q
<1>4. ASSUME NEW i \in 1 .. Len(q) PROVE q[i] = seg /\ a + sizes(q)[i - 1] = a
  <2>1. i = 1 /\ i - 1 = 0
    BY <1>3
  <2> QED BY <1>3, <2>1
<1>5. Train(q, a, isn, str)
  BY <1>2, <1>4, Zenon DEF Train
<1> QED BY <1>5, Zenon DEF q

\* A segment put together for its place in SYN, stream and FIN is the piece that belongs
\* there.
LEMMA NextPiece ==
  ASSUME NEW s, NEW offset, NEW syn, NEW fin, NEW payload, NEW str, NEW seg, NEW len, NEW a,
         seg = next_segment(s, offset, syn, fin, payload), a = s.next_seqno + offset,
         len = Len(payload) + bit(syn) + bit(fin), Spans(a, len, syn, fin, payload, str)
  PROVE  length_in_sequence_space(seg) = len /\ Fresh(seg, a, s.isn, str)
<1>1. /\ seg.seqno = wrap(a, s.isn) /\ seg.syn = syn /\ seg.fin = fin /\ seg.payload = payload
      /\ seg.ackno = 0 /\ ~seg.rst
  BY DEF next_segment, new_TCPSegment
<1>2. length_in_sequence_space(seg) = Len(payload) + bit(syn) + bit(fin)
  BY <1>1, Zenon DEF length_in_sequence_space
<1> QED BY <1>1, <1>2, Zenon DEF Fresh, Piece

\* Lines 30-38 of tcp_sender.cc: the first fill_window sends the SYN.
LEMMA SendSyn ==
  ASSUME NEW B, NEW str \in Seq(B), NEW s, Core(s, str, B), ~s.syn_sent
  PROVE  LET t == send_syn(s)
         IN /\ Core(t, str, B) /\ Sends(s, t, 1) /\ t.stream = s.stream /\ t.syn_sent = TRUE
            /\ t.fin_sent = FALSE /\ s.next_seqno = 0 /\ Len(t.segments_out) = Len(s.segments_out) + 1
<1> DEFINE yes == TRUE
           no == FALSE
           seg == next_segment(s, 0, yes, no, << >>)
           segs == <<seg>>
           t == send_syn(s)
<1>1. s \in Senders(B) /\ Outbound(s.stream, str) /\ Counted(s)
  BY DEF Core
<1>2. s.stream \in ByteStreams(B) /\ s.stream.nread \in Nat /\ s.next_seqno \in Nat /\ s.syn_sent \in BOOLEAN
      /\ s.fin_sent \in BOOLEAN
  BY <1>1 DEF Senders, ByteStreams
<1>3. s.next_seqno = 0 /\ s.stream.nread = 0 /\ s.fin_sent = FALSE
  <2>1. s.next_seqno = 0 /\ s.syn_sent = FALSE /\ s.next_seqno = bit(FALSE) + s.stream.nread + bit(s.fin_sent)
    BY <1>1, <1>2, Zenon DEF Counted
  <2>2. bit(FALSE) = 0 /\ bit(TRUE) = 1
    BY Zenon DEF bit
  <2>3. CASE s.fin_sent = TRUE
    <3>1. 0 = 0 + s.stream.nread + 1
      BY <2>1, <2>2, <2>3, Zenon
    <3> QED BY <1>2, <3>1
  <2>4. CASE s.fin_sent = FALSE
    <3>1. 0 = 0 + s.stream.nread + 0
      BY <2>1, <2>2, <2>4, Zenon
    <3> QED BY <1>2, <2>1, <2>4, <3>1
  <2> QED BY <1>2, <2>3, <2>4, Zenon
<1>4. bit(yes) = 1 /\ bit(no) = 0
  BY Zenon DEF bit, yes, no
<1>5. /\ seg \in Segments(B) /\ length_in_sequence_space(seg) = 1 /\ Fresh(seg, s.next_seqno, s.isn, str)
  <2> HIDE DEF yes, no
  <2>1. yes \in BOOLEAN /\ no \in BOOLEAN /\ yes /\ ~no
    BY DEF yes, no
  <2>2. /\ 0 \in Nat /\ << >> \in Seq(B) /\ s.next_seqno = s.next_seqno + 0 /\ s.next_seqno + 1 <= Len(str) + 2
        /\ s.next_seqno + 1 # Len(str) + 2 /\ 1 > 0 /\ 1 = Len(<< >>) + 1 + 0
    BY <1>3
  <2>3. 1 = Len(<< >>) + bit(yes) + bit(no)
    BY <1>4, <2>2, Zenon
  <2>4. Spans(s.next_seqno, 1, yes, no, << >>, str)
    <3>1. \A k \in 1 .. Len(<< >>) : << >>[k] = str[s.next_seqno + k - 1]
      OBVIOUS
    <3> QED BY <1>3, <2>1, <2>2, <3>1, Zenon DEF Spans
  <2>5. length_in_sequence_space(seg) = 1 /\ Fresh(seg, s.next_seqno, s.isn, str)
    BY <2>2, <2>3, <2>4, NextPiece, Zenon
  <2>6. seg \in Segments(B)
    BY <1>1, <2>1, <2>2, NextSegment, Zenon
  <2> QED BY <2>5, <2>6, Zenon
<1> HIDE DEF seg
<1>6. segs \in Seq(Segments(B)) /\ segs # << >> /\ Len(segs) = 1 /\ sizes(segs)[1] = 1
  BY <1>5, SizesSingle
<1>7. Train(segs, s.next_seqno, s.isn, str)
  BY <1>2, <1>5, SingleTrain
<1> HIDE DEF segs
<1> DEFINE u == [s EXCEPT !.syn_sent = TRUE]
<1>8. /\ u.stream = s.stream /\ u.fin_sent = FALSE
      /\ u = [s EXCEPT !.stream = u.stream, !.syn_sent = TRUE, !.fin_sent = u.fin_sent]
  BY <1>1, <1>3, Zenon DEF Senders
<1> HIDE DEF u
<1>9. Due(s, u, segs, str, B)
  <2>1. bit(u.fin_sent) = 0 /\ u.fin_sent \in BOOLEAN /\ ~u.fin_sent
    BY <1>8, Zenon DEF bit
  <2>2. s.next_seqno + sizes(segs)[Len(segs)] = 1 + u.stream.nread + bit(u.fin_sent)
    <3>1. s.next_seqno = 0 /\ u.stream.nread = 0 /\ sizes(segs)[Len(segs)] = 1 /\ 0 + 1 = 1 + 0 + 0
      BY <1>3, <1>6, <1>8
    <3> QED BY <2>1, <3>1, Zenon
  <2> QED BY <1>1, <1>2, <1>6, <1>7, <1>8, <2>1, <2>2, Zenon DEF Due
<1>10. After(s, u, segs, t, str, B)
  <2>1. t = _send_segments(u, segs, 1)
    BY Zenon DEF send_syn, segs, seg, yes, no, u
  <2>2. t = _send_segments(u, segs, sizes(segs)[Len(segs)])
    BY <1>6, <2>1, Zenon
  <2> HIDE DEF t
  <2>3. After(s, u, segs, _send_segments(u, segs, sizes(segs)[Len(segs)]), str, B)
    BY <1>9, Sent, Zenon
  <2> QED BY <2>2, <2>3, Zenon
<1> HIDE DEF t
<1> QED BY <1>3, <1>6, <1>8, <1>10, Zenon DEF t, After

\* There is something to send behind the SYN.
More(s) == s.syn_sent /\ ~s.fin_sent /\ (~buffer_empty(s.stream) \/ eof(s.stream))

\* What is read and what waits, while there is more to send.
LEMMA MoreState ==
  ASSUME NEW B, NEW str \in Seq(B), NEW s, Core(s, str, B), More(s)
  PROVE  /\ s \in Senders(B) /\ s.stream \in ByteStreams(B) /\ s.stream.nread \in Nat /\ s.next_seqno \in Nat
         /\ s.stream.buffer \in Seq(B) /\ Len(s.stream.buffer) \in Nat /\ Outbound(s.stream, str)
         /\ s.syn_sent = TRUE /\ s.fin_sent = FALSE /\ s.next_seqno = 1 + s.stream.nread
         /\ s.receiver_free_space \in 0 .. WIN_MOD - 1
         /\ s.stream.nread + Len(s.stream.buffer) <= Len(str)
         /\ s.stream.input_ended => s.stream.nread + Len(s.stream.buffer) = Len(str)
<1>1. s \in Senders(B) /\ Outbound(s.stream, str) /\ Counted(s)
  BY DEF Core
<1>2. /\ s.stream \in ByteStreams(B) /\ s.next_seqno \in Nat /\ s.syn_sent \in BOOLEAN /\ s.fin_sent \in BOOLEAN
      /\ s.receiver_free_space \in 0 .. WIN_MOD - 1
  BY <1>1 DEF Senders
<1>3. s.stream.nread \in Nat /\ s.stream.buffer \in Seq(B) /\ Len(s.stream.buffer) \in Nat
  BY <1>2 DEF ByteStreams
<1>4. s.syn_sent = TRUE /\ s.fin_sent = FALSE
  BY <1>2, Zenon DEF More
<1>5. s.next_seqno = 1 + s.stream.nread
  <2>1. bit(s.syn_sent) = 1 /\ bit(s.fin_sent) = 0
    BY <1>4, Zenon DEF bit
  <2>2. s.next_seqno = bit(s.syn_sent) + s.stream.nread + bit(s.fin_sent)
    BY <1>1, Zenon DEF Counted
  <2>3. s.next_seqno = 1 + s.stream.nread + 0
    BY <2>1, <2>2, Zenon
  <2> QED BY <1>3, <2>3
<1>6. /\ s.stream.nread + Len(s.stream.buffer) = s.stream.nwritten /\ s.stream.nwritten <= Len(str)
      /\ s.stream.input_ended => s.stream.nwritten = Len(str)
  BY <1>1, Zenon DEF Outbound
<1>7. /\ s.stream.nread + Len(s.stream.buffer) <= Len(str)
      /\ s.stream.input_ended => s.stream.nread + Len(s.stream.buffer) = Len(str)
  BY <1>6, Zenon
<1> QED BY <1>1, <1>2, <1>3, <1>4, <1>5, <1>7, Zenon

\* Lines 80-95 of tcp_sender.cc: against a closed window one byte, or the FIN, is sent.
LEMMA SendProbe ==
  ASSUME NEW B, NEW str \in Seq(B), NEW s, Core(s, str, B), More(s)
  PROVE  /\ Core(send_probe(s), str, B) /\ Sends(s, send_probe(s), 1) /\ send_probe(s).syn_sent = TRUE
<1> DEFINE o == s.stream
           fin == eof(o)
           n == bit(~fin)
           payload == peek_output(o, n)
           seg == next_segment(s, 0, FALSE, fin, payload)
           segs == <<seg>>
           u == [s EXCEPT !.stream = pop_output(@, n), !.fin_sent = fin]
           t == send_probe(s)
           a == s.next_seqno
<1>1. /\ s \in Senders(B) /\ o \in ByteStreams(B) /\ o.nread \in Nat /\ a \in Nat
      /\ o.buffer \in Seq(B) /\ Len(o.buffer) \in Nat /\ Outbound(o, str)
      /\ s.syn_sent = TRUE /\ s.fin_sent = FALSE /\ a = 1 + o.nread
      /\ o.nread + Len(o.buffer) <= Len(str) /\ (o.input_ended => o.nread + Len(o.buffer) = Len(str))
  BY MoreState, ZenonT(30)
<1>2. fin \in BOOLEAN
  BY Zenon DEF eof
<1>3. /\ n \in 0 .. Len(o.buffer) /\ (fin => n = 0 /\ a + 1 = Len(str) + 2)
      /\ (~fin => n = 1 /\ a + 1 < Len(str) + 2) /\ n + bit(fin) = 1
  <2>1. CASE fin
    <3>1. n = 0 /\ bit(fin) = 1 /\ Len(o.buffer) = 0 /\ o.input_ended
      BY <2>1, Zenon DEF bit, eof, buffer_empty, buffer_size
    <3> HIDE DEF n, fin
    <3>2. n \in 0 .. Len(o.buffer) /\ a + 1 = Len(str) + 2 /\ n + bit(fin) = 1
      BY <1>1, <3>1
    <3> QED BY <2>1, <3>1, <3>2, Zenon
  <2>2. CASE ~fin
    <3>1. n = 1 /\ bit(fin) = 0 /\ Len(o.buffer) # 0
      BY <2>2, Zenon DEF bit, More, buffer_empty, buffer_size
    <3> HIDE DEF n, fin
    <3>2. n \in 0 .. Len(o.buffer) /\ a + 1 < Len(str) + 2 /\ n + bit(fin) = 1
      BY <1>1, <3>1, SMTT(20)
    <3> QED BY <2>2, <3>1, <3>2, Zenon
  <2> QED BY <2>1, <2>2, Zenon
<1> HIDE DEF n
<1>4. /\ pop_output(o, n) \in ByteStreams(B) /\ Outbound(pop_output(o, n), str)
      /\ pop_output(o, n).nread = o.nread + n /\ pop_output(o, n).input_ended = o.input_ended
      /\ Len(pop_output(o, n).buffer) = Len(o.buffer) - n
  BY <1>1, <1>3, ReadOut, ZenonT(30)
<1>5. payload \in Seq(B) /\ Len(payload) = n /\ \A k \in 1 .. n : payload[k] = str[a + k - 1]
  <2>1. MinOf(buffer_size(o), n) = n
    BY <1>1, <1>3 DEF MinOf, buffer_size
  <2>2. payload = SubSeq(o.buffer, 1, n)
    BY <2>1 DEF peek_output
  <2>3. SubSeq(o.buffer, 1, n) \in Seq(B) /\ Len(SubSeq(o.buffer, 1, n)) = n
        /\ \A k \in 1 .. n : SubSeq(o.buffer, 1, n)[k] = o.buffer[k]
    BY <1>1, <1>3, SliceOf, SMTT(20)
  <2> HIDE DEF payload
  <2>4. ASSUME NEW k \in 1 .. n PROVE payload[k] = str[a + k - 1]
    <3>1. k \in 1 .. Len(o.buffer) /\ a + k - 1 = o.nread + k
      BY <1>1, <1>3
    <3>2. o.buffer[k] = str[o.nread + k]
      BY <3>1, <1>1, Zenon DEF Outbound
    <3> QED BY <2>2, <2>3, <3>1, <3>2, Zenon
  <2> QED BY <2>2, <2>3, <2>4, Zenon
<1> HIDE DEF payload
<1> DEFINE no == FALSE
<1>6. bit(no) = 0 /\ no \in BOOLEAN /\ ~no
  BY Zenon DEF bit
<1> HIDE DEF no, fin
<1>7. Spans(a, 1, no, fin, payload, str)
  <2>1. a + 1 <= Len(str) + 2 /\ a # 0 /\ 1 > 0 /\ (fin <=> a + 1 = Len(str) + 2)
    <3>1. a # 0 /\ Len(str) \in Nat /\ a \in Nat
      BY <1>1
    <3>2. CASE fin
      BY <1>3, <3>1, <3>2
    <3>3. CASE ~fin
      BY <1>3, <3>1, <3>3
    <3> QED BY <3>2, <3>3, Zenon
  <2> QED BY <1>5, <1>6, <2>1, Zenon DEF Spans
<1>8. seg = next_segment(s, 0, no, fin, payload)
  BY Zenon DEF no
<1>9. seg \in Segments(B)
  <2>1. 0 \in Nat
    OBVIOUS
  <2> QED BY <1>1, <1>2, <1>5, <1>6, <1>8, <2>1, NextSegment, Zenon DEF fin
<1> HIDE DEF seg
<1>10. length_in_sequence_space(seg) = 1 /\ Fresh(seg, a, s.isn, str)
  <2>1. a = s.next_seqno + 0
    BY <1>1
  <2>2. 1 = Len(payload) + bit(no) + bit(fin)
    <3>1. n \in Nat /\ n = n + 0
      BY <1>3
    <3>2. Len(payload) + bit(no) = n
      BY <1>5, <1>6, <3>1, Zenon
    <3> QED BY <1>3, <3>2, Zenon
  <2> HIDE DEF a
  <2> QED BY <1>7, <1>8, <2>1, <2>2, NextPiece, Zenon
<1>11. segs \in Seq(Segments(B)) /\ segs # << >> /\ Len(segs) = 1 /\ sizes(segs)[1] = 1
  BY <1>9, <1>10, SizesSingle
<1>12. Train(segs, a, s.isn, str)
  BY <1>1, <1>9, <1>10, SingleTrain
<1> HIDE DEF segs
<1>13. /\ u.stream = pop_output(o, n) /\ u.fin_sent = fin
       /\ u = [s EXCEPT !.stream = u.stream, !.syn_sent = TRUE, !.fin_sent = u.fin_sent]
  BY <1>1, <1>2, Zenon DEF Senders, fin
<1> HIDE DEF u
<1>14. Due(s, u, segs, str, B)
  <2>1. a + sizes(segs)[Len(segs)] = 1 + u.stream.nread + bit(u.fin_sent)
    <3>1. u.stream.nread + bit(u.fin_sent) = (o.nread + n) + bit(fin)
      BY <1>4, <1>13, Zenon
    <3>2. bit(fin) \in Nat
      BY DEF bit
    <3>3. u.stream.nread = o.nread + n /\ sizes(segs)[Len(segs)] = 1
      BY <1>4, <1>11, <1>13, Zenon
    <3> DEFINE c == bit(fin)
    <3>4. bit(u.fin_sent) = c /\ n + c = 1 /\ c \in Nat
      BY <1>3, <1>13, <3>2, Zenon
    <3> HIDE DEF c
    <3>5. a + 1 = 1 + (o.nread + n) + c
      BY <1>1, <1>3, <3>4
    <3> QED BY <3>3, <3>4, <3>5, Zenon
  <2>2. fin => eof(u.stream)
    <3>1. ASSUME fin PROVE u.stream.input_ended /\ Len(u.stream.buffer) = 0
      <4>1. o.input_ended /\ Len(o.buffer) = 0 /\ n = 0
        BY <1>3, <3>1, Zenon DEF eof, fin, buffer_empty, buffer_size
      <4>2. Len(u.stream.buffer) = Len(o.buffer) - n /\ u.stream.input_ended
        BY <1>4, <1>13, <4>1, Zenon
      <4> QED BY <4>1, <4>2
    <3> QED BY <3>1, Zenon DEF eof, buffer_empty, buffer_size
  <2> QED BY <1>1, <1>2, <1>4, <1>11, <1>12, <1>13, <2>1, <2>2, Zenon DEF Due, fin
<1>15. After(s, u, segs, t, str, B)
  <2>1. t = _send_segments(u, segs, 1)
    BY Zenon DEF send_probe, segs, seg, payload, n, fin, u
  <2>2. t = _send_segments(u, segs, sizes(segs)[Len(segs)])
    BY <1>11, <2>1, Zenon
  <2> HIDE DEF t
  <2>3. After(s, u, segs, _send_segments(u, segs, sizes(segs)[Len(segs)]), str, B)
    BY <1>14, Sent, Zenon
  <2> QED BY <2>2, <2>3, Zenon
<1> HIDE DEF t
<1> QED BY <1>11, <1>15, Zenon DEF t, After

\* How many chunks of at most M bytes fill_window cuts total bytes into.
LEMMA Chunks ==
  ASSUME NEW M \in Nat \ {0}, NEW total \in Nat, NEW c, c = MaxOf(1, (total + M - 1) \div M)
  PROVE  /\ c \in Nat /\ c >= 1 /\ total <= c * M
         /\ (c - 1) * M <= total /\ (total > 0 => (c - 1) * M < total)
<1> DEFINE q == (total + M - 1) \div M
           r == (total + M - 1) % M
<1>1. q \in Int /\ r \in 0 .. M - 1 /\ total + M - 1 = M * q + r
  BY SMTT(30)
<1> HIDE DEF r
<1>2. c = MaxOf(1, q)
  OBVIOUS
<1> HIDE DEF q
<1>3. q >= 0
  <2> SUFFICES ASSUME q <= -1 PROVE FALSE
    BY <1>1
  <2>1. M * q <= - M
    BY <1>1, SMTT(30)
  <2> QED BY <1>1, <2>1
<1>4. CASE total = 0
  <2>1. q = 0
    <3> SUFFICES ASSUME q >= 1 PROVE FALSE
      BY <1>1, <1>3
    <3>1. M * q >= M
      BY <1>1, SMTT(30)
    <3> QED BY <1>1, <1>4, <3>1
  <2>2. c = 1
    BY <1>2, <2>1 DEF MaxOf
  <2> QED BY <1>4, <2>2
<1>5. CASE total > 0
  <2>1. q >= 1
    <3> SUFFICES ASSUME q = 0 PROVE FALSE
      BY <1>1, <1>3
    <3>1. M * q = 0
      BY <1>1
    <3> QED BY <1>1, <1>5, <3>1
  <2>2. c = q
    BY <1>1, <1>2, <2>1 DEF MaxOf
  <2>3. M * q = c * M /\ (c - 1) * M = M * q - M /\ M * q \in Int
    BY <1>1, <2>2, SMTT(30)
  <2> QED BY <1>1, <1>5, <2>1, <2>2, <2>3
<1> QED BY <1>4, <1>5

\* Where a chunk starts and ends.
LEMMA ChunkEdges ==
  ASSUME NEW M \in Nat \ {0}, NEW total \in Nat, NEW c \in Nat, c >= 1, total <= c * M,
         (c - 1) * M <= total, total > 0 => (c - 1) * M < total, NEW i \in 1 .. c
  PROVE  /\ (i - 1) * M \in Nat /\ i * M \in Nat /\ (i - 1) * M <= total
         /\ i * M = (i - 1) * M + M
         /\ i < c => i * M <= total
<1>1. (i - 1) * M \in Nat /\ i * M \in Nat /\ i * M = (i - 1) * M + M
  BY SMTT(30)
<1>2. (i - 1) * M <= (c - 1) * M
  <2>1. (c - 1) * M - (i - 1) * M = (c - i) * M /\ (c - i) * M \in Nat
    BY SMTT(30)
  <2>2. (c - 1) * M \in Nat
    BY SMTT(30)
  <2> QED BY <1>1, <2>1, <2>2
<1>3. (c - 1) * M \in Nat
  BY SMTT(30)
<1>4. ASSUME i < c PROVE i * M <= (c - 1) * M
  <2>1. (c - 1) * M - i * M = (c - 1 - i) * M /\ (c - 1 - i) * M \in Nat
    BY <1>4, SMTT(30)
  <2> QED BY <1>1, <1>3, <2>1
<1> QED BY <1>1, <1>2, <1>3, <1>4

\* The loop of lines 51-75 of tcp_sender.cc sends consecutive pieces, at least one number
\* and no more than the free space.
LEMMA SendWindow ==
  ASSUME NEW B, NEW str \in Seq(B), NEW s, Core(s, str, B), More(s), s.receiver_free_space > 0
  PROVE  /\ Core(send_window(s), str, B) /\ send_window(s).syn_sent = TRUE
         /\ \E n \in 1 .. s.receiver_free_space : Sends(s, send_window(s), n)
<1> DEFINE o == s.stream
           buf == o.buffer
           free == s.receiver_free_space
           M == MAX_PAYLOAD_SIZE
           total == MinOf(buffer_size(o), free)
           c == MaxOf(1, (total + M - 1) \div M)
           p == pop_output(o, total)
           fin == eof(p) /\ free > total
           chunk(i) == SubSeq(buf, (i - 1) * M + 1, MinOf(i * M, total))
           last(i) == fin /\ i = c
           segs == [i \in 1 .. c |-> next_segment(s, (i - 1) * M, FALSE, last(i), chunk(i))]
           u == [s EXCEPT !.stream = p, !.fin_sent = fin]
           t == send_window(s)
           a == s.next_seqno
<1>1. /\ s \in Senders(B) /\ o \in ByteStreams(B) /\ o.nread \in Nat /\ a \in Nat
      /\ buf \in Seq(B) /\ Len(buf) \in Nat /\ Outbound(o, str)
      /\ s.syn_sent = TRUE /\ s.fin_sent = FALSE /\ a = 1 + o.nread /\ free \in 0 .. WIN_MOD - 1
      /\ o.nread + Len(buf) <= Len(str) /\ (o.input_ended => o.nread + Len(buf) = Len(str))
  BY MoreState, ZenonT(30)
<1>2. /\ o.nread \in Nat /\ a \in Nat /\ Len(buf) \in Nat /\ a = 1 + o.nread /\ free \in 0 .. WIN_MOD - 1
      /\ o.nread + Len(buf) <= Len(str) /\ free > 0
  BY <1>1, Zenon
<1>3. /\ total \in Nat /\ total <= Len(buf) /\ total <= free /\ total \in 0 .. Len(buf)
      /\ (total = 0 => Len(buf) = 0) /\ (total < free => total = Len(buf))
  BY <1>1 DEF MinOf, buffer_size
<1> HIDE DEF total
<1>4. M \in Nat \ {0} /\ Len(str) \in Nat /\ WIN_MOD \in Nat
  BY SenderAssumption
<1>5. c \in Nat /\ c >= 1 /\ total <= c * M /\ (c - 1) * M <= total /\ (total > 0 => (c - 1) * M < total)
  BY <1>3, <1>4, Chunks, Zenon
<1>6. /\ p \in ByteStreams(B) /\ Outbound(p, str)
      /\ p.nread = o.nread + total /\ p.input_ended = o.input_ended
      /\ Len(p.buffer) = Len(buf) - total
  BY <1>1, <1>3, ReadOut, ZenonT(30)
<1> DEFINE b == bit(fin)
<1>7. /\ fin \in BOOLEAN /\ b \in 0 .. 1 /\ (fin <=> b = 1) /\ total + b <= free /\ total + b >= 1
      /\ (fin => a + total + b = Len(str) + 2) /\ a + total <= Len(str) + 1
  <2>1. a + total <= Len(str) + 1
    <3> HIDE DEF a, o, buf, free
    <3>1. total <= Len(buf) /\ total \in Nat
      BY <1>3
    <3> QED BY <1>2, <1>4, <3>1
  <2>2. CASE fin
    <3>1. b = 1 /\ p.input_ended /\ Len(p.buffer) = 0 /\ free > total
      BY <2>2, Zenon DEF bit, eof, buffer_empty, buffer_size
    <3>2. o.input_ended /\ Len(buf) - total = 0
      BY <1>6, <3>1, Zenon
    <3> HIDE DEF fin, b
    <3>3. o.nread + Len(buf) = Len(str)
      BY <1>1, <3>2, Zenon
    <3> HIDE DEF a, o, buf, free
    <3>4. total + b <= free /\ total + b >= 1 /\ b \in 0 .. 1 /\ a + total + b = Len(str) + 2
      BY <1>2, <1>3, <1>4, <3>1, <3>2, <3>3, SMTT(20)
    <3>5. fin \in BOOLEAN
      BY Zenon DEF fin, eof
    <3> QED BY <2>1, <2>2, <3>1, <3>4, <3>5, Zenon
  <2>3. CASE ~fin
    <3>1. b = 0 /\ fin \in BOOLEAN
      BY <2>3, Zenon DEF bit, eof
    <3>2. total # 0
      <4> SUFFICES ASSUME total = 0 PROVE FALSE
        OBVIOUS
      <4>1. Len(buf) = 0
        BY <1>3
      <4>2. o.input_ended
        BY <4>1, Zenon DEF More, eof, buffer_empty, buffer_size
      <4>3. p.input_ended /\ Len(p.buffer) = Len(buf) - total
        BY <1>6, <4>2, Zenon
      <4>4. Len(p.buffer) = 0 /\ free > total
        BY <1>2, <4>1, <4>3
      <4>5. eof(p)
        BY <4>3, <4>4, Zenon DEF eof, buffer_empty, buffer_size
      <4> QED BY <2>3, <4>4, <4>5, Zenon
    <3> HIDE DEF fin, b
    <3>3. total + b <= free /\ total + b >= 1 /\ b \in 0 .. 1 /\ b # 1
      BY <1>2, <1>3, <1>4, <3>1, <3>2
    <3> QED BY <2>1, <2>3, <3>1, <3>3, Zenon
  <2> QED BY <2>2, <2>3, Zenon
<1> HIDE DEF fin, p, c, b
<1> DEFINE cut(i) == IF i = c THEN total ELSE i * M
           f == [i \in 0 .. c |-> IF i = c THEN total + b ELSE i * M]
           len(i) == IF i = c THEN total - (i - 1) * M + b ELSE M
<1>8. ASSUME NEW i \in 1 .. c
      PROVE  /\ (i - 1) * M \in Nat /\ (i - 1) * M <= total /\ MinOf(i * M, total) = cut(i) /\ cut(i) \in Nat
             /\ cut(i) <= total /\ cut(i) - (i - 1) * M \in 0 .. M
             /\ (i # c => cut(i) = (i - 1) * M + M /\ i * M \in Nat)
             /\ len(i) \in 1 .. WIN_MOD /\ f[i] = f[i - 1] + len(i) /\ f[i - 1] = (i - 1) * M
             /\ cut(i) - (i - 1) * M + (IF i = c THEN b ELSE 0) = len(i)
  <2> DEFINE x == (i - 1) * M
             y == i * M
  <2>1. x \in Nat /\ y \in Nat /\ x <= total /\ y = x + M /\ (i < c => y <= total)
    BY <1>3, <1>4, <1>5, ChunkEdges
  <2>2. i = c => y >= total
    BY <1>5
  <2>3. f[i - 1] = x
    BY <1>5
  <2>4. f[i] = IF i = c THEN total + b ELSE y
    BY <1>5
  <2>5. total = 0 /\ i = c => b = 1 /\ x = 0
    BY <1>3, <1>7, <2>1
  <2>6. i = c /\ total > 0 => x < total
    BY <1>5
  <2>7. b \in 0 .. 1 /\ total + b <= free /\ free \in 0 .. WIN_MOD - 1
    BY <1>7, <1>2, Zenon
  <2> HIDE DEF x, y, f
  <2>8. CASE i = c
    <3>1. cut(i) = total /\ len(i) = total - x + b /\ f[i] = total + b /\ (IF i = c THEN b ELSE 0) = b
      BY <2>4, <2>8, Zenon DEF x
    <3>2. MinOf(y, total) = total
      BY <1>3, <2>1, <2>2, <2>8 DEF MinOf
    <3>3. /\ total - x \in 0 .. M /\ total - x + b \in 1 .. WIN_MOD /\ total + b = x + (total - x + b)
      BY <1>3, <1>4, <2>1, <2>2, <2>5, <2>6, <2>7, <2>8
    <3> HIDE DEF cut, len
    <3> QED BY <1>3, <2>1, <2>3, <2>8, <3>1, <3>2, <3>3 DEF x, y
  <2>9. CASE i # c
    <3>1. cut(i) = y /\ len(i) = M /\ f[i] = y /\ (IF i = c THEN b ELSE 0) = 0
      BY <2>4, <2>9, Zenon DEF y
    <3>2. i < c
      BY <1>5, <2>9
    <3>3. MinOf(y, total) = y
      BY <1>3, <2>1, <3>2 DEF MinOf
    <3>4. M \in 1 .. WIN_MOD /\ y - x \in 0 .. M /\ y - x + 0 = M /\ y = x + M /\ y <= total
      BY <1>3, <1>4, <2>1, <2>7, <3>2
    <3> HIDE DEF cut, len
    <3> QED BY <1>3, <2>1, <2>3, <2>9, <3>1, <3>3, <3>4 DEF x, y
  <2> QED BY <2>8, <2>9
<1> HIDE DEF cut, f, len
<1> DEFINE no == FALSE
<1>9. bit(no) = 0 /\ no \in BOOLEAN /\ ~no
  BY Zenon DEF bit
<1> HIDE DEF no
<1>10. ASSUME NEW i \in 1 .. c
      PROVE  /\ last(i) \in BOOLEAN /\ bit(last(i)) = (IF i = c THEN b ELSE 0)
             /\ chunk(i) \in Seq(B) /\ Len(chunk(i)) = cut(i) - (i - 1) * M
             /\ \A k \in 1 .. Len(chunk(i)) : chunk(i)[k] = str[a + (i - 1) * M + k - 1]
  <2>1. last(i) \in BOOLEAN
    OBVIOUS
  <2>2. bit(last(i)) = (IF i = c THEN b ELSE 0)
    BY Zenon DEF bit, b
  <2> DEFINE x == (i - 1) * M
             y == cut(i)
             d == SubSeq(buf, x + 1, y)
  <2>3. x \in Nat /\ y \in Nat /\ y <= Len(buf) /\ y - x \in Nat /\ MinOf(i * M, total) = y
    BY <1>3, <1>8
  <2>4. chunk(i) = d
    BY <2>3, Zenon
  <2> HIDE DEF x, y
  <2>5. d \in Seq(B) /\ Len(d) = y - x /\ \A k \in 1 .. y - x : d[k] = buf[x + k]
    <3>1. x + 1 \in 1 .. Len(buf) + 1 /\ y \in x .. Len(buf)
      BY <1>2, <2>3
    <3>2. d \in Seq(B)
      BY <1>1, <2>3, <3>1, SliceOf, SMTT(20)
    <3>3. Len(d) = IF x + 1 <= y THEN y - (x + 1) + 1 ELSE 0
      BY <1>1, <2>3, <3>1, SliceOf
    <3>4. Len(d) = y - x
      BY <2>3, <3>3
    <3>5. \A k \in 1 .. y - (x + 1) + 1 : d[k] = buf[x + 1 + k - 1]
      BY <1>1, <2>3, <3>1, SliceOf
    <3>6. ASSUME NEW k \in 1 .. y - x PROVE d[k] = buf[x + k]
      <4> HIDE DEF d, buf
      <4>1. k \in 1 .. y - (x + 1) + 1 /\ x + 1 + k - 1 = x + k
        BY <2>3
      <4> QED BY <3>5, <4>1
    <3> QED BY <3>2, <3>4, <3>6
  <2> HIDE DEF d
  <2>6. ASSUME NEW k \in 1 .. Len(d) PROVE d[k] = str[a + x + k - 1]
    <3>1. x + k \in 1 .. Len(buf) /\ k \in 1 .. y - x /\ a + x + k - 1 = o.nread + (x + k)
      <4> HIDE DEF a, o, buf, free
      <4>1. a = 1 + o.nread /\ o.nread \in Nat /\ Len(buf) \in Nat
        BY <1>2
      <4>2. Len(d) = y - x
        BY <2>5
      <4>3. x \in Nat /\ y \in Nat /\ y <= Len(buf)
        BY <2>3, Zenon
      <4> HIDE DEF d
      <4> QED BY <4>1, <4>2, <4>3, SMTT(30)
    <3>2. d[k] = buf[x + k] /\ buf[x + k] = str[o.nread + (x + k)]
      BY <1>1, <2>5, <3>1, Zenon DEF Outbound
    <3> QED BY <3>1, <3>2, Zenon
  <2> QED BY <2>1, <2>2, <2>4, <2>5, <2>6, Zenon DEF x, y
<1>11. ASSUME NEW i \in 1 .. c
       PROVE  /\ segs[i] \in Segments(B) /\ length_in_sequence_space(segs[i]) = len(i)
              /\ Fresh(segs[i], a + (i - 1) * M, s.isn, str) /\ Len(segs[i].payload) <= M
  <2> DEFINE x == (i - 1) * M
             z == a + x
             seg == next_segment(s, x, no, last(i), chunk(i))
  <2>1. segs[i] = seg
    BY Zenon DEF no
  <2>2. /\ x \in Nat /\ cut(i) - x \in 0 .. M /\ cut(i) - x + (IF i = c THEN b ELSE 0) = len(i)
        /\ len(i) \in 1 .. WIN_MOD /\ cut(i) \in Nat /\ cut(i) <= total
    BY <1>8
  <2> HIDE DEF segs, x, last, chunk
  <2>3. len(i) = Len(chunk(i)) + bit(no) + bit(last(i))
    <3>1. Len(chunk(i)) = cut(i) - x
      BY <1>10, Zenon DEF x
    <3>2. bit(last(i)) = (IF i = c THEN b ELSE 0)
      BY <1>10, Zenon
    <3>3. cut(i) - x = cut(i) - x + 0
      BY <2>2
    <3> QED BY <1>9, <2>2, <3>1, <3>2, <3>3, Zenon
  <2>4. Spans(z, len(i), no, last(i), chunk(i), str)
    <3>1. z \in Nat /\ z # 0 /\ len(i) > 0
      <4> HIDE DEF a, o, buf, free
      <4>1. a \in Nat /\ a = 1 + o.nread /\ o.nread \in Nat
        BY <1>2
      <4>2. x \in Nat /\ len(i) \in 1 .. WIN_MOD /\ WIN_MOD \in Nat
        BY <1>4, <2>2, Zenon
      <4> HIDE DEF len
      <4> QED BY <4>1, <4>2
    <3>2. z + len(i) <= Len(str) + 2 /\ (last(i) <=> z + len(i) = Len(str) + 2)
      <4>1. b \in 0 .. 1 /\ a + total <= Len(str) + 1 /\ (b = 1 => a + total + b = Len(str) + 2)
        BY <1>7, Zenon
      <4>2. a \in Nat
        BY <1>2, Zenon
      <4> HIDE DEF a, o, buf
      <4>3. CASE i = c
        <5>1. cut(i) = total
          BY <4>3, Zenon DEF cut
        <5>2. cut(i) - x + b = len(i)
          BY <2>2, <4>3, Zenon
        <5>3. z + len(i) = a + total + b
          BY <1>3, <2>2, <4>1, <4>2, <5>1, <5>2
        <5>4. z + len(i) <= Len(str) + 2 /\ (b = 1 <=> z + len(i) = Len(str) + 2)
          BY <1>3, <1>4, <4>1, <4>2, <5>3
        <5>5. last(i) <=> b = 1
          BY <1>7, <4>3, Zenon DEF last
        <5> QED BY <5>4, <5>5, Zenon
      <4>4. CASE i # c
        <5>1. ~last(i)
          BY <4>4, Zenon DEF last
        <5>2. cut(i) - x + 0 = len(i)
          BY <2>2, <4>4, Zenon
        <5>3. z + len(i) <= a + total
          BY <1>3, <2>2, <4>2, <5>2
        <5>4. z + len(i) <= Len(str) + 2 /\ z + len(i) # Len(str) + 2
          BY <1>3, <1>4, <2>2, <4>1, <4>2, <5>3, SMTT(20)
        <5> QED BY <5>1, <5>4, Zenon
      <4> QED BY <4>3, <4>4, Zenon
    <3>3. \A k \in 1 .. Len(chunk(i)) : chunk(i)[k] = str[z + k - 1]
      BY <1>10, Zenon DEF x
    <3> HIDE DEF z
    <3> QED BY <1>9, <3>1, <3>2, <3>3, Zenon DEF Spans
  <2>5. length_in_sequence_space(seg) = len(i) /\ Fresh(seg, z, s.isn, str)
    BY <2>3, <2>4, NextPiece, Zenon
  <2>6. seg \in Segments(B)
    BY <1>1, <1>9, <1>10, <2>2, NextSegment, Zenon
  <2>7. Len(seg.payload) <= M
    <3>1. seg.payload = chunk(i)
      BY DEF next_segment, new_TCPSegment
    <3>2. Len(chunk(i)) = cut(i) - x
      BY <1>10, Zenon DEF x
    <3> HIDE DEF seg
    <3> QED BY <1>4, <2>2, <3>1, <3>2
  <2> HIDE DEF seg
  <2> QED BY <2>1, <2>5, <2>6, <2>7, Zenon DEF x
<1>12. segs \in Seq(Segments(B)) /\ Len(segs) = c /\ segs # << >>
  <2>1. \A i \in 1 .. c : segs[i] \in Segments(B)
    BY <1>11, Zenon
  <2>2. segs \in [1 .. c -> Segments(B)]
    BY <2>1, Zenon
  <2> HIDE DEF segs
  <2> QED BY <1>5, <2>2
<1>13. sizes(segs)[c] = total + b /\ \A i \in 1 .. c : sizes(segs)[i - 1] = (i - 1) * M
  <2>1. f[0] = 0
    BY <1>4, <1>5 DEF f
  <2> HIDE DEF segs
  <2>2. \A i \in 1 .. Len(segs) : f[i] = f[i - 1] + length_in_sequence_space(segs[i])
    BY <1>8, <1>11, <1>12, Zenon
  <2>3. \A i \in 0 .. Len(segs) : f[i] = sizes(segs)[i]
    BY <1>12, <2>1, <2>2, SizesAre, Zenon
  <2>4. c \in 0 .. Len(segs) /\ f[c] = total + b
    BY <1>5, <1>12 DEF f
  <2>5. ASSUME NEW i \in 1 .. c PROVE sizes(segs)[i - 1] = (i - 1) * M
    <3>1. i - 1 \in 0 .. Len(segs)
      BY <1>5, <1>12
    <3> QED BY <1>8, <2>3, <3>1
  <2> QED BY <2>3, <2>4, <2>5, Zenon
<1>14. Train(segs, a, s.isn, str)
  <2> HIDE DEF segs
  <2>1. ASSUME NEW i \in 1 .. c
        PROVE  /\ Fresh(segs[i], a + sizes(segs)[i - 1], s.isn, str)
               /\ length_in_sequence_space(segs[i]) \in 1 .. WIN_MOD /\ Len(segs[i].payload) <= M
    BY <1>8, <1>11, <1>13, Zenon
  <2> QED BY <1>12, <2>1, Zenon DEF Train
<1>15. /\ u.stream = p /\ u.fin_sent = fin
       /\ u = [s EXCEPT !.stream = u.stream, !.syn_sent = TRUE, !.fin_sent = u.fin_sent]
  BY <1>1, Zenon DEF Senders
<1> HIDE DEF u, segs
<1>16. Due(s, u, segs, str, B)
  <2>1. s.next_seqno + sizes(segs)[Len(segs)] = 1 + u.stream.nread + bit(u.fin_sent)
    <3>1. u.stream.nread = o.nread + total /\ bit(u.fin_sent) = b /\ sizes(segs)[Len(segs)] = total + b
      BY <1>6, <1>12, <1>13, <1>15, Zenon DEF b
    <3>2. a + (total + b) = 1 + (o.nread + total) + b
      <4>1. a = 1 + o.nread /\ o.nread \in Nat
        BY <1>2
      <4>2. b \in 0 .. 1
        BY <1>7
      <4> HIDE DEF a, o
      <4> QED BY <1>3, <4>1, <4>2, SMTT(20)
    <3> QED BY <3>1, <3>2, Zenon
  <2>2. fin => eof(u.stream)
    BY <1>15, Zenon DEF fin
  <2> QED BY <1>1, <1>6, <1>7, <1>12, <1>14, <1>15, <2>1, <2>2, Zenon DEF Due
<1>17. After(s, u, segs, t, str, B)
  <2>1. t = _send_segments(u, segs, total + b)
    BY Zenon DEF send_window, segs, u, c, fin, total, p, b
  <2>2. t = _send_segments(u, segs, sizes(segs)[Len(segs)])
    BY <1>12, <1>13, <2>1, Zenon
  <2> HIDE DEF t
  <2>3. After(s, u, segs, _send_segments(u, segs, sizes(segs)[Len(segs)]), str, B)
    BY <1>16, Sent, Zenon
  <2> QED BY <2>2, <2>3, Zenon
<1> HIDE DEF t
<1>18. Core(t, str, B) /\ t.syn_sent = TRUE /\ Sends(s, t, total + b)
  BY <1>12, <1>13, <1>17, Zenon DEF After
<1>19. total + b \in 1 .. free
  BY <1>3, <1>7, <1>2
<1> QED BY <1>18, <1>19, Zenon DEF t

\* What a call of fill_window may send: the SYN, nothing, at most the free space of an
\* open window, or one number against a closed one.
Filled(s, t) ==
  \/ ~s.syn_sent /\ Sends(s, t, 1)
  \/ s.syn_sent /\ t = s
  \/ s.syn_sent /\ s.receiver_window_size > 0 /\ \E n \in 1 .. s.receiver_free_space : Sends(s, t, n)
  \/ s.syn_sent /\ s.receiver_window_size = 0 /\ s.receiver_free_space = 0 /\ Sends(s, t, 1)

\* fill_window leaves nothing unsent that it could send.
LEMMA FillWindow ==
  ASSUME NEW B, NEW str \in Seq(B), NEW s, Core(s, str, B), Armed(s)
  PROVE  /\ SenderHolds(fill_window(s), str, B) /\ Filled(s, fill_window(s))
         /\ fill_window(s).syn_sent = TRUE
<1> DEFINE t == fill_window(s)
<1>1. /\ s \in Senders(B) /\ s.syn_sent \in BOOLEAN /\ s.fin_sent \in BOOLEAN
      /\ s.receiver_window_size \in 0 .. WIN_MOD - 1 /\ s.receiver_free_space \in 0 .. WIN_MOD - 1
  BY DEF Core, Senders
<1>2. /\ s.receiver_window_size > 0 \/ s.receiver_window_size = 0
      /\ s.receiver_free_space > 0 \/ s.receiver_free_space = 0
      /\ ~(s.receiver_window_size > 0 /\ s.receiver_window_size = 0)
      /\ ~(s.receiver_free_space > 0 /\ s.receiver_free_space = 0)
  <2>1. WIN_MOD \in Nat
    BY SenderAssumption
  <2> QED BY <1>1, <2>1
<1>3. ASSUME NEW x, Core(x, str, B), NEW n, Sends(s, x, n)
      PROVE  SenderHolds(x, str, B)
  BY <1>3, Zenon DEF SenderHolds, Sends, Armed, Busy
<1>4. CASE ~s.syn_sent
  <2>1. t = send_syn(s)
    BY <1>4 DEF fill_window
  <2>2. Core(send_syn(s), str, B) /\ Sends(s, send_syn(s), 1) /\ send_syn(s).syn_sent = TRUE
    BY <1>4, SendSyn, Zenon
  <2> QED BY <1>3, <1>4, <2>1, <2>2, Zenon DEF Filled
<1>5. CASE s.syn_sent /\ t = s /\ Busy(s)
  BY <1>1, <1>5, Zenon DEF SenderHolds, Filled
<1>6. CASE s.syn_sent /\ nothing_to_send(s)
  <2>1. t = s
    BY <1>6, Zenon DEF fill_window
  <2>2. s.fin_sent => eof(s.stream)
    BY Zenon DEF Core, Counted
  <2>3. Busy(s)
    BY <1>6, <2>2, Zenon DEF Busy, nothing_to_send, syn_outstanding, eof
  <2> QED BY <1>5, <1>6, <2>1, <2>3, Zenon
<1>7. CASE s.syn_sent /\ ~nothing_to_send(s)
  <2>1. More(s)
    BY <1>7, Zenon DEF More, nothing_to_send
  <2>2. CASE s.receiver_window_size > 0
    <3>1. t = IF s.receiver_free_space > 0 THEN send_window(s) ELSE s
      BY <1>2, <1>7, <2>2, Zenon DEF fill_window
    <3>2. CASE s.receiver_free_space > 0
      <4>1. t = send_window(s)
        BY <3>1, <3>2, Zenon
      <4>2. /\ Core(send_window(s), str, B) /\ send_window(s).syn_sent = TRUE
            /\ \E n \in 1 .. s.receiver_free_space : Sends(s, send_window(s), n)
        BY <2>1, <3>2, SendWindow, Zenon
      <4> QED BY <1>3, <1>7, <2>2, <4>1, <4>2, Zenon DEF Filled
    <3>3. CASE s.receiver_free_space = 0
      <4>1. t = s
        BY <1>2, <3>1, <3>3, Zenon
      <4>2. s.segments_outstanding # << >>
        BY <1>2, <1>7, <2>2, <3>3, Zenon DEF Armed
      <4> QED BY <1>5, <1>7, <4>1, <4>2, Zenon DEF Busy
    <3> QED BY <1>2, <3>2, <3>3, Zenon
  <2>3. CASE s.receiver_window_size = 0
    <3>1. t = IF s.receiver_free_space = 0 THEN send_probe(s) ELSE s
      BY <1>2, <1>7, <2>3, Zenon DEF fill_window
    <3>2. CASE s.receiver_free_space = 0
      <4>1. t = send_probe(s)
        BY <3>1, <3>2, Zenon
      <4>2. Core(send_probe(s), str, B) /\ Sends(s, send_probe(s), 1) /\ send_probe(s).syn_sent = TRUE
        BY <2>1, SendProbe, Zenon
      <4> QED BY <1>3, <1>7, <2>3, <3>2, <4>1, <4>2, Zenon DEF Filled
    <3>3. CASE s.receiver_free_space > 0
      <4>1. t = s
        BY <1>2, <3>1, <3>3, Zenon
      <4>2. s.segments_outstanding # << >>
        BY <1>2, <1>7, <2>3, <3>3, Zenon DEF Armed
      <4> QED BY <1>5, <1>7, <4>1, <4>2, Zenon DEF Busy
    <3> QED BY <1>2, <3>2, <3>3, Zenon
  <2> QED BY <1>2, <2>2, <2>3, Zenon
<1> QED BY <1>4, <1>6, <1>7, Zenon

\* t is s without the first n outstanding segments, and its timer starts again when there
\* are any.
Popped(s, t, n) ==
  LET out == s.segments_outstanding
  IN /\ n \in 0 .. Len(out) /\ t.segments_outstanding = SubSeq(out, n + 1, Len(out))
     /\ t.bytes_in_flight = s.bytes_in_flight - sizes(out)[n]
     /\ t.next_seqno = s.next_seqno /\ t.isn = s.isn /\ t.initial_rto = s.initial_rto
     /\ t.stream = s.stream /\ t.syn_sent = s.syn_sent /\ t.fin_sent = s.fin_sent
     /\ t.receiver_window_size = s.receiver_window_size
     /\ t.receiver_free_space = s.receiver_free_space /\ t.timer_running = s.timer_running
     /\ t.segments_out = s.segments_out

\* The count of leading segments that an acknowledgment covers.
covered(s, abs_ackno) ==
  LET out == s.segments_outstanding
  IN Min({k \in 0 .. Len(out) : k = Len(out) \/ abs_end(s, out[k + 1]) > abs_ackno})

\* That count exists, and it is the first at which the scan of ack_received stops.
LEMMA CoveredLeast ==
  ASSUME NEW B, NEW s \in Senders(B), NEW abs_ackno
  PROVE  LET out == s.segments_outstanding
             n == covered(s, abs_ackno)
         IN /\ n \in 0 .. Len(out)
            /\ n = Len(out) \/ abs_end(s, out[n + 1]) > abs_ackno
            /\ \A k \in 0 .. n - 1 : ~(abs_end(s, out[k + 1]) > abs_ackno)
<1> DEFINE out == s.segments_outstanding
           n == covered(s, abs_ackno)
           K == {k \in 0 .. Len(out) : k = Len(out) \/ abs_end(s, out[k + 1]) > abs_ackno}
<1>1. Len(out) \in Nat
  BY DEF Senders
<1>2. K \in SUBSET Nat /\ Len(out) \in K
  BY <1>1
<1>3. n = Min(K)
  BY Zenon DEF covered
<1>4. n \in K /\ \A y \in K : n <= y
  BY <1>2, <1>3, LeastNat, Zenon
<1> HIDE DEF n
<1>5. n \in 0 .. Len(out) /\ (n = Len(out) \/ abs_end(s, out[n + 1]) > abs_ackno)
  BY <1>4, Zenon
<1>6. ASSUME NEW k \in 0 .. n - 1, abs_end(s, out[k + 1]) > abs_ackno PROVE FALSE
  <2>1. k \in 0 .. Len(out) /\ ~(n <= k)
    BY <1>1, <1>5
  <2> QED BY <1>4, <1>6, <2>1, Zenon
<1> QED BY <1>5, <1>6, Zenon DEF n

\* The loop of ack_received pops a prefix of the queue, and what is left is still tiled.
LEMMA PopAcked ==
  ASSUME NEW B, NEW str \in Seq(B), NEW s, Core(s, str, B), NEW abs_ackno
  PROVE  /\ Core(pop_acked(s, abs_ackno), str, B)
         /\ Popped(s, pop_acked(s, abs_ackno), covered(s, abs_ackno))
<1> DEFINE out == s.segments_outstanding
           n == covered(s, abs_ackno)
           size == sizes(out)[n]
           r == SubSeq(out, n + 1, Len(out))
           x == [s EXCEPT !.bytes_in_flight = @ - size, !.segments_outstanding = r,
                          !.time_elapsed = 0, !.rto = s.initial_rto, !.consecutive_retransmissions = 0]
           t == pop_acked(s, abs_ackno)
<1>1. s \in Senders(B) /\ Tiled(s, str) /\ Timed(s) /\ Queued(s, str) /\ Counted(s) /\ Outbound(s.stream, str)
  BY DEF Core
<1>2. out \in Seq(Segments(B)) /\ s.next_seqno \in Nat /\ s.bytes_in_flight \in Nat /\ s.initial_rto \in Nat \ {0}
  BY <1>1 DEF Senders
<1>3. n \in 0 .. Len(out)
  BY <1>1, CoveredLeast, Zenon
<1>4. t = IF n = 0 THEN s ELSE x
  BY Zenon DEF pop_acked, covered
<1> HIDE DEF n, out
<1>5. sizes(out) \in [0 .. Len(out) -> Nat] /\ Len(out) \in Nat /\ sizes(out)[0] = 0
  BY <1>2, Sizes
<1>6. /\ size \in Nat /\ size <= s.bytes_in_flight /\ s.bytes_in_flight = sizes(out)[Len(out)]
      /\ s.bytes_in_flight <= s.next_seqno
  <2>1. Len(out) \in 0 .. Len(out) /\ n <= Len(out)
    BY <1>3, <1>5
  <2>2. sizes(out)[n] <= sizes(out)[Len(out)]
    BY <1>2, <1>3, <2>1, SizesGrow
  <2>3. s.bytes_in_flight = sizes(out)[Len(out)] /\ s.bytes_in_flight <= s.next_seqno
    BY <1>1, Zenon DEF Tiled, out
  <2> QED BY <1>3, <1>5, <2>2, <2>3
<1>7. CASE n = 0
  <2>1. r = out
    BY <1>2, <1>7
  <2>2. s.bytes_in_flight = s.bytes_in_flight - size
    BY <1>2, <1>5, <1>7
  <2>3. t = s
    BY <1>4, <1>7, Zenon
  <2> HIDE DEF t, r, size
  <2>4. Popped(s, t, n)
    BY <1>3, <2>1, <2>2, <2>3, Zenon DEF Popped, r, size, out
  <2> QED BY <2>3, <2>4, Zenon DEF t, n
<1>8. CASE n # 0
  <2>1. /\ r \in Seq(Segments(B)) /\ Len(r) = Len(out) - n
        /\ sizes(r)[Len(r)] = s.bytes_in_flight - size
    <3>1. /\ r \in Seq(Segments(B)) /\ Len(r) = Len(out) - n
          /\ \A j \in 0 .. Len(r) : sizes(r)[j] = sizes(out)[n + j] - sizes(out)[n]
      BY <1>2, <1>3, SizesDrop
    <3>2. Len(r) \in 0 .. Len(r) /\ n + Len(r) = Len(out)
      BY <1>3, <1>5, <3>1
    <3> HIDE DEF r
    <3> QED BY <1>6, <3>1, <3>2
  <2> HIDE DEF r, size
  <2>2. x \in Senders(B)
    <3>1. s.bytes_in_flight - size \in Nat /\ 0 \in Nat /\ s.initial_rto \in Nat
      BY <1>2, <1>6
    <3> QED BY <1>1, <2>1, <3>1, Zenon DEF Senders
  <2>3. /\ x.segments_outstanding = r /\ x.bytes_in_flight = s.bytes_in_flight - size
        /\ x.next_seqno = s.next_seqno /\ x.isn = s.isn /\ x.initial_rto = s.initial_rto
        /\ x.stream = s.stream /\ x.syn_sent = s.syn_sent /\ x.fin_sent = s.fin_sent
        /\ x.receiver_window_size = s.receiver_window_size
        /\ x.receiver_free_space = s.receiver_free_space /\ x.timer_running = s.timer_running
        /\ x.segments_out = s.segments_out
        /\ x.time_elapsed = 0 /\ x.rto = s.initial_rto /\ x.consecutive_retransmissions = 0
    BY <1>1 DEF Senders
  <2> HIDE DEF x
  <2>4. Timed(x)
    <3>1. \A f \in Doubling(x.initial_rto) : x.rto = f[x.consecutive_retransmissions]
      BY <2>3, Zenon DEF Doubling
    <3>2. 0 < s.initial_rto
      BY <1>2
    <3> QED BY <2>3, <3>1, <3>2, Zenon DEF Timed
  <2>5. Tiled(x, str)
    <3>1. oldest(x) = oldest(s) + size /\ oldest(s) \in Nat /\ x.bytes_in_flight <= x.next_seqno
      <4>1. oldest(x) = s.next_seqno - (s.bytes_in_flight - size) /\ oldest(s) = s.next_seqno - s.bytes_in_flight
            /\ x.bytes_in_flight = s.bytes_in_flight - size /\ x.next_seqno = s.next_seqno
        BY <2>3, Zenon DEF oldest
      <4> QED BY <1>2, <1>6, <4>1
    <3>2. Train(out, oldest(s), s.isn, str)
      BY <1>1, Zenon DEF Tiled, out
    <3>3. Train(r, oldest(s) + size, s.isn, str)
      BY <1>2, <1>3, <3>1, <3>2, TrainDrop, Zenon DEF r, size
    <3> QED BY <2>1, <2>3, <3>1, <3>3, Zenon DEF Tiled
  <2>6. Counted(x) /\ Queued(x, str)
    BY <1>1, <2>3, Zenon DEF Counted, Queued
  <2>7. Core(x, str, B)
    BY <1>1, <2>2, <2>3, <2>4, <2>5, <2>6, Zenon DEF Core
  <2>8. Popped(s, x, n)
    BY <1>3, <2>3, Zenon DEF Popped, r, size, out
  <2>9. t = x
    BY <1>4, <1>8, Zenon
  <2> HIDE DEF t
  <2> QED BY <2>7, <2>8, <2>9, Zenon DEF t, n
<1> QED BY <1>7, <1>8

\* The absolute number of a sequence number is one of those numbers.
LEMMA UnwrapNat ==
  ASSUME NEW n \in WrappingInt32, NEW isn \in WrappingInt32, NEW checkpoint \in Nat
  PROVE  unwrap(n, isn, checkpoint) \in Nat
BY UnwrapClosest, Zenon DEF ClosestUnwrap

\* Nothing is in flight exactly when nothing is outstanding, and what is outstanding lies
\* between oldest(s) and next_seqno.
LEMMA InFlight ==
  ASSUME NEW B, NEW str, NEW s, Core(s, str, B)
  PROVE  /\ s.bytes_in_flight \in Nat /\ s.next_seqno \in Nat /\ oldest(s) \in Nat
         /\ oldest(s) + s.bytes_in_flight = s.next_seqno
         /\ s.bytes_in_flight = 0 <=> s.segments_outstanding = << >>
<1> DEFINE out == s.segments_outstanding
<1>1. s.bytes_in_flight \in Nat /\ s.next_seqno \in Nat /\ out \in Seq(Segments(B))
  BY DEF Core, Senders
<1>2. /\ s.bytes_in_flight = sizes(out)[Len(out)] /\ s.bytes_in_flight <= s.next_seqno
      /\ Train(out, oldest(s), s.isn, str) /\ oldest(s) = s.next_seqno - s.bytes_in_flight
  BY Zenon DEF Core, Tiled, oldest
<1> HIDE DEF out
<1>3. \A i \in 1 .. Len(out) : length_in_sequence_space(out[i]) > 0
  <2>1. \A i \in 1 .. Len(out) : length_in_sequence_space(out[i]) \in 1 .. WIN_MOD
    BY <1>2, Zenon DEF Train
  <2> QED BY <2>1, SenderAssumption
<1>4. sizes(out)[Len(out)] = 0 <=> out = << >>
  BY <1>1, <1>3, SizesPositive
<1>5. oldest(s) \in Nat /\ oldest(s) + s.bytes_in_flight = s.next_seqno
  BY <1>1, <1>2
<1> QED BY <1>1, <1>2, <1>4, <1>5, Zenon DEF out

\* While no more is in flight than half of the sequence numbers, the absolute numbers the
\* sender computes for its outstanding segments are where they lie.
LEMMA Places ==
  ASSUME NEW B, NEW str, NEW s, Core(s, str, B), s.bytes_in_flight <= HalfSeq,
         NEW i \in 1 .. Len(s.segments_outstanding)
  PROVE  LET out == s.segments_outstanding
         IN /\ sizes(out)[i - 1] \in Nat /\ sizes(out)[i] \in Nat
            /\ abs_start(s, out[i]) = oldest(s) + sizes(out)[i - 1]
            /\ abs_end(s, out[i]) = oldest(s) + sizes(out)[i]
<1> DEFINE out == s.segments_outstanding
           a == oldest(s) + sizes(out)[i - 1]
<1>1. s.isn \in WrappingInt32 /\ out \in Seq(Segments(B))
  BY DEF Core, Senders
<1>2. /\ s.bytes_in_flight \in Nat /\ s.next_seqno \in Nat /\ oldest(s) \in Nat
      /\ oldest(s) + s.bytes_in_flight = s.next_seqno
  BY InFlight, Zenon
<1>3. s.bytes_in_flight = sizes(out)[Len(out)] /\ Fresh(out[i], a, s.isn, str)
  BY Zenon DEF Core, Tiled, Train
<1> HIDE DEF out
<1>4. i \in 1 .. Len(out) /\ Len(out) \in Nat
  BY <1>1 DEF out
<1>5. /\ i \in 0 .. Len(out) /\ i - 1 \in 0 .. Len(out) /\ Len(out) \in 0 .. Len(out)
      /\ i - 1 <= Len(out)
  BY <1>4
<1>6. /\ sizes(out) \in [0 .. Len(out) -> Nat] /\ sizes(out)[i] = sizes(out)[i - 1] + length_in_sequence_space(out[i])
  BY <1>1, <1>4, Sizes
<1>7. sizes(out)[i - 1] \in Nat /\ sizes(out)[i] \in Nat /\ sizes(out)[Len(out)] \in Nat
  BY <1>5, <1>6
<1>8. sizes(out)[i - 1] <= sizes(out)[Len(out)]
  BY <1>1, <1>5, SizesGrow
<1>9. a \in Nat /\ a < s.next_seqno + HalfSeq /\ s.next_seqno <= a + HalfSeq
  <2>1. HalfSeq \in Nat /\ HalfSeq > 0
    BY SeqModAssumption, SMT DEF HalfSeq
  <2>2. s.bytes_in_flight = sizes(out)[Len(out)] /\ s.bytes_in_flight <= HalfSeq
    BY <1>3, Zenon
  <2>3. sizes(out)[i - 1] <= s.bytes_in_flight
    BY <1>8, <2>2, Zenon
  <2> DEFINE z == sizes(out)[i - 1]
             f == s.bytes_in_flight
             e == s.next_seqno
             h == oldest(s)
  <2>4. z \in Nat /\ f \in Nat /\ e \in Nat /\ h \in Nat /\ h + f = e /\ z <= f /\ f <= HalfSeq
    BY <1>2, <1>7, <2>2, <2>3, Zenon
  <2> HIDE DEF z, f, e, h
  <2>5. h + z \in Nat /\ h + z < e + HalfSeq /\ e <= h + z + HalfSeq
    BY <2>1, <2>4
  <2> QED BY <2>5 DEF z, e, h
<1>10. unwrap(wrap(a, s.isn), s.isn, s.next_seqno) = a
  BY <1>1, <1>2, <1>9, UnwrapWrap
<1>11. abs_start(s, out[i]) = a
  BY <1>3, <1>10, Zenon DEF Fresh, Piece, abs_start
<1>12. abs_end(s, out[i]) = oldest(s) + sizes(out)[i]
  <2>1. abs_end(s, out[i]) = a + length_in_sequence_space(out[i])
    BY <1>11, Zenon DEF abs_end
  <2>2. out[i] \in Segments(B)
    BY <1>1, <1>4
  <2>3. length_in_sequence_space(out[i]) \in Nat
    BY <2>2, LengthNat
  <2> QED BY <1>2, <1>6, <1>7, <2>1, <2>3
<1> QED BY <1>7, <1>11, <1>12, Zenon DEF out

\* An acknowledgment of what was sent makes the sender forget no more than it acknowledges.
LEMMA PopKeeps ==
  ASSUME NEW B, NEW str \in Seq(B), NEW s, Core(s, str, B), s.bytes_in_flight <= HalfSeq,
         NEW x \in Nat, oldest(s) <= x
  PROVE  LET t == pop_acked(s, x)
         IN /\ oldest(s) <= oldest(t) /\ oldest(t) <= x /\ t.bytes_in_flight <= s.bytes_in_flight
            /\ t.segments_outstanding # << >> => abs_start(t, Head(t.segments_outstanding)) = oldest(t)
<1> DEFINE t == pop_acked(s, x)
           n == covered(s, x)
           out == s.segments_outstanding
<1>1. Core(t, str, B) /\ Popped(s, t, n)
  BY PopAcked, Zenon
<1>2. s \in Senders(B) /\ out \in Seq(Segments(B))
  BY DEF Core, Senders
<1>3. n \in 0 .. Len(out) /\ \A k \in 0 .. n - 1 : ~(abs_end(s, out[k + 1]) > x)
  BY <1>2, CoveredLeast, Zenon
<1> HIDE DEF t, n
<1>4. /\ s.bytes_in_flight \in Nat /\ s.next_seqno \in Nat /\ oldest(s) \in Nat
      /\ oldest(s) + s.bytes_in_flight = s.next_seqno
  BY InFlight, Zenon
<1>5. /\ t.bytes_in_flight \in Nat /\ t.next_seqno \in Nat /\ oldest(t) \in Nat
      /\ oldest(t) + t.bytes_in_flight = t.next_seqno
  BY <1>1, InFlight, Zenon
<1>6. t.bytes_in_flight = s.bytes_in_flight - sizes(out)[n] /\ t.next_seqno = s.next_seqno
  BY <1>1, Zenon DEF Popped
<1>7. sizes(out)[n] \in Nat /\ sizes(out)[0] = 0
  <2>1. sizes(out) \in [0 .. Len(out) -> Nat] /\ sizes(out)[0] = 0
    BY <1>2, Sizes, Zenon
  <2> HIDE DEF out
  <2> QED BY <1>3, <2>1
<1>8. oldest(t) = oldest(s) + sizes(out)[n] /\ t.bytes_in_flight <= s.bytes_in_flight
  BY <1>4, <1>5, <1>6, <1>7, SMTT(20)
<1>9. oldest(t) <= x
  <2>1. CASE n = 0
    BY <1>4, <1>7, <1>8, <2>1
  <2>2. CASE n # 0
    <3>1. n \in 1 .. Len(out) /\ n - 1 \in 0 .. n - 1 /\ (n - 1) + 1 = n
      BY <1>2, <1>3, <2>2
    <3>2. ~(abs_end(s, out[n]) > x)
      <4>1. ~(abs_end(s, out[(n - 1) + 1]) > x)
        BY <1>3, <3>1, Zenon
      <4> QED BY <3>1, <4>1, Zenon
    <3>3. abs_end(s, out[n]) = oldest(s) + sizes(out)[n]
      BY <3>1, Places
    <3> HIDE DEF out
    <3> QED BY <1>4, <1>7, <1>8, <3>2, <3>3
  <2> QED BY <2>1, <2>2
<1>10. ASSUME t.segments_outstanding # << >>
       PROVE  abs_start(t, Head(t.segments_outstanding)) = oldest(t)
  <2> DEFINE r == t.segments_outstanding
  <2>1. r \in Seq(Segments(B)) /\ t.bytes_in_flight <= HalfSeq
    <3>1. HalfSeq \in Nat
      BY SeqModAssumption, SMT DEF HalfSeq
    <3>2. r \in Seq(Segments(B))
      BY <1>1 DEF Core, Senders
    <3> QED BY <1>4, <1>5, <1>8, <3>1, <3>2
  <2>2. 1 \in 1 .. Len(r) /\ Head(r) = r[1] /\ 1 - 1 = 0
    BY <1>10, <2>1
  <2>3. abs_start(t, r[1]) = oldest(t) + sizes(r)[1 - 1]
    BY <1>1, <2>1, <2>2, Places
  <2>4. sizes(r)[0] = 0
    BY <2>1, Sizes, Zenon
  <2> HIDE DEF r
  <2>5. abs_start(t, r[1]) = oldest(t) + 0
    BY <2>2, <2>3, <2>4, Zenon
  <2>6. abs_start(t, r[1]) = oldest(t)
    BY <1>5, <2>5
  <2> QED BY <2>2, <2>6, Zenon DEF r
<1>11. oldest(s) <= oldest(t)
  BY <1>4, <1>7, <1>8
<1> QED BY <1>8, <1>9, <1>10, <1>11, Zenon DEF t

\* Lines 110-113 and 145-160 of tcp_sender.cc: the timer stops when nothing is left, and
\* then the free space is the whole window.
LEMMA UpdateWindow ==
  ASSUME NEW B, NEW str \in Seq(B), NEW s, Core(s, str, B), NEW x \in Nat, NEW w \in 0 .. WIN_MOD - 1,
         s.segments_outstanding # << >> => s.timer_running
  PROVE  LET t == update_window(s, x, w)
         IN /\ Core(t, str, B) /\ Armed(t) /\ oldest(t) = oldest(s)
            /\ t.next_seqno = s.next_seqno /\ t.bytes_in_flight = s.bytes_in_flight
            /\ t.segments_outstanding = s.segments_outstanding
            /\ t.isn = s.isn /\ t.initial_rto = s.initial_rto /\ t.syn_sent = s.syn_sent
            /\ t.receiver_window_size = w
            /\ t.receiver_free_space =
                 IF s.segments_outstanding = << >> THEN w
                 ELSE (x + w - abs_start(s, Head(s.segments_outstanding)) - s.bytes_in_flight) % WIN_MOD
<1> DEFINE out == s.segments_outstanding
           free == IF out = << >> THEN w
                   ELSE (x + w - abs_start(s, Head(out)) - s.bytes_in_flight) % WIN_MOD
           run == s.timer_running /\ s.bytes_in_flight # 0
           t == [s EXCEPT !.receiver_window_size = w, !.receiver_free_space = free, !.timer_running = run]
<1>1. s \in Senders(B) /\ Tiled(s, str) /\ Timed(s) /\ Queued(s, str) /\ Counted(s) /\ Outbound(s.stream, str)
  BY DEF Core
<1>2. /\ out \in Seq(Segments(B)) /\ s.next_seqno \in Nat /\ s.bytes_in_flight \in Nat
      /\ s.isn \in WrappingInt32 /\ s.timer_running \in BOOLEAN
  BY <1>1 DEF Senders
<1>3. WIN_MOD \in Nat \ {0} /\ w \in Nat
  BY SenderAssumption
<1>4. free \in 0 .. WIN_MOD - 1
  <2>1. CASE out = << >>
    <3>1. free = w
      BY <2>1, Zenon
    <3> QED BY <3>1
  <2>2. CASE out # << >>
    <3> DEFINE a == abs_start(s, Head(out))
    <3>1. Head(out) \in Segments(B)
      BY <1>2, <2>2
    <3>2. Head(out).seqno \in WrappingInt32
      BY <3>1 DEF Segments
    <3>3. a \in Nat
      BY <1>2, <3>2, UnwrapNat, Zenon DEF abs_start
    <3>4. free = (x + w - a - s.bytes_in_flight) % WIN_MOD
      BY <2>2, Zenon
    <3> HIDE DEF a, free
    <3> DEFINE v == x + w - a - s.bytes_in_flight
    <3>5. v \in Int
      BY <1>2, <1>3, <3>3
    <3> HIDE DEF v
    <3>6. v % WIN_MOD \in 0 .. WIN_MOD - 1
      BY <1>3, <3>5
    <3> QED BY <3>4, <3>6, Zenon DEF v
  <2> QED BY <2>1, <2>2
<1>5. t = update_window(s, x, w)
  BY Zenon DEF update_window
<1> HIDE DEF free
<1>6. run \in BOOLEAN /\ (run <=> out # << >>)
  <2>1. s.bytes_in_flight = 0 <=> out = << >>
    BY InFlight, Zenon
  <2> QED BY <2>1, Zenon
<1> HIDE DEF run
<1>7. t \in Senders(B)
  BY <1>1, <1>4, <1>6, Zenon DEF Senders
<1>8. /\ t.segments_outstanding = out /\ t.segments_out = s.segments_out
      /\ t.next_seqno = s.next_seqno /\ t.bytes_in_flight = s.bytes_in_flight /\ t.isn = s.isn
      /\ t.initial_rto = s.initial_rto /\ t.rto = s.rto /\ t.time_elapsed = s.time_elapsed
      /\ t.consecutive_retransmissions = s.consecutive_retransmissions
      /\ t.stream = s.stream /\ t.syn_sent = s.syn_sent /\ t.fin_sent = s.fin_sent
      /\ t.receiver_window_size = w /\ t.receiver_free_space = free /\ t.timer_running = run
  BY <1>1 DEF Senders
<1> HIDE DEF t
<1>9. Tiled(t, str) /\ Timed(t) /\ Queued(t, str)
  BY <1>1, <1>8, SameQueues, Zenon
<1>10. Core(t, str, B)
  BY <1>1, <1>7, <1>8, <1>9, Zenon DEF Core, Counted
<1>11. Armed(t)
  <2>1. out = << >> => free = w
    BY Zenon DEF free
  <2> QED BY <1>6, <1>8, <2>1, Zenon DEF Armed
<1>12. oldest(t) = oldest(s)
  BY <1>8, Zenon DEF oldest
<1>13. /\ Core(t, str, B) /\ Armed(t) /\ oldest(t) = oldest(s)
       /\ t.next_seqno = s.next_seqno /\ t.bytes_in_flight = s.bytes_in_flight
       /\ t.segments_outstanding = s.segments_outstanding
       /\ t.isn = s.isn /\ t.initial_rto = s.initial_rto /\ t.syn_sent = s.syn_sent
       /\ t.receiver_window_size = w /\ t.receiver_free_space = free
  BY <1>8, <1>10, <1>11, <1>12, Zenon
<1> QED BY <1>5, <1>13, Zenon DEF free

\* ack_received, up to the call of fill_window it ends with.
acked(s, x, w) == update_window(pop_acked(s, x), x, w)

\* Taking an acknowledgment in leaves a sound queue behind a running timer, whatever it
\* acknowledges and whatever window it brings (lines 113-163 of tcp_sender.cc).
LEMMA Acked ==
  ASSUME NEW B, NEW str \in Seq(B), NEW s, Core(s, str, B), Armed(s), NEW x \in Nat, NEW w \in 0 .. WIN_MOD - 1
  PROVE  /\ Core(acked(s, x, w), str, B) /\ Armed(acked(s, x, w))
         /\ acked(s, x, w).next_seqno = s.next_seqno /\ acked(s, x, w).isn = s.isn
         /\ acked(s, x, w).initial_rto = s.initial_rto /\ acked(s, x, w).syn_sent = s.syn_sent
<1> DEFINE p == pop_acked(s, x)
           n == covered(s, x)
           t == update_window(p, x, w)
<1>1. Core(p, str, B) /\ Popped(s, p, n)
  BY PopAcked, Zenon
<1> HIDE DEF p
<1>2. p.segments_outstanding # << >> => p.timer_running
  <2>1. s.segments_outstanding = << >> => p.segments_outstanding = << >>
    <3> SUFFICES ASSUME s.segments_outstanding = << >> PROVE p.segments_outstanding = << >>
      OBVIOUS
    <3>1. n \in 0 .. Len(<< >>) /\ p.segments_outstanding = SubSeq(<< >>, n + 1, Len(<< >>))
      BY <1>1, Zenon DEF Popped
    <3> QED BY <3>1
  <2>2. p.timer_running = s.timer_running
    BY <1>1, Zenon DEF Popped
  <2> QED BY <2>1, <2>2, Zenon DEF Armed
<1>3. /\ Core(t, str, B) /\ Armed(t) /\ t.next_seqno = p.next_seqno
      /\ t.isn = p.isn /\ t.initial_rto = p.initial_rto /\ t.syn_sent = p.syn_sent
  BY <1>1, <1>2, UpdateWindow
<1> HIDE DEF t
<1>4. /\ t.next_seqno = s.next_seqno
      /\ t.isn = s.isn /\ t.initial_rto = s.initial_rto /\ t.syn_sent = s.syn_sent
  BY <1>1, <1>3, Zenon DEF Popped
<1> QED BY <1>3, <1>4, Zenon DEF t, p, acked

\* ack_received keeps the sender's invariant, whatever the acknowledgment says and
\* whatever the read of an empty queue finds.
LEMMA AckReceived ==
  ASSUME NEW B, NEW str \in Seq(B), NEW s, SenderHolds(s, str, B), NEW ackno \in WrappingInt32,
         NEW w \in 0 .. WIN_MOD - 1, NEW garbage
  PROVE  LET t == ack_received(s, ackno, w, garbage)
             x == unwrap(ackno, s.isn, s.next_seqno)
         IN /\ SenderHolds(t, str, B) /\ t.isn = s.isn /\ t.initial_rto = s.initial_rto
            /\ \/ t = s
               \/ _ack_valid(s, x, garbage) /\ t = fill_window(acked(s, x, w))
<1> DEFINE t == ack_received(s, ackno, w, garbage)
           x == unwrap(ackno, s.isn, s.next_seqno)
           p == acked(s, x, w)
<1>1. x \in Nat
  <2>1. s.isn \in WrappingInt32 /\ s.next_seqno \in Nat
    BY DEF SenderHolds, Core, Senders
  <2> QED BY <2>1, UnwrapNat, Zenon
<1>2. t = IF _ack_valid(s, x, garbage) THEN fill_window(p) ELSE s
  BY Zenon DEF ack_received, acked
<1> HIDE DEF x, t
<1>3. CASE ~_ack_valid(s, x, garbage)
  BY <1>2, <1>3, Zenon DEF t, x
<1>4. CASE _ack_valid(s, x, garbage)
  <2>1. /\ Core(p, str, B) /\ Armed(p) /\ p.isn = s.isn /\ p.initial_rto = s.initial_rto
    BY <1>1, Acked, Zenon DEF SenderHolds
  <2>2. t = fill_window(p)
    BY <1>2, <1>4, Zenon
  <2> HIDE DEF p
  <2>3. SenderHolds(t, str, B) /\ Filled(p, t)
    BY <2>1, <2>2, FillWindow, Zenon
  <2>4. t.isn = p.isn /\ t.initial_rto = p.initial_rto
    BY <2>3, Zenon DEF Filled, Sends
  <2> QED BY <1>4, <2>1, <2>2, <2>3, <2>4, Zenon DEF t, x, p
<1> QED BY <1>3, <1>4, Zenon

\* The numbers a sender uses end with that of the FIN.
LEMMA NextBound ==
  ASSUME NEW B, NEW str \in Seq(B), NEW s, Core(s, str, B)
  PROVE  s.next_seqno \in Nat /\ s.next_seqno <= Len(str) + 2
<1>1. /\ s.next_seqno \in Nat /\ s.stream.nread \in Nat /\ s.stream.buffer \in Seq(B)
      /\ s.syn_sent \in BOOLEAN /\ s.fin_sent \in BOOLEAN
  BY SMTT(20) DEF Core, Senders, ByteStreams
<1>2. /\ s.next_seqno = bit(s.syn_sent) + s.stream.nread + bit(s.fin_sent)
      /\ s.stream.nread + Len(s.stream.buffer) = s.stream.nwritten /\ s.stream.nwritten <= Len(str)
  BY Zenon DEF Core, Counted, Outbound
<1> DEFINE b == bit(s.syn_sent)
           c == bit(s.fin_sent)
           n == s.stream.nread
           l == Len(s.stream.buffer)
           e == s.next_seqno
           L == Len(str)
<1>3. b \in {0, 1} /\ c \in {0, 1}
  BY <1>1, Zenon DEF bit
<1>4. e = b + n + c /\ n + l <= L /\ n \in Nat /\ e \in Nat
  BY <1>1, <1>2, Zenon
<1>5. l \in Nat /\ L \in Nat
  BY <1>1
<1> HIDE DEF b, c, n, l, e, L
<1>6. e <= L + 2
  BY <1>3, <1>4, <1>5
<1> QED BY <1>1, <1>6, Zenon DEF e, L

\* The connection takes segments from the queue segments_out, or puts some there.
LEMMA Requeue ==
  ASSUME NEW B, NEW str, NEW s, SenderHolds(s, str, B), NEW q \in Seq(Segments(B)),
         \A i \in 1 .. Len(q) : \E a \in Nat : Fresh(q[i], a, s.isn, str)
  PROVE  SenderHolds([s EXCEPT !.segments_out = q], str, B)
<1> DEFINE t == [s EXCEPT !.segments_out = q]
<1>1. /\ s \in Senders(B) /\ Tiled(s, str) /\ Timed(s) /\ Counted(s) /\ Outbound(s.stream, str)
      /\ Armed(s) /\ Busy(s)
  BY Zenon DEF SenderHolds, Core
<1>2. t \in Senders(B)
  BY <1>1, Zenon DEF Senders
<1>3. /\ t.segments_outstanding = s.segments_outstanding /\ t.segments_out = q
      /\ t.next_seqno = s.next_seqno /\ t.bytes_in_flight = s.bytes_in_flight /\ t.isn = s.isn
      /\ t.initial_rto = s.initial_rto /\ t.rto = s.rto /\ t.time_elapsed = s.time_elapsed
      /\ t.consecutive_retransmissions = s.consecutive_retransmissions
      /\ t.stream = s.stream /\ t.syn_sent = s.syn_sent /\ t.fin_sent = s.fin_sent
      /\ t.receiver_window_size = s.receiver_window_size
      /\ t.receiver_free_space = s.receiver_free_space /\ t.timer_running = s.timer_running
  BY <1>1 DEF Senders
<1> HIDE DEF t
<1>4. oldest(t) = oldest(s)
  BY <1>3, Zenon DEF oldest
<1>5. Tiled(t, str) /\ Timed(t) /\ Counted(t) /\ Armed(t) /\ Busy(t)
  BY <1>1, <1>3, <1>4, Zenon DEF Tiled, Timed, Counted, Armed, Busy
<1>6. Queued(t, str)
  BY <1>3, Zenon DEF Queued
<1>7. SenderHolds(t, str, B)
  BY <1>1, <1>2, <1>3, <1>5, <1>6, Zenon DEF SenderHolds, Core
<1> QED BY <1>7, Zenon DEF t

\* One more segment waits.
LEMMA QueueMore ==
  ASSUME NEW B, NEW str, NEW isn, NEW q \in Seq(Segments(B)), NEW seg \in Segments(B),
         \A i \in 1 .. Len(q) : \E a \in Nat : Fresh(q[i], a, isn, str), \E a \in Nat : Fresh(seg, a, isn, str)
  PROVE  /\ Append(q, seg) \in Seq(Segments(B))
         /\ \A i \in 1 .. Len(Append(q, seg)) : \E a \in Nat : Fresh(Append(q, seg)[i], a, isn, str)
<1> DEFINE r == Append(q, seg)
<1>1. r \in Seq(Segments(B)) /\ Len(r) = Len(q) + 1 /\ Len(q) \in Nat /\ r[Len(q) + 1] = seg
      /\ \A i \in 1 .. Len(q) : r[i] = q[i]
  <2>1. r \in Seq(Segments(B)) /\ Len(r) = Len(q) + 1 /\ Len(q) \in Nat /\ r[Len(q) + 1] = seg
    OBVIOUS
  <2>2. ASSUME NEW i \in 1 .. Len(q) PROVE r[i] = q[i]
    OBVIOUS
  <2> QED BY <2>1, <2>2, Zenon
<1> HIDE DEF r
<1>2. ASSUME NEW i \in 1 .. Len(r) PROVE \E a \in Nat : Fresh(r[i], a, isn, str)
  <2>1. i \in 1 .. Len(q) \/ i = Len(q) + 1
    BY <1>1
  <2>2. CASE i \in 1 .. Len(q)
    BY <1>1, <2>2, Zenon
  <2>3. CASE i = Len(q) + 1
    <3>1. r[i] = seg
      BY <1>1, <2>3, Zenon
    <3> QED BY <3>1, Zenon
  <2> QED BY <2>1, <2>2, <2>3, Zenon
<1> QED BY <1>1, <1>2, Zenon DEF r

\* send_empty_segment: a bare segment at the next number.
LEMMA SendEmpty ==
  ASSUME NEW B, NEW str \in Seq(B), NEW s, SenderHolds(s, str, B)
  PROVE  SenderHolds(send_empty_segment(s), str, B)
<1> DEFINE no == FALSE
           seg == next_segment(s, 0, no, no, << >>)
           q == s.segments_out
<1>1. s \in Senders(B) /\ q \in Seq(Segments(B)) /\ s.next_seqno \in Nat /\ s.next_seqno <= Len(str) + 2
  <2>1. Core(s, str, B)
    BY DEF SenderHolds
  <2>2. s \in Senders(B) /\ q \in Seq(Segments(B))
    BY <2>1 DEF Core, Senders
  <2> QED BY <2>1, <2>2, NextBound, Zenon
<1>2. bit(no) = 0 /\ no \in BOOLEAN /\ ~no
  BY Zenon DEF bit
<1> HIDE DEF no
<1>3. Spans(s.next_seqno, 0, no, no, << >>, str)
  <2>1. s.next_seqno + 0 <= Len(str) + 2 /\ ~(0 > 0) /\ \A k \in 1 .. Len(<< >>) : << >>[k] = str[s.next_seqno + k - 1]
    BY <1>1
  <2> QED BY <1>2, <2>1, Zenon DEF Spans
<1>4. 0 \in Nat /\ << >> \in Seq(B) /\ s.next_seqno = s.next_seqno + 0 /\ 0 = Len(<< >>) + 0 + 0
  BY <1>1
<1>5. 0 = Len(<< >>) + bit(no) + bit(no)
  BY <1>2, <1>4, Zenon
<1>6. seg \in Segments(B) /\ Fresh(seg, s.next_seqno, s.isn, str)
  <2>1. seg \in Segments(B)
    BY <1>1, <1>2, <1>4, NextSegment, Zenon
  <2>2. Fresh(seg, s.next_seqno, s.isn, str)
    <3> DEFINE len == 0
               a == s.next_seqno
    <3>1. len = Len(<< >>) + bit(no) + bit(no) /\ Spans(a, len, no, no, << >>, str) /\ a = s.next_seqno + 0
      BY <1>3, <1>4, <1>5, Zenon
    <3> HIDE DEF len, a
    <3>2. length_in_sequence_space(seg) = len /\ Fresh(seg, a, s.isn, str)
      BY <3>1, NextPiece, Zenon
    <3> QED BY <3>2, Zenon DEF a
  <2> QED BY <2>1, <2>2
<1>7. send_empty_segment(s) = [s EXCEPT !.segments_out = Append(@, seg)]
  BY Zenon DEF send_empty_segment, no
<1> HIDE DEF seg
<1>8. \A i \in 1 .. Len(q) : \E a \in Nat : Fresh(q[i], a, s.isn, str)
  BY Zenon DEF SenderHolds, Core, Queued
<1>9. /\ Append(q, seg) \in Seq(Segments(B))
      /\ \A i \in 1 .. Len(Append(q, seg)) : \E a \in Nat : Fresh(Append(q, seg)[i], a, s.isn, str)
  BY <1>1, <1>6, <1>8, QueueMore, Zenon
<1>10. SenderHolds([s EXCEPT !.segments_out = Append(q, seg)], str, B)
  BY <1>9, Requeue, Zenon
<1> QED BY <1>7, <1>10, Zenon

\* tick keeps the invariant: the timeout doubles with the count of retransmissions, and
\* what is sent again is the oldest piece.
LEMMA SenderTick ==
  ASSUME NEW B, NEW str \in Seq(B), NEW s, SenderHolds(s, str, B), NEW ms \in Nat
  PROVE  LET t == sender_tick(s, ms)
         IN /\ SenderHolds(t, str, B) /\ t.isn = s.isn /\ t.initial_rto = s.initial_rto
            /\ t.next_seqno = s.next_seqno /\ t.bytes_in_flight = s.bytes_in_flight
            /\ t.segments_outstanding = s.segments_outstanding /\ t.syn_sent = s.syn_sent
            /\ t.receiver_window_size = s.receiver_window_size
            /\ t.receiver_free_space = s.receiver_free_space
<1> DEFINE t == sender_tick(s, ms)
           elapsed == s.time_elapsed + ms
           out == s.segments_outstanding
           front == Head(out)
           backoff == s.receiver_window_size > 0 \/ front.syn
           more == bit(backoff)
           rto == IF backoff THEN 2 * s.rto ELSE s.rto
           q == Append(s.segments_out, front)
<1>1. /\ s \in Senders(B) /\ Tiled(s, str) /\ Timed(s) /\ Counted(s) /\ Outbound(s.stream, str)
      /\ Armed(s) /\ Busy(s) /\ Queued(s, str)
  BY Zenon DEF SenderHolds, Core
<1>2. /\ s.time_elapsed \in Nat /\ s.rto \in Nat /\ s.consecutive_retransmissions \in Nat
      /\ s.initial_rto \in Nat /\ out \in Seq(Segments(B)) /\ s.segments_out \in Seq(Segments(B))
  BY <1>1 DEF Senders
<1>3. elapsed \in Nat /\ (elapsed < s.rto \/ elapsed >= s.rto) /\ ~(elapsed < s.rto /\ elapsed >= s.rto)
  BY <1>2
<1>4. CASE ~s.timer_running
  <2>1. t = s
    BY <1>4, Zenon DEF sender_tick
  <2> QED BY <2>1, Zenon
<1>5. CASE s.timer_running /\ elapsed < s.rto
  <2> DEFINE x == [s EXCEPT !.time_elapsed = elapsed]
  <2>1. t = x
    BY <1>3, <1>5, Zenon DEF sender_tick
  <2> HIDE DEF elapsed
  <2>2. x \in Senders(B)
    BY <1>1, <1>3, Zenon DEF Senders
  <2>3. /\ x.segments_outstanding = s.segments_outstanding /\ x.segments_out = s.segments_out
        /\ x.next_seqno = s.next_seqno /\ x.bytes_in_flight = s.bytes_in_flight /\ x.isn = s.isn
        /\ x.initial_rto = s.initial_rto /\ x.rto = s.rto /\ x.time_elapsed = elapsed
        /\ x.consecutive_retransmissions = s.consecutive_retransmissions
        /\ x.stream = s.stream /\ x.syn_sent = s.syn_sent /\ x.fin_sent = s.fin_sent
        /\ x.receiver_window_size = s.receiver_window_size
        /\ x.receiver_free_space = s.receiver_free_space /\ x.timer_running = s.timer_running
    BY <1>1 DEF Senders
  <2> HIDE DEF x
  <2>4. oldest(x) = oldest(s)
    BY <2>3, Zenon DEF oldest
  <2>5. Tiled(x, str) /\ Timed(x) /\ Counted(x) /\ Armed(x) /\ Busy(x) /\ Queued(x, str)
    BY <1>1, <1>5, <2>3, <2>4, Zenon DEF Tiled, Timed, Counted, Armed, Busy, Queued
  <2>6. SenderHolds(x, str, B)
    BY <1>1, <2>2, <2>3, <2>5, Zenon DEF SenderHolds, Core
  <2> HIDE DEF t
  <2> QED BY <2>1, <2>3, <2>6, Zenon DEF t
<1>6. CASE s.timer_running /\ elapsed >= s.rto
  <2> DEFINE x == [s EXCEPT !.segments_out = q, !.consecutive_retransmissions = @ + more,
                            !.rto = rto, !.time_elapsed = 0]
  <2>1. t = x
    BY <1>3, <1>6, Zenon DEF sender_tick, retransmit
  <2>2. out # << >>
    BY <1>1, <1>6, Zenon DEF Armed
  <2>3. front \in Segments(B) /\ \E a \in Nat : Fresh(front, a, s.isn, str)
    <3>1. front \in Segments(B) /\ front = out[1] /\ 1 \in 1 .. Len(out)
      BY <1>2, <2>2
    <3>2. Fresh(out[1], oldest(s) + sizes(out)[1 - 1], s.isn, str)
      BY <1>1, <3>1, Zenon DEF Tiled, Train
    <3>3. oldest(s) + sizes(out)[1 - 1] \in Nat
      <4>1. oldest(s) \in Nat
        BY InFlight, Zenon DEF SenderHolds
      <4>2. sizes(out) \in [0 .. Len(out) -> Nat]
        BY <1>2, Sizes, Zenon
      <4>3. 1 - 1 \in 0 .. Len(out)
        BY <1>2
      <4>4. sizes(out)[1 - 1] \in Nat
        BY <4>2, <4>3, Zenon
      <4> QED BY <4>1, <4>4
    <3> HIDE DEF front
    <3> QED BY <3>1, <3>2, <3>3, Zenon
  <2> HIDE DEF front
  <2>4. /\ q \in Seq(Segments(B))
        /\ \A i \in 1 .. Len(q) : \E a \in Nat : Fresh(q[i], a, s.isn, str)
    BY <1>1, <1>2, <2>3, QueueMore, Zenon DEF Queued
  <2> HIDE DEF q
  <2>5. /\ more \in Nat /\ rto \in Nat /\ rto > 0
        /\ \A f \in Doubling(s.initial_rto) : rto = f[s.consecutive_retransmissions + more]
    <3> DEFINE c == s.consecutive_retransmissions
    <3>1. /\ \A f \in Doubling(s.initial_rto) : s.rto = f[c]
          /\ s.time_elapsed < s.rto
      BY <1>1, Zenon DEF Timed
    <3>2. s.rto > 0
      BY <1>2, <3>1
    <3>3. CASE backoff
      <4>1. more = 1 /\ rto = 2 * s.rto
        BY <3>3, Zenon DEF bit
      <4> HIDE DEF more, rto
      <4>2. \A f \in Doubling(s.initial_rto) : rto = f[c + more]
        BY <1>2, <3>1, <4>1, Zenon DEF Doubling
      <4>3. more \in Nat /\ rto \in Nat /\ rto > 0
        BY <1>2, <3>2, <4>1
      <4> QED BY <4>2, <4>3, Zenon
    <3>4. CASE ~backoff
      <4>1. more = 0 /\ rto = s.rto
        BY <3>4, Zenon DEF bit
      <4>2. c + 0 = c
        BY <1>2
      <4> HIDE DEF more, rto
      <4>3. \A f \in Doubling(s.initial_rto) : rto = f[c + more]
        BY <3>1, <4>1, <4>2, Zenon
      <4>4. more \in Nat /\ rto \in Nat /\ rto > 0
        BY <1>2, <3>2, <4>1
      <4> QED BY <4>3, <4>4, Zenon
    <3> QED BY <3>3, <3>4, Zenon
  <2> HIDE DEF more, rto
  <2>6. x \in Senders(B)
    <3>1. s.consecutive_retransmissions + more \in Nat
      BY <1>2, <2>5
    <3> QED BY <1>1, <2>4, <2>5, <3>1, Zenon DEF Senders
  <2>7. /\ x.segments_outstanding = s.segments_outstanding /\ x.segments_out = q
        /\ x.next_seqno = s.next_seqno /\ x.bytes_in_flight = s.bytes_in_flight /\ x.isn = s.isn
        /\ x.initial_rto = s.initial_rto /\ x.rto = rto /\ x.time_elapsed = 0
        /\ x.consecutive_retransmissions = s.consecutive_retransmissions + more
        /\ x.stream = s.stream /\ x.syn_sent = s.syn_sent /\ x.fin_sent = s.fin_sent
        /\ x.receiver_window_size = s.receiver_window_size
        /\ x.receiver_free_space = s.receiver_free_space /\ x.timer_running = s.timer_running
    BY <1>1 DEF Senders
  <2> HIDE DEF x
  <2>8. oldest(x) = oldest(s)
    BY <2>7, Zenon DEF oldest
  <2>9. 0 < rto
    BY <2>5
  <2>10. Tiled(x, str) /\ Timed(x) /\ Counted(x) /\ Armed(x) /\ Busy(x) /\ Queued(x, str)
    BY <1>1, <2>4, <2>5, <2>7, <2>8, <2>9, Zenon DEF Tiled, Timed, Counted, Armed, Busy, Queued
  <2>11. SenderHolds(x, str, B)
    BY <1>1, <2>6, <2>7, <2>10, Zenon DEF SenderHolds, Core
  <2> HIDE DEF t
  <2> QED BY <2>1, <2>7, <2>11, Zenon DEF t
<1> QED BY <1>3, <1>4, <1>5, <1>6, Zenon

\* The constructor.
LEMMA NewSender ==
  ASSUME NEW B, NEW str \in Seq(B), NEW capacity \in Nat, NEW timeout \in Nat \ {0}, NEW isn \in WrappingInt32
  PROVE  SenderHolds(new_TCPSender(capacity, timeout, isn), str, B)
<1> DEFINE s == new_TCPSender(capacity, timeout, isn)
           o == new_ByteStream(capacity)
<1>1. /\ s.isn = isn /\ s.initial_rto = timeout /\ s.stream = o /\ s.segments_out = << >>
      /\ s.segments_outstanding = << >> /\ s.next_seqno = 0 /\ s.syn_sent = FALSE /\ s.fin_sent = FALSE
      /\ s.bytes_in_flight = 0 /\ s.consecutive_retransmissions = 0 /\ s.rto = timeout
      /\ s.time_elapsed = 0 /\ s.timer_running = FALSE
  BY DEF new_TCPSender
<1>2. /\ o.buffer = << >> /\ o.capacity = capacity /\ o.nwritten = 0 /\ o.nread = 0
      /\ o.input_ended = FALSE /\ o \in ByteStreams(B)
  BY DEF new_ByteStream, ByteStreams
<1>3. s \in Senders(B)
  <2>1. 0 \in 0 .. WIN_MOD - 1
    BY SenderAssumption
  <2> HIDE DEF o
  <2> QED BY <1>2, <2>1 DEF new_TCPSender, Senders, o
<1> HIDE DEF s, o
<1>4. /\ Len(<< >>) = 0 /\ 0 <= capacity /\ 0 + 0 = 0 /\ 0 <= Len(str) /\ 1 .. 0 = {} /\ 0 <= 0
      /\ timeout * 1 = timeout /\ 0 < timeout /\ 0 + 0 + 0 = 0
  OBVIOUS
<1>5. Outbound(s.stream, str)
  BY <1>1, <1>2, <1>4, Zenon DEF Outbound
<1>6. Counted(s)
  <2>1. bit(s.syn_sent) = 0 /\ bit(s.fin_sent) = 0
    BY <1>1, Zenon DEF bit
  <2> QED BY <1>1, <1>2, <1>4, <2>1, Zenon DEF Counted
<1>7. Tiled(s, str)
  <2>1. << >> \in Seq(Segments(B))
    OBVIOUS
  <2>2. sizes(<< >>)[0] = 0
    BY <2>1, Sizes, Zenon
  <2>3. Train(<< >>, oldest(s), s.isn, str)
    BY <1>4, Zenon DEF Train
  <2> QED BY <1>1, <1>4, <2>2, <2>3, Zenon DEF Tiled
<1>8. Timed(s)
  <2>1. \A f \in Doubling(s.initial_rto) : s.rto = f[s.consecutive_retransmissions]
    BY <1>1, Zenon DEF Doubling
  <2> QED BY <1>1, <1>4, <2>1, Zenon DEF Timed
<1>9. Queued(s, str)
  BY <1>1, <1>4, Zenon DEF Queued
<1>10. Armed(s) /\ Busy(s)
  BY <1>1, Zenon DEF Armed, Busy
<1>11. SenderHolds(s, str, B)
  BY <1>3, <1>5, <1>6, <1>7, <1>8, <1>9, <1>10, Zenon DEF SenderHolds, Core
<1> QED BY <1>11, Zenon DEF s

\* ByteStream::write takes the next bytes of str that fit.
LEMMA WriteOut ==
  ASSUME NEW B, NEW str \in Seq(B), NEW o \in ByteStreams(B), Outbound(o, str), ~o.input_ended,
         NEW data \in Seq(B), o.nwritten + Len(data) <= Len(str),
         \A k \in 1 .. Len(data) : data[k] = str[o.nwritten + k]
  PROVE  LET p == write(o, data)
         IN /\ p \in ByteStreams(B) /\ Outbound(p, str) /\ p.nread = o.nread /\ p.input_ended = o.input_ended
            /\ p.nwritten \in o.nwritten .. o.nwritten + Len(data)
<1> DEFINE b == o.buffer
           L == Len(b)
           n == write_count(o, data)
           d == SubSeq(data, 1, n)
           c == b \o d
           p == write(o, data)
<1>1. /\ b \in Seq(B) /\ o.nread \in Nat /\ o.nwritten \in Nat /\ o.capacity \in Nat /\ L \in Nat
      /\ o.input_ended \in BOOLEAN
  BY DEF ByteStreams
<1>2. /\ L <= o.capacity /\ o.nread + L = o.nwritten
      /\ \A k \in 1 .. L : b[k] = str[o.nread + k]
  BY DEF Outbound
<1>3. n \in Nat /\ n <= Len(data) /\ L + n <= o.capacity
  BY <1>1, <1>2 DEF write_count, MinOf, remaining_capacity, buffer_size
<1> HIDE DEF n
<1>4. d \in Seq(B) /\ Len(d) = n /\ \A k \in 1 .. n : d[k] = data[k]
  BY <1>3, SliceOf
<1> HIDE DEF d
<1>5. /\ c \in Seq(B) /\ Len(c) = L + n /\ \A k \in 1 .. L : c[k] = b[k]
      /\ \A k \in L + 1 .. L + n : c[k] = d[k - L]
  <2>1. c \in Seq(B) /\ Len(c) = L + n
    <3>1. b \in Seq(B) /\ d \in Seq(B) /\ Len(d) = n
      BY <1>1, <1>4, Zenon
    <3> HIDE DEF b
    <3>2. b \o d \in Seq(B) /\ Len(b \o d) = Len(b) + Len(d)
      BY <3>1, SMTT(20)
    <3> QED BY <3>1, <3>2
  <2>2. /\ \A k \in 1 .. L : c[k] = b[k]
        /\ \A k \in L + 1 .. L + n : c[k] = d[k - L]
    BY <1>1, <1>3, <1>4, JoinOf
  <2> QED BY <2>1, <2>2
<1> HIDE DEF c
<1>6. p = [o EXCEPT !.buffer = c, !.nwritten = @ + n]
  BY Zenon DEF write, c, d, n
<1>7. /\ p.buffer = c /\ p.nwritten = o.nwritten + n /\ p.nread = o.nread
      /\ p.input_ended = o.input_ended /\ p.capacity = o.capacity
  BY <1>6 DEF ByteStreams
<1>8. p \in ByteStreams(B)
  <2>1. o.nwritten + n \in Nat
    BY <1>1, <1>3
  <2> QED BY <1>5, <1>6, <2>1, Zenon DEF ByteStreams
<1> HIDE DEF p
<1>9. ASSUME NEW k \in 1 .. Len(c) PROVE c[k] = str[o.nread + k]
  <2>1. k \in 1 .. L \/ k \in L + 1 .. L + n
    <3>1. Len(c) = L + n
      BY <1>5, Zenon
    <3> HIDE DEF L
    <3> QED BY <1>1, <1>3, <3>1
  <2>2. CASE k \in 1 .. L
    BY <1>2, <1>5, <2>2, Zenon
  <2>3. CASE k \in L + 1 .. L + n
    <3> DEFINE j == k - L
    <3>1. j \in 1 .. n /\ j \in 1 .. Len(data) /\ o.nwritten + j = o.nread + k
      <4>1. Len(data) \in Nat
        OBVIOUS
      <4>2. o.nread + L = o.nwritten
        BY <1>2, Zenon
      <4> HIDE DEF L
      <4> QED BY <1>1, <1>3, <2>3, <4>1, <4>2, SMTT(20)
    <3>2. c[k] = d[j]
      BY <1>5, <2>3, Zenon
    <3> HIDE DEF j
    <3>3. d[j] = data[j] /\ data[j] = str[o.nwritten + j]
      BY <1>4, <3>1, Zenon
    <3> QED BY <3>1, <3>2, <3>3, Zenon
  <2> QED BY <2>1, <2>2, <2>3, Zenon
<1>10. L + n <= o.capacity /\ o.nread + (L + n) = o.nwritten + n /\ o.nwritten + n <= Len(str)
  <2>1. Len(data) \in Nat /\ Len(str) \in Nat
    OBVIOUS
  <2>2. o.nread + L = o.nwritten
    BY <1>2, Zenon
  <2> HIDE DEF L
  <2> QED BY <1>1, <1>3, <2>1, <2>2, SMTT(20)
<1>11. Outbound(p, str)
  BY <1>5, <1>7, <1>9, <1>10, Zenon DEF Outbound
<1>12. o.nwritten + n \in o.nwritten .. o.nwritten + Len(data)
  BY <1>1, <1>3
<1> QED BY <1>7, <1>8, <1>11, <1>12, Zenon DEF p

\* ByteStream::end_input, once all of str is written.
LEMMA EndOut ==
  ASSUME NEW B, NEW str, NEW o \in ByteStreams(B), Outbound(o, str), o.nwritten = Len(str)
  PROVE  LET p == end_input(o)
         IN /\ p \in ByteStreams(B) /\ Outbound(p, str) /\ p.nread = o.nread /\ (eof(o) => eof(p))
            /\ p.nwritten = o.nwritten /\ p.input_ended = TRUE
<1> DEFINE p == end_input(o)
<1>1. /\ p \in ByteStreams(B) /\ p.nread = o.nread /\ p.buffer = o.buffer /\ p.nwritten = o.nwritten
      /\ p.capacity = o.capacity /\ p.input_ended = TRUE
  BY Zenon DEF end_input, ByteStreams
<1> HIDE DEF p
<1>2. Outbound(p, str) /\ (eof(o) => eof(p))
  BY <1>1, Zenon DEF Outbound, eof, buffer_empty, buffer_size
<1> QED BY <1>1, <1>2, Zenon DEF p

\* ByteStream::set_error.
LEMMA ErrorOut ==
  ASSUME NEW B, NEW str, NEW o \in ByteStreams(B), Outbound(o, str)
  PROVE  LET p == set_error(o)
         IN /\ p \in ByteStreams(B) /\ Outbound(p, str) /\ p.nread = o.nread /\ (eof(o) => eof(p))
            /\ p.nwritten = o.nwritten /\ p.input_ended = o.input_ended /\ p.buffer = o.buffer
<1> DEFINE p == set_error(o)
<1>1. /\ p \in ByteStreams(B) /\ p.nread = o.nread /\ p.buffer = o.buffer /\ p.nwritten = o.nwritten
      /\ p.capacity = o.capacity /\ p.input_ended = o.input_ended
  BY Zenon DEF set_error, ByteStreams
<1> HIDE DEF p
<1>2. Outbound(p, str) /\ (eof(o) => eof(p))
  BY <1>1, Zenon DEF Outbound, eof, buffer_empty, buffer_size
<1> QED BY <1>1, <1>2, Zenon DEF p

\* The application's calls change the outbound stream of a sender and nothing else.
LEMMA Restream ==
  ASSUME NEW B, NEW str, NEW s, Core(s, str, B), Armed(s), NEW o \in ByteStreams(B), Outbound(o, str),
         o.nread = s.stream.nread, s.fin_sent => eof(o)
  PROVE  LET t == [s EXCEPT !.stream = o]
         IN /\ Core(t, str, B) /\ Armed(t) /\ t.isn = s.isn /\ t.initial_rto = s.initial_rto
            /\ t.next_seqno = s.next_seqno /\ t.bytes_in_flight = s.bytes_in_flight
            /\ t.segments_outstanding = s.segments_outstanding /\ t.syn_sent = s.syn_sent
            /\ t.receiver_window_size = s.receiver_window_size
            /\ t.receiver_free_space = s.receiver_free_space
            /\ t.segments_out = s.segments_out /\ t.fin_sent = s.fin_sent /\ t.stream = o
<1> DEFINE t == [s EXCEPT !.stream = o]
<1>1. /\ s \in Senders(B) /\ Tiled(s, str) /\ Timed(s) /\ Counted(s) /\ Queued(s, str)
  BY Zenon DEF Core
<1>2. t \in Senders(B)
  BY <1>1, SMTT(20) DEF Senders
<1>3. /\ t.segments_outstanding = s.segments_outstanding /\ t.segments_out = s.segments_out
      /\ t.next_seqno = s.next_seqno /\ t.bytes_in_flight = s.bytes_in_flight /\ t.isn = s.isn
      /\ t.initial_rto = s.initial_rto /\ t.rto = s.rto /\ t.time_elapsed = s.time_elapsed
      /\ t.consecutive_retransmissions = s.consecutive_retransmissions
      /\ t.stream = o /\ t.syn_sent = s.syn_sent /\ t.fin_sent = s.fin_sent
      /\ t.receiver_window_size = s.receiver_window_size
      /\ t.receiver_free_space = s.receiver_free_space /\ t.timer_running = s.timer_running
  BY <1>1 DEF Senders
<1> HIDE DEF t
<1>4. Tiled(t, str) /\ Timed(t) /\ Queued(t, str)
  BY <1>1, <1>3, SameQueues, Zenon
<1>5. Counted(t) /\ Armed(t)
  BY <1>1, <1>3, Zenon DEF Counted, Armed
<1>6. Core(t, str, B)
  BY <1>2, <1>3, <1>4, <1>5, Zenon DEF Core
<1> QED BY <1>3, <1>5, <1>6, Zenon DEF t

\* The loop of ack_received stops only at a segment that reaches beyond what is acknowledged.
LEMMA PopStops ==
  ASSUME NEW B, NEW str \in Seq(B), NEW s, Core(s, str, B), s.bytes_in_flight <= HalfSeq, NEW x \in Nat
  PROVE  LET t == pop_acked(s, x)
         IN t.segments_outstanding # << >> => x < oldest(t) + WIN_MOD /\ x < s.next_seqno
<1> DEFINE t == pop_acked(s, x)
           n == covered(s, x)
           out == s.segments_outstanding
<1>1. Core(t, str, B) /\ Popped(s, t, n)
  BY PopAcked, Zenon
<1>2. s \in Senders(B) /\ out \in Seq(Segments(B))
  BY DEF Core, Senders
<1>3. n \in 0 .. Len(out) /\ (n = Len(out) \/ abs_end(s, out[n + 1]) > x)
  BY <1>2, CoveredLeast, Zenon
<1> HIDE DEF t, n
<1> SUFFICES ASSUME t.segments_outstanding # << >>
             PROVE  x < oldest(t) + WIN_MOD /\ x < s.next_seqno
  BY DEF t
<1>4. n # Len(out)
  <2>1. t.segments_outstanding = SubSeq(out, n + 1, Len(out))
    BY <1>1, Zenon DEF Popped
  <2>2. CASE n = Len(out)
    <3>1. SubSeq(out, n + 1, Len(out)) = << >>
      BY <1>2, <2>2
    <3> QED BY <2>1, <3>1, Zenon
  <2> QED BY <2>2, Zenon
<1>5. n + 1 \in 1 .. Len(out) /\ (n + 1) - 1 = n /\ abs_end(s, out[n + 1]) > x
  BY <1>2, <1>3, <1>4
<1>6. abs_end(s, out[n + 1]) = oldest(s) + sizes(out)[n + 1]
  BY <1>5, Places
<1>7. /\ sizes(out)[n] \in Nat /\ sizes(out)[n + 1] \in Nat /\ sizes(out)[Len(out)] \in Nat
      /\ sizes(out)[n + 1] = sizes(out)[n] + length_in_sequence_space(out[n + 1])
  <2>1. /\ sizes(out) \in [0 .. Len(out) -> Nat]
        /\ \A i \in 1 .. Len(out) : sizes(out)[i] = sizes(out)[i - 1] + length_in_sequence_space(out[i])
    BY <1>2, Sizes, Zenon
  <2>2. sizes(out)[n + 1] = sizes(out)[(n + 1) - 1] + length_in_sequence_space(out[n + 1])
    BY <1>5, <2>1, Zenon
  <2>3. n \in 0 .. Len(out) /\ n + 1 \in 0 .. Len(out) /\ Len(out) \in 0 .. Len(out)
    BY <1>2, <1>5
  <2> HIDE DEF out
  <2> QED BY <1>5, <2>1, <2>2, <2>3, Zenon
<1>8. length_in_sequence_space(out[n + 1]) \in 1 .. WIN_MOD
  <2>1. Train(out, oldest(s), s.isn, str)
    BY DEF Core, Tiled
  <2> QED BY <1>5, <2>1, Zenon DEF Train
<1>9. sizes(out)[n + 1] <= sizes(out)[Len(out)] /\ s.bytes_in_flight = sizes(out)[Len(out)]
  <2>1. n + 1 \in 0 .. Len(out) /\ Len(out) \in 0 .. Len(out) /\ n + 1 <= Len(out)
    BY <1>2, <1>5
  <2>2. sizes(out)[n + 1] <= sizes(out)[Len(out)]
    BY <1>2, <2>1, SizesGrow, Zenon
  <2> QED BY <2>2 DEF Core, Tiled
<1>10. /\ s.bytes_in_flight \in Nat /\ s.next_seqno \in Nat /\ oldest(s) \in Nat
       /\ oldest(s) + s.bytes_in_flight = s.next_seqno
  BY InFlight, Zenon
<1>11. /\ t.bytes_in_flight \in Nat /\ oldest(t) \in Nat
       /\ oldest(t) + t.bytes_in_flight = t.next_seqno
  BY <1>1, InFlight, Zenon
<1>12. t.bytes_in_flight = s.bytes_in_flight - sizes(out)[n] /\ t.next_seqno = s.next_seqno
  BY <1>1, Zenon DEF Popped
<1>13. WIN_MOD \in Nat
  BY SenderAssumption
<1> DEFINE e == abs_end(s, out[n + 1])
           len == length_in_sequence_space(out[n + 1])
           before == sizes(out)[n]
           behind == sizes(out)[n + 1]
           all == sizes(out)[Len(out)]
<1>14. /\ e > x /\ e = oldest(s) + behind /\ before \in Nat /\ behind \in Nat /\ all \in Nat
       /\ behind = before + len /\ len \in 1 .. WIN_MOD /\ behind <= all /\ s.bytes_in_flight = all
       /\ t.bytes_in_flight = s.bytes_in_flight - before
  BY <1>5, <1>6, <1>7, <1>8, <1>9, <1>12, Zenon
<1> HIDE DEF out, e, len, before, behind, all
<1> QED BY <1>10, <1>11, <1>12, <1>13, <1>14, SMTT(20)

\* Where an acknowledgment of what was sent leaves the sender, and the free space that
\* lines 145-160 of tcp_sender.cc compute from it: the room up to the edge of the window.
LEMMA AckedPlace ==
  ASSUME NEW B, NEW str \in Seq(B), NEW s, Core(s, str, B), Armed(s), s.bytes_in_flight <= HalfSeq,
         NEW x \in Nat, oldest(s) <= x, x <= s.next_seqno, NEW w \in 0 .. WIN_MOD - 1
  PROVE  LET t == acked(s, x, w)
         IN /\ oldest(t) \in Nat /\ t.bytes_in_flight \in Nat
            /\ oldest(t) + t.bytes_in_flight = s.next_seqno /\ oldest(s) <= oldest(t) /\ oldest(t) <= x
            /\ t.next_seqno = s.next_seqno /\ t.receiver_window_size = w
            /\ \/ t.segments_outstanding = << >> /\ t.receiver_free_space = w /\ x = s.next_seqno
               \/ /\ t.receiver_free_space = (x + w - s.next_seqno) % WIN_MOD
                  /\ x < oldest(t) + WIN_MOD /\ x < s.next_seqno
<1> DEFINE p == pop_acked(s, x)
           t == update_window(p, x, w)
<1>1. Core(p, str, B) /\ Popped(s, p, covered(s, x))
  BY PopAcked, Zenon
<1>2. /\ oldest(s) <= oldest(p) /\ oldest(p) <= x
      /\ p.segments_outstanding # << >> => abs_start(p, Head(p.segments_outstanding)) = oldest(p)
  BY PopKeeps, Zenon
<1>3. p.segments_outstanding # << >> => x < oldest(p) + WIN_MOD /\ x < s.next_seqno
  BY PopStops, Zenon
<1>4. s \in Senders(B) /\ s.segments_outstanding \in Seq(Segments(B))
  BY DEF Core, Senders
<1>5. p.segments_outstanding # << >> => p.timer_running
  <2>1. /\ p.segments_outstanding = SubSeq(s.segments_outstanding, covered(s, x) + 1, Len(s.segments_outstanding))
        /\ p.timer_running = s.timer_running /\ covered(s, x) \in 0 .. Len(s.segments_outstanding)
    BY <1>1, Zenon DEF Popped
  <2>2. s.segments_outstanding = << >> => p.segments_outstanding = << >>
    BY <1>4, <2>1
  <2> QED BY <2>1, <2>2, Zenon DEF Armed
<1>6. p.next_seqno = s.next_seqno
  BY <1>1, Zenon DEF Popped
<1>7. acked(s, x, w) = t
  BY DEF acked
<1> HIDE DEF p
<1>8. /\ Core(t, str, B) /\ Armed(t) /\ oldest(t) = oldest(p)
      /\ t.next_seqno = p.next_seqno /\ t.bytes_in_flight = p.bytes_in_flight
      /\ t.segments_outstanding = p.segments_outstanding
      /\ t.isn = p.isn /\ t.initial_rto = p.initial_rto /\ t.syn_sent = p.syn_sent
      /\ t.receiver_window_size = w
      /\ t.receiver_free_space =
           IF p.segments_outstanding = << >> THEN w
           ELSE (x + w - abs_start(p, Head(p.segments_outstanding)) - p.bytes_in_flight) % WIN_MOD
  BY <1>1, <1>5, UpdateWindow
<1> HIDE DEF t
<1>9. /\ p.bytes_in_flight \in Nat /\ p.next_seqno \in Nat /\ oldest(p) \in Nat
      /\ oldest(p) + p.bytes_in_flight = p.next_seqno
      /\ p.bytes_in_flight = 0 <=> p.segments_outstanding = << >>
  BY <1>1, InFlight, Zenon
<1>10. CASE p.segments_outstanding = << >>
  <2>1. t.receiver_free_space = w /\ p.bytes_in_flight = 0 /\ t.segments_outstanding = << >>
    BY <1>8, <1>9, <1>10, Zenon
  <2>2. x = s.next_seqno
    BY <1>2, <1>6, <1>9, <2>1
  <2> QED BY <1>2, <1>6, <1>7, <1>8, <1>9, <2>1, <2>2, Zenon
<1>11. CASE p.segments_outstanding # << >>
  <2>1. /\ t.receiver_free_space = (x + w - oldest(p) - p.bytes_in_flight) % WIN_MOD
        /\ x < oldest(p) + WIN_MOD /\ x < s.next_seqno
    BY <1>2, <1>3, <1>8, <1>11, Zenon
  <2>2. x + w - oldest(p) - p.bytes_in_flight = x + w - s.next_seqno
    BY <1>6, <1>9, SenderAssumption
  <2>3. t.receiver_free_space = (x + w - s.next_seqno) % WIN_MOD
    BY <2>1, <2>2, Zenon
  <2> QED BY <1>2, <1>6, <1>7, <1>8, <1>9, <2>1, <2>3, Zenon
<1> QED BY <1>7, <1>10, <1>11, Zenon

\* From s to t no number is taken back: none that was sent, none that was acknowledged,
\* and after the FIN there is only less in flight; and none beyond lim is taken for
\* acknowledged.
Onward(s, t, lim) ==
  /\ t.isn = s.isn /\ s.next_seqno <= t.next_seqno /\ oldest(s) <= oldest(t)
  /\ s.fin_sent => t.fin_sent /\ t.bytes_in_flight <= s.bytes_in_flight
  /\ oldest(s) <= lim => oldest(t) <= lim

\* What the sender s takes ackno for is not beyond lim, or beyond all it has sent.
Confirms(s, ackno, lim) ==
  LET x == unwrap(ackno, s.isn, s.next_seqno) IN lim \in Nat /\ (x <= s.next_seqno => x <= lim)

\* From s to t by operations of the sender that do not fail and count no retransmission.
Serves(s, t, str, B, lim) ==
  /\ SenderHolds(t, str, B) /\ Onward(s, t, lim) /\ t.stream.error = s.stream.error
  /\ t.consecutive_retransmissions \in {0, s.consecutive_retransmissions}

\* It can be followed by itself.
LEMMA OnwardOn ==
  ASSUME NEW B, NEW str, NEW s, NEW t, NEW u, Core(s, str, B), Core(t, str, B), Core(u, str, B),
         NEW lim, Onward(s, t, lim), Onward(t, u, lim)
  PROVE  Onward(s, u, lim)
<1>1. /\ s.next_seqno \in Nat /\ t.next_seqno \in Nat /\ u.next_seqno \in Nat
      /\ oldest(s) \in Nat /\ oldest(t) \in Nat /\ oldest(u) \in Nat
      /\ s.bytes_in_flight \in Nat /\ t.bytes_in_flight \in Nat /\ u.bytes_in_flight \in Nat
  BY InFlight, Zenon
<1>2. s.next_seqno <= u.next_seqno /\ oldest(s) <= oldest(u)
  BY <1>1 DEF Onward
<1>3. (s.fin_sent => u.fin_sent) /\ (oldest(s) <= lim => oldest(u) <= lim)
  BY Zenon DEF Onward
<1>4. s.fin_sent => u.bytes_in_flight <= s.bytes_in_flight
  <2>1. s.fin_sent => t.bytes_in_flight <= s.bytes_in_flight /\ u.bytes_in_flight <= t.bytes_in_flight
    BY Zenon DEF Onward
  <2> QED BY <1>1, <2>1
<1> QED BY <1>2, <1>3, <1>4, Zenon DEF Onward

\* A sender whose counters and flags are the same.
LEMMA OnwardSame ==
  ASSUME NEW B, NEW str, NEW s, Core(s, str, B), NEW t, t.isn = s.isn, t.next_seqno = s.next_seqno,
         t.bytes_in_flight = s.bytes_in_flight, t.fin_sent = s.fin_sent, NEW lim
  PROVE  Onward(s, t, lim)
<1>1. /\ s.next_seqno \in Nat /\ oldest(s) \in Nat /\ s.bytes_in_flight \in Nat
  BY InFlight, Zenon
<1>2. oldest(t) = oldest(s)
  BY Zenon DEF oldest
<1>3. s.next_seqno <= s.next_seqno /\ oldest(s) <= oldest(s) /\ s.bytes_in_flight <= s.bytes_in_flight
  BY <1>1
<1> QED BY <1>2, <1>3, Zenon DEF Onward

\* Reading a stream sets no error.
LEMMA PopError ==
  ASSUME NEW B, NEW o \in ByteStreams(B), NEW n
  PROVE  pop_output(o, n).error = o.error
BY DEF pop_output, ByteStreams

\* Neither does sending.
LEMMA SendError ==
  ASSUME NEW u, "stream" \in DOMAIN u, NEW segs, NEW size
  PROVE  _send_segments(u, segs, size).stream = u.stream
BY DEF _send_segments

\* fill_window sets no error either.
LEMMA FillError ==
  ASSUME NEW B, NEW s \in Senders(B)
  PROVE  fill_window(s).stream.error = s.stream.error
<1>1. /\ s.stream \in ByteStreams(B) /\ s.receiver_window_size \in Int /\ s.receiver_free_space \in Int
      /\ s.receiver_window_size \in 0 .. WIN_MOD - 1
  BY SenderAssumption DEF Senders
<1>2. s.receiver_window_size > 0 \/ s.receiver_window_size = 0
  BY <1>1, SenderAssumption
<1>3. \A n : pop_output(s.stream, n).error = s.stream.error
  BY <1>1, PopError, Zenon
<1>4. fill_window(s) = s \/ fill_window(s) = send_syn(s) \/ fill_window(s) = send_window(s)
        \/ fill_window(s) = send_probe(s)
  <2>1. /\ s.receiver_window_size > 0 => ~(s.receiver_window_size = 0)
        /\ s.syn_sent \in BOOLEAN
    BY <1>1 DEF Senders
  <2> QED BY <1>2, <2>1, Zenon DEF fill_window
<1>5. send_syn(s).stream = s.stream
  <2> DEFINE u == [s EXCEPT !.syn_sent = TRUE]
  <2>1. send_syn(s) = _send_segments(u, <<next_segment(s, 0, TRUE, FALSE, <<>>)>>, 1)
    BY DEF send_syn
  <2>2. "stream" \in DOMAIN u /\ u.stream = s.stream
    BY DEF Senders
  <2> HIDE DEF u
  <2>3. \A q, n : _send_segments(u, q, n).stream = u.stream
    BY <2>2, SendError
  <2> QED BY <2>1, <2>2, <2>3, Zenon
<1>6. send_window(s).stream.error = s.stream.error
  <2> DEFINE total == MinOf(buffer_size(s.stream), s.receiver_free_space)
             p == pop_output(s.stream, total)
             fin == eof(p) /\ s.receiver_free_space > total
             u == [s EXCEPT !.stream = p, !.fin_sent = fin]
  <2>1. \E q : send_window(s) = _send_segments(u, q, total + bit(fin))
    BY Zenon DEF send_window
  <2> HIDE DEF total, fin
  <2>2. "stream" \in DOMAIN u /\ u.stream = p
    BY DEF Senders
  <2> HIDE DEF u
  <2>3. \A q, n : _send_segments(u, q, n).stream = u.stream
    BY <2>2, SendError
  <2> QED BY <1>3, <2>1, <2>2, <2>3, Zenon
<1>7. send_probe(s).stream.error = s.stream.error
  <2> DEFINE fin == eof(s.stream)
             p == pop_output(s.stream, bit(~fin))
             u == [s EXCEPT !.stream = pop_output(@, bit(~fin)), !.fin_sent = fin]
             payload == peek_output(s.stream, bit(~fin))
  <2>1. send_probe(s) = _send_segments(u, <<next_segment(s, 0, FALSE, fin, payload)>>, 1)
    BY DEF send_probe
  <2> HIDE DEF fin, payload
  <2>2. "stream" \in DOMAIN u /\ u.stream = p
    BY DEF Senders
  <2> HIDE DEF u
  <2>3. \A q, n : _send_segments(u, q, n).stream = u.stream
    BY <2>2, SendError
  <2> QED BY <1>3, <2>1, <2>2, <2>3, Zenon
<1> QED BY <1>4, <1>5, <1>6, <1>7, Zenon

\* After the FIN, fill_window does nothing; before, it only sends.
LEMMA FillOnward ==
  ASSUME NEW B, NEW str \in Seq(B), NEW s, Core(s, str, B), Armed(s), NEW lim
  PROVE  LET t == fill_window(s)
         IN /\ Onward(s, t, lim) /\ t.stream.error = s.stream.error
            /\ t.consecutive_retransmissions = s.consecutive_retransmissions
<1> DEFINE t == fill_window(s)
<1>1. SenderHolds(t, str, B) /\ Filled(s, t) /\ s \in Senders(B)
  BY FillWindow, Zenon DEF Core
<1>2. t.stream.error = s.stream.error
  BY <1>1, FillError, Zenon
<1>3. s.fin_sent => t = s
  <2> SUFFICES ASSUME s.fin_sent PROVE t = s
    OBVIOUS
  <2>1. s.syn_sent
    <3> SUFFICES ASSUME ~s.syn_sent PROVE FALSE
      OBVIOUS
    <3>1. s.next_seqno = 0 /\ s.next_seqno = bit(s.syn_sent) + s.stream.nread + bit(s.fin_sent)
      BY Zenon DEF Core, Counted
    <3>2. bit(s.syn_sent) = 0 /\ bit(s.fin_sent) = 1
      BY Zenon DEF bit
    <3>3. s.stream.nread \in Nat
      BY <1>1 DEF Senders, ByteStreams
    <3>4. 0 = 0 + s.stream.nread + 1
      BY <3>1, <3>2, Zenon
    <3> QED BY <3>3, <3>4
  <2> QED BY <2>1, Zenon DEF fill_window, nothing_to_send
<1> HIDE DEF t
<1>4. s.next_seqno \in Nat /\ s.bytes_in_flight \in Nat /\ oldest(s) \in Nat
  BY InFlight, Zenon
<1>5. CASE t = s
  BY <1>2, <1>5, OnwardSame, Zenon DEF t
<1>6. CASE t # s
  <2>1. PICK n \in Nat : Sends(s, t, n)
    <3>1. s.receiver_free_space \in Nat
      BY <1>1, SenderAssumption DEF Senders
    <3>2. 1 \in Nat /\ \A n \in 1 .. s.receiver_free_space : n \in Nat
      BY <3>1
    <3> QED BY <1>1, <1>6, <3>2, Zenon DEF Filled
  <2>2. /\ t.next_seqno = s.next_seqno + n /\ t.bytes_in_flight = s.bytes_in_flight + n /\ t.isn = s.isn
        /\ t.consecutive_retransmissions = s.consecutive_retransmissions
    BY <2>1, Zenon DEF Sends
  <2>3. s.next_seqno <= t.next_seqno /\ oldest(s) <= oldest(t) /\ oldest(t) = oldest(s)
    BY <1>4, <2>2 DEF oldest
  <2> QED BY <1>2, <1>3, <1>6, <2>2, <2>3, Zenon DEF Onward, t
<1> QED BY <1>5, <1>6

\* So does an acknowledgment: it only frees numbers from the front, and restarts the count
\* of retransmissions or leaves it alone.
LEMMA AckOnward ==
  ASSUME NEW B, NEW str \in Seq(B), Len(str) + 2 <= HalfSeq, NEW s, SenderHolds(s, str, B),
         NEW ackno \in WrappingInt32, NEW w \in 0 .. WIN_MOD - 1, NEW garbage, NEW lim,
         Confirms(s, ackno, lim)
  PROVE  LET t == ack_received(s, ackno, w, garbage)
         IN /\ SenderHolds(t, str, B) /\ Onward(s, t, lim) /\ t.stream.error = s.stream.error
            /\ t.consecutive_retransmissions \in {0, s.consecutive_retransmissions}
<1> DEFINE t == ack_received(s, ackno, w, garbage)
           x == unwrap(ackno, s.isn, s.next_seqno)
           p == pop_acked(s, x)
           a == acked(s, x, w)
<1>1. Core(s, str, B) /\ Armed(s) /\ s \in Senders(B)
  BY Zenon DEF SenderHolds, Core
<1>2. x \in Nat
  <2>1. s.isn \in WrappingInt32 /\ s.next_seqno \in Nat
    BY <1>1 DEF Senders
  <2> QED BY <2>1, UnwrapNat, Zenon
<1>3. SenderHolds(t, str, B) /\ (t = s \/ (_ack_valid(s, x, garbage) /\ t = fill_window(a)))
  <2>1. LET u == ack_received(s, ackno, w, garbage)
            y == unwrap(ackno, s.isn, s.next_seqno)
        IN /\ SenderHolds(u, str, B)
           /\ \/ u = s
              \/ _ack_valid(s, y, garbage) /\ u = fill_window(acked(s, y, w))
    BY AckReceived
  <2> QED BY <2>1, Zenon
<1> HIDE DEF t, x
<1>4. Core(p, str, B) /\ Popped(s, p, covered(s, x)) /\ p.consecutive_retransmissions \in {0, s.consecutive_retransmissions}
  <2>1. Core(p, str, B) /\ Popped(s, p, covered(s, x))
    BY <1>1, PopAcked, Zenon
  <2>2. \/ p = s
        \/ p.consecutive_retransmissions = 0
    BY <1>1 DEF pop_acked, Senders
  <2> QED BY <2>1, <2>2, Zenon
<1>5. Core(a, str, B) /\ Armed(a)
  BY <1>1, <1>2, Acked, Zenon
<1>6. /\ a.next_seqno = p.next_seqno /\ a.bytes_in_flight = p.bytes_in_flight /\ a.isn = p.isn
      /\ a.fin_sent = p.fin_sent /\ a.stream = p.stream
      /\ a.consecutive_retransmissions = p.consecutive_retransmissions
  <2>1. p \in Senders(B)
    BY <1>4, Zenon DEF Core
  <2> HIDE DEF p
  <2>2. \A v \in Senders(B) : LET u == update_window(v, x, w)
        IN /\ u.next_seqno = v.next_seqno /\ u.bytes_in_flight = v.bytes_in_flight /\ u.isn = v.isn
           /\ u.fin_sent = v.fin_sent /\ u.stream = v.stream
           /\ u.consecutive_retransmissions = v.consecutive_retransmissions
    BY DEF update_window, Senders
  <2> QED BY <2>1, <2>2, Zenon DEF acked, p
<1> HIDE DEF p, a
<1>7. ASSUME _ack_valid(s, x, garbage), oldest(s) <= lim PROVE oldest(p) <= lim
  <2>1. x <= lim /\ lim \in Nat
    BY <1>7, Zenon DEF Confirms, x, _ack_valid
  <2>2. s.bytes_in_flight <= HalfSeq
    <3>1. s.bytes_in_flight \in Nat /\ oldest(s) \in Nat /\ oldest(s) + s.bytes_in_flight = s.next_seqno
          /\ s.next_seqno <= Len(str) + 2
      BY <1>1, InFlight, NextBound, Zenon
    <3>2. HalfSeq \in Nat /\ Len(str) \in Nat
      BY SeqModAssumption, SMT DEF HalfSeq
    <3> QED BY <3>1, <3>2
  <2>3. CASE s.segments_outstanding = << >>
    <3>1. p.next_seqno = s.next_seqno /\ p.bytes_in_flight = s.bytes_in_flight - sizes(<< >>)[covered(s, x)]
          /\ covered(s, x) \in 0 .. 0
      BY <1>4, <2>3 DEF Popped
    <3>2. covered(s, x) = 0 /\ << >> \in Seq(Segments(B))
      BY <3>1
    <3>3. sizes(<< >>)[0] = 0
      BY <3>2, Sizes, Zenon
    <3>4. p.bytes_in_flight = s.bytes_in_flight
      <4>1. p.bytes_in_flight = s.bytes_in_flight - 0 /\ s.bytes_in_flight \in Nat
        BY <1>1, <3>1, <3>2, <3>3, InFlight, Zenon
      <4> QED BY <4>1
    <3> QED BY <1>7, <3>1, <3>4, Zenon DEF oldest
  <2>4. CASE s.segments_outstanding # << >>
    <3>1. oldest(s) <= x
      <4>1. x >= abs_start(s, Head(s.segments_outstanding))
        BY <1>7, <2>4, Zenon DEF _ack_valid
      <4>2. abs_start(s, Head(s.segments_outstanding)) = oldest(s)
        <5> DEFINE out == s.segments_outstanding
        <5>1. out \in Seq(Segments(B))
          BY <1>1 DEF Senders
        <5> HIDE DEF out
        <5>2. 1 \in 1 .. Len(out) /\ Head(out) = out[1]
          BY <2>4, <5>1, SMTT(20) DEF out
        <5>3. abs_start(s, out[1]) = oldest(s) + sizes(out)[1 - 1]
          BY <1>1, <2>2, <5>2, Places, SMTT(20) DEF out
        <5>4. sizes(out)[0] = 0 /\ oldest(s) \in Nat /\ 1 - 1 = 0
          BY <1>1, <5>1, Sizes, InFlight, SMTT(20)
        <5> QED BY <5>2, <5>3, <5>4 DEF out
      <4>3. oldest(s) \in Nat
        BY <1>1, InFlight, Zenon
      <4> QED BY <1>2, <4>1, <4>2, <4>3
    <3>2. oldest(p) <= x
      <4>1. LET u == pop_acked(s, x) IN oldest(u) <= x
        BY <1>1, <1>2, <2>2, <3>1, PopKeeps
      <4> QED BY <4>1, Zenon DEF p
    <3>3. oldest(p) \in Nat
      BY <1>4, InFlight, Zenon
    <3> QED BY <1>2, <2>1, <3>2, <3>3
  <2> QED BY <2>3, <2>4, Zenon
<1>8. ASSUME _ack_valid(s, x, garbage) PROVE Onward(s, a, lim)
  <2> DEFINE out == s.segments_outstanding
             n == covered(s, x)
             k == sizes(out)[n]
  <2>1. /\ p.bytes_in_flight = s.bytes_in_flight - k /\ p.next_seqno = s.next_seqno /\ p.isn = s.isn
        /\ p.fin_sent = s.fin_sent /\ n \in 0 .. Len(out)
    BY <1>4, Zenon DEF Popped
  <2>2. k \in Nat
    <3>1. out \in Seq(Segments(B))
      BY <1>1 DEF Senders
    <3>2. sizes(out) \in [0 .. Len(out) -> Nat]
      BY <3>1, Sizes, Zenon
    <3> QED BY <2>1, <3>2, Zenon
  <2>3. s.next_seqno \in Nat /\ s.bytes_in_flight \in Nat /\ oldest(s) = s.next_seqno - s.bytes_in_flight
    BY <1>1, InFlight, Zenon DEF oldest
  <2> HIDE DEF k
  <2>4. oldest(a) = s.next_seqno - (s.bytes_in_flight - k)
    BY <1>6, <2>1, Zenon DEF oldest
  <2>5. s.next_seqno <= s.next_seqno /\ oldest(s) <= oldest(a) /\ s.bytes_in_flight - k <= s.bytes_in_flight
    BY <2>2, <2>3, <2>4
  <2>6. oldest(s) <= lim => oldest(a) <= lim
    BY <1>6, <1>7, <1>8, Zenon DEF oldest
  <2> QED BY <1>6, <2>1, <2>5, <2>6, Zenon DEF Onward
<1>9. CASE t = s
  BY <1>1, <1>3, <1>9, OnwardSame, Zenon DEF t
<1>10. CASE _ack_valid(s, x, garbage) /\ t = fill_window(a)
  <2>1. Onward(a, t, lim) /\ t.stream.error = a.stream.error
        /\ t.consecutive_retransmissions = a.consecutive_retransmissions
    <3>1. LET u == fill_window(a)
          IN Onward(a, u, lim) /\ u.stream.error = a.stream.error
             /\ u.consecutive_retransmissions = a.consecutive_retransmissions
      BY <1>5, FillOnward, Zenon
    <3> QED BY <1>10, <3>1, Zenon
  <2>2. Core(t, str, B)
    BY <1>3, Zenon DEF SenderHolds
  <2>3. Onward(s, t, lim)
    BY <1>1, <1>5, <1>8, <1>10, <2>1, <2>2, OnwardOn, Zenon
  <2>4. a.stream = s.stream
    BY <1>4, <1>6, Zenon DEF Popped
  <2> QED BY <1>3, <1>4, <1>6, <2>1, <2>3, <2>4, Zenon DEF t
<1> QED BY <1>3, <1>9, <1>10, Zenon

\* From s to t without an error, counting a retransmission only if one is queued.
Repeats(s, t, str, B, lim) ==
  /\ SenderHolds(t, str, B) /\ Onward(s, t, lim) /\ t.stream.error = s.stream.error
  /\ t.consecutive_retransmissions = s.consecutive_retransmissions \/ t.segments_out # << >>

\* tick sends nothing new.
LEMMA TickRepeats ==
  ASSUME NEW B, NEW str \in Seq(B), NEW s, SenderHolds(s, str, B), NEW ms \in Nat, NEW lim
  PROVE  Repeats(s, sender_tick(s, ms), str, B, lim)
<1> DEFINE t == sender_tick(s, ms)
           elapsed == s.time_elapsed + ms
<1>1. Core(s, str, B) /\ s \in Senders(B) /\ s.segments_out \in Seq(Segments(B))
  <2>1. s \in Senders(B) /\ Core(s, str, B)
    BY Zenon DEF SenderHolds, Core
  <2> QED BY <2>1 DEF Senders
<1>2. /\ SenderHolds(t, str, B) /\ t.isn = s.isn /\ t.next_seqno = s.next_seqno
      /\ t.bytes_in_flight = s.bytes_in_flight
  <2>1. LET u == sender_tick(s, ms)
        IN /\ SenderHolds(u, str, B) /\ u.isn = s.isn /\ u.initial_rto = s.initial_rto
           /\ u.next_seqno = s.next_seqno /\ u.bytes_in_flight = s.bytes_in_flight
    BY SenderTick
  <2> QED BY <2>1, Zenon
<1>3. t = s \/ t = [s EXCEPT !.time_elapsed = elapsed] \/ t = retransmit(s)
  <2>1. elapsed \in Nat /\ s.rto \in Nat /\ s.timer_running \in BOOLEAN
    BY <1>1, SMTT(20) DEF Senders
  <2>2. (elapsed < s.rto \/ elapsed >= s.rto) /\ ~(elapsed < s.rto /\ elapsed >= s.rto)
    BY <2>1
  <2> QED BY <2>2, Zenon DEF sender_tick
<1> HIDE DEF t
<1>4. /\ t.stream = s.stream /\ t.fin_sent = s.fin_sent
      /\ \/ t.consecutive_retransmissions = s.consecutive_retransmissions
         \/ t.segments_out # << >>
  <2>1. CASE t = s
    BY <2>1, Zenon
  <2>2. CASE t = [s EXCEPT !.time_elapsed = elapsed]
    BY <1>1, <2>2 DEF Senders
  <2>3. CASE t = retransmit(s)
    <3>1. /\ t.stream = s.stream /\ t.fin_sent = s.fin_sent
          /\ t.segments_out = Append(s.segments_out, Head(s.segments_outstanding))
      BY <1>1, <2>3 DEF Senders, retransmit
    <3>2. t.segments_out # << >>
      BY <1>1, <3>1, SMTT(20)
    <3> QED BY <3>1, <3>2, Zenon
  <2> QED BY <1>3, <2>1, <2>2, <2>3, Zenon
<1>5. Onward(s, t, lim)
  BY <1>1, <1>2, <1>4, OnwardSame, Zenon
<1> QED BY <1>2, <1>4, <1>5, Zenon DEF t, Repeats

\* What the connection does to the queue of segments is none of the counters' business.
LEMMA RequeueOnward ==
  ASSUME NEW B, NEW str, NEW s, Core(s, str, B), NEW q, NEW lim
  PROVE  LET t == [s EXCEPT !.segments_out = q]
         IN /\ Onward(s, t, lim) /\ t.stream = s.stream /\ t.segments_out = q
            /\ t.consecutive_retransmissions = s.consecutive_retransmissions
<1> DEFINE t == [s EXCEPT !.segments_out = q]
<1>1. /\ t.isn = s.isn /\ t.next_seqno = s.next_seqno /\ t.bytes_in_flight = s.bytes_in_flight
      /\ t.fin_sent = s.fin_sent /\ t.stream = s.stream /\ t.segments_out = q
      /\ t.consecutive_retransmissions = s.consecutive_retransmissions
  BY DEF Core, Senders
<1> HIDE DEF t
<1>2. Onward(s, t, lim)
  BY <1>1, OnwardSame, Zenon
<1> QED BY <1>1, <1>2, Zenon DEF t

\* send_empty_segment queues a segment.
LEMMA EmptyOnward ==
  ASSUME NEW B, NEW str \in Seq(B), NEW s, SenderHolds(s, str, B), NEW lim
  PROVE  LET t == send_empty_segment(s)
         IN /\ SenderHolds(t, str, B) /\ Onward(s, t, lim) /\ t.stream = s.stream /\ t.segments_out # << >>
            /\ t.consecutive_retransmissions = s.consecutive_retransmissions
<1> DEFINE t == send_empty_segment(s)
           seg == next_segment(s, 0, FALSE, FALSE, <<>>)
           q == Append(s.segments_out, seg)
<1>1. SenderHolds(t, str, B) /\ t = [s EXCEPT !.segments_out = q]
  BY SendEmpty, Zenon DEF send_empty_segment
<1>2. Core(s, str, B) /\ s.segments_out \in Seq(Segments(B))
  BY DEF SenderHolds, Core, Senders
<1> HIDE DEF seg
<1>3. q # << >>
  BY <1>2
<1> HIDE DEF t, q
<1>4. /\ Onward(s, t, lim) /\ t.stream = s.stream /\ t.segments_out = q
      /\ t.consecutive_retransmissions = s.consecutive_retransmissions
  <2>1. LET u == [s EXCEPT !.segments_out = q]
        IN /\ Onward(s, u, lim) /\ u.stream = s.stream /\ u.segments_out = q
           /\ u.consecutive_retransmissions = s.consecutive_retransmissions
    BY <1>2, RequeueOnward, Zenon
  <2> QED BY <1>1, <2>1, Zenon
<1> QED BY <1>1, <1>3, <1>4, Zenon DEF t

\* Changing the stream leaves the counters alone.
LEMMA RestreamOnward ==
  ASSUME NEW B, NEW str, NEW s, Core(s, str, B), NEW o
  PROVE  LET t == [s EXCEPT !.stream = o]
         IN /\ (\A lim : Onward(s, t, lim)) /\ t.stream = o /\ t.segments_out = s.segments_out
            /\ t.consecutive_retransmissions = s.consecutive_retransmissions
            /\ t.segments_outstanding = s.segments_outstanding
            /\ t.syn_sent = s.syn_sent /\ t.fin_sent = s.fin_sent
<1> DEFINE t == [s EXCEPT !.stream = o]
<1>1. /\ t.isn = s.isn /\ t.next_seqno = s.next_seqno /\ t.bytes_in_flight = s.bytes_in_flight
      /\ t.fin_sent = s.fin_sent /\ t.stream = o /\ t.segments_out = s.segments_out
      /\ t.consecutive_retransmissions = s.consecutive_retransmissions
      /\ t.segments_outstanding = s.segments_outstanding /\ t.syn_sent = s.syn_sent
  BY DEF Core, Senders
<1> HIDE DEF t
<1>2. \A lim : Onward(s, t, lim)
  BY <1>1, OnwardSame, Zenon
<1> QED BY <1>1, <1>2, Zenon DEF t

\* set_error on the outbound stream leaves the sender as it was.
LEMMA SenderError ==
  ASSUME NEW B, NEW str \in Seq(B), NEW s, SenderHolds(s, str, B), NEW lim
  PROVE  LET t == [s EXCEPT !.stream = set_error(@)]
         IN /\ SenderHolds(t, str, B) /\ Onward(s, t, lim) /\ t.stream.error = TRUE
            /\ t.segments_out = s.segments_out
            /\ t.consecutive_retransmissions = s.consecutive_retransmissions
<1> DEFINE o == set_error(s.stream)
           t == [s EXCEPT !.stream = o]
<1>1. /\ Core(s, str, B) /\ Armed(s) /\ Busy(s) /\ s.stream \in ByteStreams(B) /\ Outbound(s.stream, str)
      /\ s.fin_sent => eof(s.stream)
  <2>1. Core(s, str, B) /\ Armed(s) /\ Busy(s) /\ s \in Senders(B) /\ Outbound(s.stream, str)
        /\ (s.fin_sent => eof(s.stream))
    BY Zenon DEF SenderHolds, Core, Counted
  <2>2. s.stream \in ByteStreams(B)
    BY <2>1 DEF Senders
  <2> QED BY <2>1, <2>2, Zenon
<1>2. /\ o \in ByteStreams(B) /\ Outbound(o, str) /\ o.nread = s.stream.nread /\ (eof(s.stream) => eof(o))
      /\ o.input_ended = s.stream.input_ended /\ o.buffer = s.stream.buffer
  <2>1. \A x \in ByteStreams(B) : Outbound(x, str) =>
          LET p == set_error(x)
          IN /\ p \in ByteStreams(B) /\ Outbound(p, str) /\ p.nread = x.nread /\ (eof(x) => eof(p))
             /\ p.nwritten = x.nwritten /\ p.input_ended = x.input_ended /\ p.buffer = x.buffer
    BY ErrorOut
  <2> QED BY <1>1, <2>1, Zenon
<1>3. o.error = TRUE
  BY <1>1 DEF set_error, ByteStreams
<1> HIDE DEF o
<1>4. Core(t, str, B) /\ Armed(t)
  <2>1. LET u == [s EXCEPT !.stream = o] IN Core(u, str, B) /\ Armed(u)
    BY <1>1, <1>2, Restream
  <2> QED BY <2>1, Zenon
<1>5. /\ Onward(s, t, lim) /\ t.stream = o /\ t.segments_out = s.segments_out
      /\ t.consecutive_retransmissions = s.consecutive_retransmissions
      /\ t.segments_outstanding = s.segments_outstanding
      /\ t.syn_sent = s.syn_sent /\ t.fin_sent = s.fin_sent
  <2>1. LET u == [s EXCEPT !.stream = o]
        IN /\ (\A l : Onward(s, u, l)) /\ u.stream = o /\ u.segments_out = s.segments_out
           /\ u.consecutive_retransmissions = s.consecutive_retransmissions
           /\ u.segments_outstanding = s.segments_outstanding
           /\ u.syn_sent = s.syn_sent /\ u.fin_sent = s.fin_sent
    BY <1>1, RestreamOnward, Zenon
  <2> QED BY <2>1, Zenon
<1>6. Busy(t)
  <2> HIDE DEF t
  <2> QED BY <1>1, <1>2, <1>5, Zenon DEF Busy, buffer_empty, buffer_size
<1>7. [s EXCEPT !.stream = set_error(@)] = t
  BY DEF o
<1> HIDE DEF t
<1> QED BY <1>3, <1>4, <1>5, <1>6, <1>7, Zenon DEF SenderHolds

\* The application has changed the outbound stream and fill_window follows.
LEMMA RefillOnward ==
  ASSUME NEW B, NEW str \in Seq(B), NEW s, SenderHolds(s, str, B), NEW o \in ByteStreams(B),
         Outbound(o, str), o.nread = s.stream.nread, s.fin_sent => eof(o), o.error = s.stream.error,
         NEW lim
  PROVE  Serves(s, fill_window([s EXCEPT !.stream = o]), str, B, lim)
<1> DEFINE u == [s EXCEPT !.stream = o]
           t == fill_window(u)
<1>1. Core(s, str, B) /\ Armed(s) /\ s \in Senders(B)
  BY Zenon DEF SenderHolds, Core
<1>2. Core(u, str, B) /\ Armed(u)
  <2>1. LET v == [s EXCEPT !.stream = o] IN Core(v, str, B) /\ Armed(v)
    BY <1>1, Restream
  <2> QED BY <2>1, Zenon
<1>3. /\ u.isn = s.isn /\ u.next_seqno = s.next_seqno /\ u.bytes_in_flight = s.bytes_in_flight
      /\ u.fin_sent = s.fin_sent /\ u.stream = o
      /\ u.consecutive_retransmissions = s.consecutive_retransmissions
  BY <1>1 DEF Senders
<1> HIDE DEF u
<1>4. /\ Onward(u, t, lim) /\ t.stream.error = u.stream.error
      /\ t.consecutive_retransmissions = u.consecutive_retransmissions
  <2>1. LET v == fill_window(u)
        IN /\ Onward(u, v, lim) /\ v.stream.error = u.stream.error
           /\ v.consecutive_retransmissions = u.consecutive_retransmissions
    BY <1>2, FillOnward, Zenon
  <2> QED BY <2>1, Zenon
<1>5. SenderHolds(t, str, B) /\ Core(t, str, B)
  BY <1>2, FillWindow, Zenon DEF SenderHolds
<1>6. Onward(s, t, lim)
  <2> HIDE DEF t
  <2>1. Onward(s, u, lim)
    BY <1>1, <1>3, OnwardSame, Zenon
  <2> QED BY <1>1, <1>2, <1>4, <1>5, <2>1, OnwardOn, Zenon
<1> QED BY <1>3, <1>4, <1>5, <1>6, Zenon DEF Serves, u

\* Writing and ending set no error.
LEMMA WriteError ==
  ASSUME NEW B, NEW o \in ByteStreams(B), NEW data
  PROVE  write(o, data).error = o.error /\ end_input(o).error = o.error
BY DEF write, end_input, ByteStreams

\* The pieces of SYN, str and FIN that acknowledge one of the numbers in A, and reset the
\* connection only if fail.
Pieces(isn, str, B, A, fail) ==
  {seg \in Segments(B) : /\ seg.ackno \in A /\ (seg.rst => fail)
                         /\ \E a \in Nat : Piece(seg, a, isn, str)}

\* A piece stays one whatever it acknowledges.
LEMMA Restamp ==
  ASSUME NEW B, NEW str, NEW isn, NEW A, NEW fail, NEW seg \in Pieces(isn, str, B, A, fail), NEW k \in WrappingInt32,
         NEW w \in 0 .. WIN_MOD - 1
  PROVE  /\ [seg EXCEPT !.ack = TRUE, !.ackno = k, !.win = w] \in Pieces(isn, str, B, {k}, fail)
         /\ [seg EXCEPT !.ack = TRUE, !.rst = TRUE, !.win = w] \in Pieces(isn, str, B, A, TRUE)
<1>1. ASSUME NEW t \in Segments(B), t.seqno = seg.seqno, t.syn = seg.syn, t.fin = seg.fin,
             t.payload = seg.payload
      PROVE  t \in Pieces(isn, str, B, {t.ackno}, t.rst)
  <2>1. length_in_sequence_space(t) = length_in_sequence_space(seg)
    BY <1>1, Zenon DEF length_in_sequence_space
  <2> QED BY <1>1, <2>1, Zenon DEF Pieces, Piece
<1> DEFINE t == [seg EXCEPT !.ack = TRUE, !.ackno = k, !.win = w]
           r == [seg EXCEPT !.ack = TRUE, !.rst = TRUE, !.win = w]
<1>2. seg \in Segments(B) /\ seg.ackno \in A /\ (seg.rst => fail)
  BY Zenon DEF Pieces
<1>3. /\ t \in Segments(B) /\ t.seqno = seg.seqno /\ t.syn = seg.syn /\ t.fin = seg.fin
      /\ t.payload = seg.payload /\ t.ackno = k /\ t.rst = seg.rst
      /\ r \in Segments(B) /\ r.seqno = seg.seqno /\ r.syn = seg.syn /\ r.fin = seg.fin
      /\ r.payload = seg.payload /\ r.ackno = seg.ackno
  BY <1>2, Zenon DEF Segments
<1> HIDE DEF t, r
<1>4. t \in Pieces(isn, str, B, {k}, t.rst) /\ r \in Pieces(isn, str, B, {seg.ackno}, r.rst)
  BY <1>1, <1>3, Zenon
<1> QED BY <1>2, <1>3, <1>4, Zenon DEF t, r, Pieces

\* What the sender has queued are pieces that acknowledge and reset nothing.
LEMMA SendersQueue ==
  ASSUME NEW B, NEW str, NEW s, SenderHolds(s, str, B)
  PROVE  s.segments_out \in Seq(Pieces(s.isn, str, B, {0}, FALSE))
<1> DEFINE q == s.segments_out
           P == Pieces(s.isn, str, B, {0}, FALSE)
<1>1. Queued(s, str) /\ q \in Seq(Segments(B))
  BY DEF SenderHolds, Core, Senders
<1>2. \A i \in 1 .. Len(q) : q[i] \in Segments(B)
  BY <1>1
<1>3. \A i \in 1 .. Len(q) : q[i] \in P
  BY <1>1, <1>2, Zenon DEF Queued, Fresh, Pieces
<1> HIDE DEF q, P
<1>4. q \in Seq(P)
  BY <1>1, <1>3
<1> QED BY <1>4, Zenon DEF q, P

\* The connection takes the segments of the sender, or all but the front.
LEMMA TakenServes ==
  ASSUME NEW B, NEW str, NEW s, SenderHolds(s, str, B), NEW q \in Seq(Pieces(s.isn, str, B, {0}, FALSE)), NEW lim
  PROVE  Serves(s, [s EXCEPT !.segments_out = q], str, B, lim)
<1> DEFINE P == Pieces(s.isn, str, B, {0}, FALSE)
<1>1. Core(s, str, B)
  BY Zenon DEF SenderHolds
<1>2. SenderHolds([s EXCEPT !.segments_out = q], str, B)
  <2>1. \A seg \in P : seg \in Segments(B) /\ \E a \in Nat : Fresh(seg, a, s.isn, str)
    BY Zenon DEF Pieces, Fresh
  <2>2. q \in Seq(P)
    BY Zenon
  <2> HIDE DEF P
  <2>3. q \in Seq(Segments(B)) /\ \A i \in 1 .. Len(q) : q[i] \in P
    BY <2>1, <2>2
  <2>4. \A i \in 1 .. Len(q) : \E a \in Nat : Fresh(q[i], a, s.isn, str)
    BY <2>1, <2>3, Zenon
  <2> QED BY <2>3, <2>4, Requeue, Zenon
<1>3. LET t == [s EXCEPT !.segments_out = q]
      IN /\ Onward(s, t, lim) /\ t.stream = s.stream /\ t.segments_out = q
         /\ t.consecutive_retransmissions = s.consecutive_retransmissions
  BY <1>1, RequeueOnward, Zenon
<1> QED BY <1>2, <1>3, Zenon DEF Serves

\* fill_window, ack_received and send_empty_segment serve.
LEMMA StepServes ==
  ASSUME NEW B, NEW str \in Seq(B), NEW s, SenderHolds(s, str, B), NEW lim
  PROVE  /\ Serves(s, s, str, B, lim) /\ Serves(s, fill_window(s), str, B, lim)
         /\ Serves(s, send_empty_segment(s), str, B, lim)
         /\ send_empty_segment(s).segments_out # << >> /\ fill_window(s).next_seqno # 0
         /\ \A garbage : \A ackno \in WrappingInt32, w \in 0 .. WIN_MOD - 1 :
              Len(str) + 2 < HalfSeq /\ Confirms(s, ackno, lim) =>
                Serves(s, ack_received(s, ackno, w, garbage), str, B, lim)
<1>1. Core(s, str, B) /\ Armed(s) /\ Busy(s)
  BY Zenon DEF SenderHolds
<1>2. Serves(s, s, str, B, lim)
  BY <1>1, OnwardSame, Zenon DEF Serves
<1>3. Serves(s, fill_window(s), str, B, lim)
  <2>1. LET t == fill_window(s)
        IN /\ Onward(s, t, lim) /\ t.stream.error = s.stream.error
           /\ t.consecutive_retransmissions = s.consecutive_retransmissions
    BY <1>1, FillOnward, Zenon
  <2>2. SenderHolds(fill_window(s), str, B)
    BY <1>1, FillWindow, Zenon DEF SenderHolds
  <2> QED BY <2>1, <2>2, Zenon DEF Serves
<1>4. Serves(s, send_empty_segment(s), str, B, lim) /\ send_empty_segment(s).segments_out # << >>
  <2>1. LET t == send_empty_segment(s)
        IN /\ SenderHolds(t, str, B) /\ Onward(s, t, lim) /\ t.stream = s.stream /\ t.segments_out # << >>
           /\ t.consecutive_retransmissions = s.consecutive_retransmissions
    BY EmptyOnward, Zenon
  <2> QED BY <2>1, Zenon DEF Serves
<1>5. ASSUME NEW ackno \in WrappingInt32, NEW w \in 0 .. WIN_MOD - 1, NEW garbage,
             Len(str) + 2 < HalfSeq, Confirms(s, ackno, lim)
      PROVE  Serves(s, ack_received(s, ackno, w, garbage), str, B, lim)
  <2>1. Len(str) + 2 <= HalfSeq
    <3>1. HalfSeq \in Nat /\ Len(str) \in Nat
      BY SeqModAssumption DEF HalfSeq
    <3> QED BY <1>5, <3>1
  <2>2. LET t == ack_received(s, ackno, w, garbage)
        IN /\ SenderHolds(t, str, B) /\ Onward(s, t, lim) /\ t.stream.error = s.stream.error
           /\ t.consecutive_retransmissions \in {0, s.consecutive_retransmissions}
    BY <1>5, <2>1, AckOnward, Zenon
  <2> QED BY <2>2, Zenon DEF Serves
<1>6. fill_window(s).next_seqno # 0
  <2>1. Core(fill_window(s), str, B) /\ fill_window(s).syn_sent = TRUE
    BY <1>1, FillWindow, Zenon DEF SenderHolds
  <2> DEFINE t == fill_window(s)
  <2> HIDE DEF t
  <2>2. t \in Senders(B) /\ t.syn_sent = TRUE /\ Counted(t)
    BY <2>1, Zenon DEF Core, t
  <2>3. t.stream.nread \in Nat /\ t.fin_sent \in BOOLEAN
    BY <2>2 DEF Senders, ByteStreams
  <2>4. t.next_seqno = bit(t.syn_sent) + t.stream.nread + bit(t.fin_sent)
    BY <2>2, Zenon DEF Counted
  <2>5. t.next_seqno # 0
    BY <2>2, <2>3, <2>4 DEF bit
  <2> QED BY <2>5, Zenon DEF t
<1> QED BY <1>2, <1>3, <1>4, <1>5, <1>6, Zenon

\* The application writes the next bytes of its stream, and the window is filled.
LEMMA WriteServes ==
  ASSUME NEW B, NEW str \in Seq(B), NEW s, SenderHolds(s, str, B), ~s.stream.input_ended,
         NEW len \in Nat \ {0}, s.stream.nwritten + len <= Len(str), NEW lim
  PROVE  Serves(s, fill_window([s EXCEPT !.stream =
                                  write(@, SubSeq(str, s.stream.nwritten + 1, s.stream.nwritten + len))]), str, B, lim)
<1> DEFINE o == s.stream
           n == o.nwritten
           data == SubSeq(str, n + 1, n + len)
           p == write(o, data)
<1>1. o \in ByteStreams(B) /\ Outbound(o, str) /\ ~s.fin_sent /\ ~o.input_ended
  BY Zenon DEF SenderHolds, Core, Senders, Counted, eof
<1>2. n \in Nat /\ len \in Nat /\ len > 0 /\ n + len <= Len(str) /\ str \in Seq(B)
  BY <1>1 DEF ByteStreams
<1> HIDE DEF o, n
<1>3. data \in Seq(B) /\ Len(data) = len /\ \A k \in 1 .. Len(data) : data[k] = str[n + k]
  <2> DEFINE a == n + 1
             b == n + len
  <2>1. a \in Int /\ b \in Int /\ a <= b /\ b - a + 1 = len /\ \A i \in a .. b : i \in 1 .. Len(str)
    BY <1>2
  <2>2. \A k \in 1 .. len : a + k - 1 = n + k
    BY <1>2
  <2>3. data = SubSeq(str, a, b)
    OBVIOUS
  <2> HIDE DEF data, a, b
  <2>4. \A i \in a .. b : str[i] \in B
    BY <1>2, <2>1
  <2>5. /\ data \in Seq(B) /\ Len(data) = IF a <= b THEN b - a + 1 ELSE 0
        /\ \A i \in 1 .. b - a + 1 : data[i] = str[a + i - 1]
    BY <2>1, <2>3, <2>4, SliceOf
  <2> QED BY <2>1, <2>2, <2>5
<1> HIDE DEF data
<1>4. p \in ByteStreams(B) /\ Outbound(p, str) /\ p.nread = o.nread /\ p.error = o.error
  <2>1. LET x == write(o, data) IN x \in ByteStreams(B) /\ Outbound(x, str) /\ x.nread = o.nread
    BY <1>1, <1>2, <1>3, WriteOut, SMTT(20) DEF n
  <2> QED BY <1>1, <2>1, WriteError, ZenonT(30)
<1> HIDE DEF p
<1>5. Serves(s, fill_window([s EXCEPT !.stream = p]), str, B, lim)
  BY <1>1, <1>4, RefillOnward, Zenon DEF o
<1> QED BY <1>5, Zenon DEF p, data, n, o

\* The application has written all and ends the stream.
LEMMA EndServes ==
  ASSUME NEW B, NEW str \in Seq(B), NEW s, SenderHolds(s, str, B), s.stream.nwritten = Len(str), NEW lim
  PROVE  Serves(s, fill_window([s EXCEPT !.stream = end_input(@)]), str, B, lim)
<1> DEFINE o == s.stream
           p == end_input(o)
<1>1. o \in ByteStreams(B) /\ Outbound(o, str) /\ (s.fin_sent => eof(o))
  BY Zenon DEF SenderHolds, Core, Senders, Counted
<1>2. p \in ByteStreams(B) /\ Outbound(p, str) /\ p.nread = o.nread /\ p.error = o.error /\ (eof(o) => eof(p))
  <2>1. LET x == end_input(o) IN x \in ByteStreams(B) /\ Outbound(x, str) /\ x.nread = o.nread /\ (eof(o) => eof(x))
    BY <1>1, EndOut, Zenon
  <2> QED BY <1>1, <2>1, WriteError, Zenon
<1> HIDE DEF p
<1>3. Serves(s, fill_window([s EXCEPT !.stream = p]), str, B, lim)
  BY <1>1, <1>2, RefillOnward, Zenon DEF o
<1> QED BY <1>3, Zenon DEF p, o

\* How far a sender has come: nothing sent, SYN not acknowledged, FIN not sent, not acknowledged.
Place(s) ==
  IF s.stream.error THEN 5 ELSE IF s.next_seqno = 0 THEN 0 ELSE IF oldest(s) = 0 THEN 1
  ELSE IF ~s.fin_sent THEN 2 ELSE IF s.bytes_in_flight > 0 THEN 3 ELSE 4

\* No operation takes a sender back.
LEMMA PlaceOnward ==
  ASSUME NEW B, NEW str, NEW s, Core(s, str, B), NEW t, Core(t, str, B), NEW lim, Onward(s, t, lim),
         s.stream.error => t.stream.error
  PROVE  Place(s) <= Place(t)
<1> DEFINE a == s.next_seqno
           b == t.next_seqno
           m == s.bytes_in_flight
           n == t.bytes_in_flight
           f == s.fin_sent
           g == t.fin_sent
           x == s.stream.error
           y == t.stream.error
           p == oldest(s)
           q == oldest(t)
<1>1. /\ a \in Nat /\ b \in Nat /\ m \in Nat /\ n \in Nat /\ p = a - m /\ q = b - n
      /\ a <= b /\ p <= q /\ (f => g /\ n <= m) /\ (x => y)
      /\ f \in BOOLEAN /\ g \in BOOLEAN /\ x \in BOOLEAN /\ y \in BOOLEAN
  BY ZenonT(30) DEF Core, Senders, ByteStreams, Onward, oldest
<1>2. p >= 0
  BY <1>1, InFlight DEF Core
<1>3. Place(s) = (IF x THEN 5 ELSE IF a = 0 THEN 0 ELSE IF p = 0 THEN 1 ELSE IF ~f THEN 2 ELSE IF m > 0 THEN 3 ELSE 4)
  BY Zenon DEF Place
<1>4. Place(t) = (IF y THEN 5 ELSE IF b = 0 THEN 0 ELSE IF q = 0 THEN 1 ELSE IF ~g THEN 2 ELSE IF n > 0 THEN 3 ELSE 4)
  BY Zenon DEF Place
<1> HIDE DEF a, b, m, n, f, g, x, y, p, q
<1> QED BY <1>1, <1>2, <1>3, <1>4, SMTT(20)

\* The FIN has gone once the stream is read to its end and all of it is numbered.
LEMMA FinPlace ==
  ASSUME NEW B, NEW str, NEW s, Core(s, str, B), s.next_seqno # 0
  PROVE  s.fin_sent <=> eof(s.stream) /\ ~(s.next_seqno < s.stream.nwritten + 2)
<1> DEFINE a == s.next_seqno
           f == s.fin_sent
           o == s.stream
           r == o.nread
           w == o.nwritten
           l == Len(o.buffer)
<1>1. /\ a \in Nat /\ f \in BOOLEAN /\ r \in Nat /\ w \in Nat /\ l \in Nat /\ r + l = w
      /\ a = bit(s.syn_sent) + r + bit(f) /\ (f => eof(o)) /\ s.syn_sent
  BY SMTT(20) DEF Core, Senders, ByteStreams, Counted, Outbound
<1>2. eof(o) => l = 0
  BY Zenon DEF eof, buffer_empty, buffer_size
<1>3. bit(s.syn_sent) = 1 /\ (f => bit(f) = 1) /\ (~f => bit(f) = 0)
  BY <1>1 DEF bit
<1> HIDE DEF a, f, o, r, w, l
<1>4. f <=> eof(o) /\ ~(a < w + 2)
  <2> DEFINE i == bit(s.syn_sent)
             k == bit(f)
  <2>1. a \in Nat /\ r \in Nat /\ w \in Nat /\ l \in Nat /\ r + l = w /\ a = i + r + k /\ i = 1
    BY <1>1, <1>3, Zenon
  <2> HIDE DEF i, k
  <2>2. l = 0 /\ k = 1 => ~(a < w + 2)
    BY <2>1
  <2>3. l = 0 /\ k = 0 => a < w + 2
    BY <2>1
  <2> QED BY <1>1, <1>2, <1>3, <2>2, <2>3, Zenon DEF k
<1> QED BY <1>4, Zenon DEF a, f, o, w

\* A sender that has sent something, or has all acknowledged, stays one that has.
LEMMA OnwardStays ==
  ASSUME NEW B, NEW str, NEW s, SenderHolds(s, str, B), NEW t, SenderHolds(t, str, B), NEW lim, Onward(s, t, lim)
  PROVE  /\ s.next_seqno # 0 => t.next_seqno # 0
         /\ s.fin_sent /\ s.bytes_in_flight = 0 => t.fin_sent /\ t.bytes_in_flight = 0
<1>1. /\ s.next_seqno \in Nat /\ t.next_seqno \in Nat /\ t.bytes_in_flight \in Nat
      /\ s.next_seqno <= t.next_seqno /\ (s.fin_sent => t.fin_sent /\ t.bytes_in_flight <= s.bytes_in_flight)
  BY InFlight, Zenon DEF Onward, SenderHolds
<1> QED BY <1>1

\* What a peer may put in the acknowledgment field that has heard the numbers below h: nothing
\* yet, or where one of them ends.
acknos(isn, h) == {0} \cup {wrap(k, isn) : k \in 1 .. h}

\* Such a field is taken for no more than the peer has heard, if none of the sender's own
\* numbers wraps to the 0 of a segment that acknowledges nothing.
LEMMA AckConfirms ==
  ASSUME NEW B, NEW str \in Seq(B), Len(str) + 2 < HalfSeq, NEW s, Core(s, str, B),
         \A n \in 1 .. Len(str) + 2 : wrap(n, s.isn) # 0,
         NEW h \in 0 .. Len(str) + 2, NEW k \in acknos(s.isn, h)
  PROVE  Confirms(s, k, h)
<1> DEFINE x == unwrap(k, s.isn, s.next_seqno)
           N == Len(str) + 2
<1>1. s.isn \in WrappingInt32 /\ s.next_seqno \in 0 .. N /\ N \in Nat /\ h \in Nat /\ h <= N
  <2>1. s \in Senders(B) /\ s.next_seqno \in Nat /\ s.next_seqno <= N
    BY NextBound, Zenon DEF Core
  <2> QED BY <2>1 DEF Senders
<1> HIDE DEF N
<1>2. CASE k = 0
  <2>1. 0 \in WrappingInt32
    BY SeqModAssumption DEF WrappingInt32
  <2>2. x \in Nat /\ wrap(x, s.isn) = 0
    <3>1. k \in WrappingInt32 /\ s.next_seqno \in Nat
      BY <1>1, <1>2, <2>1
    <3>2. ClosestUnwrap(k, s.isn, s.next_seqno)
      BY <1>1, <3>1, UnwrapClosest, Zenon
    <3> QED BY <1>2, <3>2, Zenon DEF ClosestUnwrap
  <2> HIDE DEF x
  <2>3. x <= s.next_seqno => x = 0
    <3>1. ~(x \in 1 .. N)
      BY <2>2, Zenon DEF N
    <3> QED BY <1>1, <2>2, <3>1
  <2>4. x <= s.next_seqno => x <= h
    BY <1>1, <2>3
  <2> QED BY <1>1, <2>4, Zenon DEF Confirms, x
<1>3. ASSUME NEW j \in 1 .. h, k = wrap(j, s.isn) PROVE Confirms(s, k, h)
  <2>1. j \in Nat /\ j <= h /\ j < s.next_seqno + HalfSeq /\ s.next_seqno <= j + HalfSeq
    <3>1. N < HalfSeq /\ HalfSeq \in Nat
      BY SeqModAssumption, SMT DEF N, HalfSeq
    <3> QED BY <1>1, <3>1
  <2>2. x = j
    BY <1>1, <1>3, <2>1, UnwrapWrap
  <2> QED BY <1>1, <2>1, <2>2, Zenon DEF Confirms, x
<1> QED BY <1>2, <1>3, Zenon DEF acknos

\* A sender with nothing in flight at the end of the stream has sent the FIN, and then all is
\* acknowledged: the SYN, the stream and the FIN.
LEMMA AllAcked ==
  ASSUME NEW B, NEW str \in Seq(B), NEW s, SenderHolds(s, str, B), s.bytes_in_flight = 0
  PROVE  /\ s.next_seqno # 0 /\ eof(s.stream) => s.fin_sent
         /\ s.fin_sent => oldest(s) = Len(str) + 2
<1>1. /\ Core(s, str, B) /\ Busy(s) /\ Counted(s) /\ Outbound(s.stream, str) /\ s \in Senders(B)
      /\ s.segments_outstanding = << >>
  BY InFlight, Zenon DEF SenderHolds, Core
<1>2. s.next_seqno # 0 /\ eof(s.stream) => s.fin_sent
  BY <1>1, Zenon DEF Busy, Counted, eof
<1>3. ASSUME s.fin_sent PROVE oldest(s) = Len(str) + 2
  <2> DEFINE o == s.stream
  <2>1. /\ o.nread \in Nat /\ o.buffer \in Seq(B) /\ s.next_seqno \in Nat /\ s.syn_sent \in BOOLEAN
    <3>1. o \in ByteStreams(B) /\ s.next_seqno \in Nat /\ s.syn_sent \in BOOLEAN
      BY <1>1 DEF Senders
    <3> HIDE DEF o
    <3> QED BY <3>1 DEF ByteStreams
  <2>2. /\ s.next_seqno = bit(s.syn_sent) + o.nread + bit(s.fin_sent) /\ (~s.syn_sent => s.next_seqno = 0)
        /\ o.nread + Len(o.buffer) = o.nwritten /\ o.nwritten = Len(str) /\ buffer_empty(o)
    BY <1>1, <1>3, Zenon DEF Counted, Outbound, eof
  <2>3. o.nread = Len(str)
    BY <2>1, <2>2 DEF buffer_empty, buffer_size
  <2>4. s.next_seqno = Len(str) + 2
    <3> DEFINE n == o.nread
    <3>1. n \in Nat /\ s.next_seqno = bit(s.syn_sent) + n + 1 /\ (~s.syn_sent => s.next_seqno = 0)
      BY <1>3, <2>1, <2>2, Zenon DEF bit
    <3> HIDE DEF n
    <3>2. s.next_seqno = n + 2
      BY <2>1, <3>1 DEF bit
    <3> QED BY <2>3, <3>2 DEF n
  <2> QED BY <2>1, <2>4 DEF oldest
<1> QED BY <1>2, <1>3, Zenon
=============================================================================
