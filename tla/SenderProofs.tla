----------------------------- MODULE SenderProofs -----------------------------
(***************************************************************************)
(* The sender's invariants, proved for every stream, every capacity, every *)
(* size of the window and every history of acknowledgments.                *)
(***************************************************************************)
EXTENDS SenderSpec, SenderLemmas, FiniteSetTheorems

\* The whole stream, SYN and FIN included, is short enough that no sequence number is
\* ambiguous, ...
StreamFits == Len(Stream) + 2 <= HalfSeq

\* ... or the windows are: 2^16 against 2^32 in the code.
Roomy == 2 * WIN_MOD <= HalfSeq

\* Whatever the length of the stream, a network that keeps acknowledgments in order
\* leaves no doubt which number one means.
Unambiguous(o) == StreamFits \/ (Roomy /\ o)

\* The sender is inside the window that peer p has opened, and so is the free space it
\* has computed; a sender that has seen a closed window and may probe it keeps nothing.
InWindow(s, p) ==
  LET edge == p.acked + window(p)
  IN /\ s.next_seqno <= edge \/ (s.next_seqno = edge + 1 /\ s.bytes_in_flight = 1 /\ window(p) = 0)
     /\ s.receiver_window_size > 0 => s.next_seqno + s.receiver_free_space <= edge
     /\ s.syn_sent /\ s.receiver_window_size = 0 /\ s.receiver_free_space = 0 => s.segments_outstanding = <<>>
     /\ ~s.syn_sent => s.receiver_window_size = 0 /\ s.receiver_free_space = 0
     /\ s.bytes_in_flight <= 2 * WIN_MOD
     /\ s.receiver_window_size > 0 => s.bytes_in_flight + s.receiver_free_space <= 2 * WIN_MOD

\* What a peer can be.
PeerOK(p) ==
  /\ p \in [acked : Nat, read : Nat]
  /\ p.read <= MinOf(MaxOf(p.acked - 1, 0), Len(Stream)) /\ window(p) \in 0 .. PeerCapacity

\* What a sender s and its peer p know of each other, over a network that keeps the order
\* of acknowledgments if o holds.
Linked(s, p, o) ==
  /\ s.isn = Isn /\ s.initial_rto = RtTimeout
  /\ PeerOK(p) /\ p.acked <= s.next_seqno
  /\ Unambiguous(o) => oldest(s) <= p.acked
  /\ o /\ Unambiguous(o) => InWindow(s, p)

\* The acknowledgments under way acknowledge what the peer has, or had, received.
AcksOK ==
  /\ \A ack \in acks : ack.ackno \in 1 .. peer.acked /\ ack.win \in 0 .. PeerCapacity
  /\ ordered => acks \subseteq {[ackno |-> peer.acked, win |-> window(peer)]}

\* The inductive invariant.
Inv ==
  /\ SenderHolds(sender, Stream, Byte) /\ sender.segments_out = <<>>
  /\ ordered \in BOOLEAN /\ Linked(sender, peer, ordered) /\ AcksOK
-----------------------------------------------------------------------------
\* s and t agree on all that the peer and the network can tell.
Same(s, t) ==
  /\ t.isn = s.isn /\ t.initial_rto = s.initial_rto /\ t.syn_sent = s.syn_sent
  /\ t.next_seqno = s.next_seqno /\ t.bytes_in_flight = s.bytes_in_flight
  /\ t.segments_outstanding = s.segments_outstanding
  /\ t.receiver_window_size = s.receiver_window_size
  /\ t.receiver_free_space = s.receiver_free_space

\* A change of the stream, of the timer or of segments_out is none to the peer.
LEMMA SameLinked ==
  ASSUME NEW s, NEW t, NEW p, NEW o, Same(s, t), Linked(s, p, o)
  PROVE  Linked(t, p, o)
BY Zenon DEF Same, Linked, InWindow, oldest

\* The constants.
LEMMA Sizes16 ==
  /\ WIN_MOD \in Nat /\ WIN_MOD >= 2 /\ PeerCapacity \in 1 .. WIN_MOD - 1
  /\ HalfSeq \in Nat /\ HalfSeq > 0 /\ Len(Stream) \in Nat /\ Stream \in Seq(Byte)
  /\ Isn \in WrappingInt32
<1>1. HalfSeq \in Nat /\ HalfSeq > 0
  BY SeqModAssumption, SMT DEF HalfSeq
<1> QED BY <1>1, SenderAssumption, SenderSpecAssumption

\* The edge of the peer's window, in numbers.
LEMMA PeerNumbers ==
  ASSUME NEW p, PeerOK(p)
  PROVE  /\ p.acked \in Nat /\ p.read \in Nat /\ window(p) \in Nat /\ window(p) <= PeerCapacity
         /\ p.acked = 0 => window(p) = PeerCapacity
<1>1. p.acked \in Nat /\ p.read \in Nat /\ window(p) \in 0 .. PeerCapacity
  BY Zenon DEF PeerOK
<1>2. p.read <= MinOf(MaxOf(p.acked - 1, 0), Len(Stream))
  BY Zenon DEF PeerOK
<1> QED BY <1>1, <1>2, Sizes16 DEF window, MinOf, MaxOf

\* fill_window sends nothing outside the window the peer has opened.
LEMMA FillInWindow ==
  ASSUME NEW s, NEW t, NEW p, Core(s, Stream, Byte), PeerOK(p), p.acked <= s.next_seqno,
         oldest(s) <= p.acked, Filled(s, t), InWindow(s, p), t.syn_sent = TRUE
  PROVE  InWindow(t, p)
<1> DEFINE next == s.next_seqno
           bif == s.bytes_in_flight
           win == s.receiver_window_size
           free == s.receiver_free_space
           edge == p.acked + window(p)
<1>1. /\ bif \in Nat /\ next \in Nat /\ oldest(s) \in Nat /\ oldest(s) + bif = next
      /\ bif = 0 <=> s.segments_outstanding = <<>>
  BY InFlight, Zenon
<1>2. win \in 0 .. WIN_MOD - 1 /\ free \in 0 .. WIN_MOD - 1
  BY DEF Core, Senders
<1>3. p.acked \in Nat /\ window(p) \in Nat /\ (p.acked = 0 => window(p) = PeerCapacity)
  BY PeerNumbers, Zenon
<1>4. ~s.syn_sent => next = 0
  BY Zenon DEF Core, Counted
<1>5. /\ next <= edge \/ (next = edge + 1 /\ bif = 1 /\ window(p) = 0)
      /\ win > 0 => next + free <= edge
      /\ s.syn_sent /\ win = 0 /\ free = 0 => s.segments_outstanding = <<>>
      /\ ~s.syn_sent => win = 0 /\ free = 0
      /\ bif <= 2 * WIN_MOD
      /\ win > 0 => bif + free <= 2 * WIN_MOD
  BY Zenon DEF InWindow
<1>6. CASE ~s.syn_sent /\ Sends(s, t, 1)
  <2>1. next = 0 /\ win = 0 /\ free = 0
    BY <1>4, <1>5, <1>6, Zenon
  <2>2. /\ t.next_seqno = next + 1 /\ t.bytes_in_flight = bif + 1 /\ t.receiver_window_size = win
        /\ t.receiver_free_space = (free - 1) % WIN_MOD
    BY <1>6, Zenon DEF Sends
  <2> HIDE DEF next, bif, win, free
  <2>3. /\ t.next_seqno <= edge /\ t.receiver_window_size = 0 /\ t.receiver_free_space # 0
        /\ t.bytes_in_flight <= 2 * WIN_MOD
    BY <1>1, <1>3, <2>1, <2>2, Sizes16
  <2>4. ~(t.receiver_window_size > 0)
    BY <2>3
  <2> QED BY <2>3, <2>4, Zenon DEF InWindow
<1>7. CASE t = s
  BY <1>7, Zenon
<1>8. ASSUME s.syn_sent, win > 0, NEW n \in 1 .. free, Sends(s, t, n)
      PROVE  InWindow(t, p)
  <2>1. /\ t.next_seqno = next + n /\ t.bytes_in_flight = bif + n /\ t.receiver_window_size = win
        /\ t.receiver_free_space = (free - n) % WIN_MOD
    BY <1>8, Zenon DEF Sends
  <2>2. next + free <= edge /\ bif + free <= 2 * WIN_MOD /\ win > 0
    BY <1>5, <1>8, Zenon
  <2> HIDE DEF next, bif, win, free
  <2>3. (free - n) % WIN_MOD = free - n
    BY <1>2, Sizes16
  <2>4. /\ t.next_seqno = next + n /\ t.bytes_in_flight = bif + n /\ t.receiver_window_size = win
        /\ t.receiver_free_space = free - n
    BY <2>1, <2>3, Zenon
  <2>5. /\ t.next_seqno <= edge /\ t.next_seqno + t.receiver_free_space <= edge
        /\ t.receiver_window_size # 0
        /\ t.bytes_in_flight <= 2 * WIN_MOD /\ t.bytes_in_flight + t.receiver_free_space <= 2 * WIN_MOD
    BY <1>1, <1>2, <1>3, <2>2, <2>4, Sizes16
  <2> QED BY <2>5, Zenon DEF InWindow
<1>9. CASE s.syn_sent /\ win = 0 /\ free = 0 /\ Sends(s, t, 1)
  <2>1. bif = 0
    BY <1>1, <1>5, <1>9, Zenon
  <2>2. /\ t.next_seqno = next + 1 /\ t.bytes_in_flight = bif + 1 /\ t.receiver_window_size = win
        /\ t.receiver_free_space = (free - 1) % WIN_MOD /\ win = 0 /\ free = 0
    BY <1>9, Zenon DEF Sends
  <2>3. next <= edge \/ (next = edge + 1 /\ bif = 1 /\ window(p) = 0)
    BY <1>5, Zenon
  <2> HIDE DEF next, bif, win, free
  <2>4. /\ t.next_seqno <= edge \/ (t.next_seqno = edge + 1 /\ t.bytes_in_flight = 1 /\ window(p) = 0)
        /\ t.receiver_window_size = 0 /\ t.receiver_free_space # 0
        /\ t.bytes_in_flight <= 2 * WIN_MOD
    BY <1>1, <1>3, <2>1, <2>2, <2>3, Sizes16 DEF next
  <2>5. ~(t.receiver_window_size > 0)
    BY <2>4
  <2> QED BY <2>4, <2>5, Zenon DEF InWindow
<1> QED BY <1>6, <1>7, <1>8, <1>9, Zenon DEF Filled

\* fill_window and the peer.
LEMMA FillLinked ==
  ASSUME NEW s, NEW p, NEW o, Core(s, Stream, Byte), Armed(s), Linked(s, p, o)
  PROVE  Linked(fill_window(s), p, o)
<1> DEFINE t == fill_window(s)
<1>1. SenderHolds(t, Stream, Byte) /\ Filled(s, t) /\ t.syn_sent = TRUE
  BY Sizes16, FillWindow, Zenon
<1> HIDE DEF t
<1>2. /\ s.isn = Isn /\ s.initial_rto = RtTimeout /\ PeerOK(p) /\ p.acked <= s.next_seqno
      /\ Unambiguous(o) => oldest(s) <= p.acked
      /\ o /\ Unambiguous(o) => InWindow(s, p)
  BY Zenon DEF Linked
<1>3. o /\ Unambiguous(o) => InWindow(t, p)
  BY <1>1, <1>2, FillInWindow, Zenon
<1>4. t.isn = s.isn /\ t.initial_rto = s.initial_rto
  BY <1>1, Zenon DEF Filled, Sends
<1>5. p.acked <= t.next_seqno /\ oldest(t) = oldest(s)
  <2>1. /\ s.bytes_in_flight \in Nat /\ s.next_seqno \in Nat /\ p.acked \in Nat
    BY <1>2, InFlight, PeerNumbers, Zenon
  <2>2. t = s \/ \E n \in Nat : t.next_seqno = s.next_seqno + n /\ t.bytes_in_flight = s.bytes_in_flight + n
    <3>1. 1 \in Nat /\ \A n \in 1 .. s.receiver_free_space : n \in Nat
      OBVIOUS
    <3> QED BY <1>1, <3>1, Zenon DEF Filled, Sends
  <2>3. CASE t = s
    BY <1>2, <2>3, Zenon
  <2>4. ASSUME NEW n \in Nat, t.next_seqno = s.next_seqno + n, t.bytes_in_flight = s.bytes_in_flight + n
        PROVE  p.acked <= t.next_seqno /\ oldest(t) = oldest(s)
    <3>1. p.acked <= s.next_seqno
      BY <1>2, Zenon
    <3> QED BY <2>1, <2>4, <3>1 DEF oldest
  <2> QED BY <2>2, <2>3, <2>4, Zenon
<1> QED BY <1>2, <1>3, <1>4, <1>5, Zenon DEF Linked, t

\* What is in flight never makes a number ambiguous.
LEMMA FewInFlight ==
  ASSUME NEW s, NEW p, NEW o, Core(s, Stream, Byte), Linked(s, p, o), Unambiguous(o)
  PROVE  s.bytes_in_flight <= HalfSeq
<1>1. s.next_seqno \in Nat /\ s.next_seqno <= Len(Stream) + 2
  BY Sizes16, NextBound, Zenon
<1>2. s.bytes_in_flight \in Nat /\ oldest(s) \in Nat /\ oldest(s) + s.bytes_in_flight = s.next_seqno
  BY InFlight, Zenon
<1>3. CASE StreamFits
  BY <1>1, <1>2, <1>3, Sizes16 DEF StreamFits
<1>4. CASE Roomy /\ o
  <2>1. s.bytes_in_flight <= 2 * WIN_MOD
    BY <1>4, Zenon DEF Linked, InWindow
  <2>2. Roomy
    BY <1>4
  <2> QED BY <1>2, <2>1, <2>2, Sizes16 DEF Roomy
<1> QED BY <1>3, <1>4, Zenon DEF Unambiguous

\* The number an acknowledgment under way means is the one the sender reads in it.
LEMMA AckMeans ==
  ASSUME NEW s, NEW p, NEW o, Core(s, Stream, Byte), Linked(s, p, o), Unambiguous(o),
         NEW ackno \in 1 .. p.acked, o => ackno = p.acked
  PROVE  unwrap(wrap(ackno, Isn), s.isn, s.next_seqno) = ackno
<1>1. s.next_seqno \in Nat /\ s.next_seqno <= Len(Stream) + 2
  BY Sizes16, NextBound, Zenon
<1>2. s.isn = Isn /\ PeerOK(p) /\ p.acked <= s.next_seqno
  BY Zenon DEF Linked
<1>3. p.acked \in Nat /\ window(p) \in Nat /\ window(p) <= PeerCapacity
  BY <1>2, PeerNumbers, Zenon
<1>4. ackno \in Nat /\ ackno <= s.next_seqno /\ ackno < s.next_seqno + HalfSeq
  BY <1>1, <1>2, <1>3, Sizes16
<1>5. s.next_seqno <= ackno + HalfSeq
  <2>1. CASE StreamFits
    BY <1>1, <1>4, <2>1, Sizes16 DEF StreamFits
  <2>2. CASE Roomy /\ o
    <3>1. ackno = p.acked
      BY <2>2
    <3>2. s.next_seqno <= p.acked + window(p) \/ s.next_seqno = p.acked + window(p) + 1
      BY <2>2, Zenon DEF Linked, InWindow
    <3>3. Roomy
      BY <2>2
    <3> QED BY <1>1, <1>3, <3>1, <3>2, <3>3, Sizes16, SMTT(20) DEF Roomy
  <2> QED BY <2>1, <2>2, Zenon DEF Unambiguous
<1>6. unwrap(wrap(ackno, Isn), Isn, s.next_seqno) = ackno
  BY <1>1, <1>4, <1>5, Sizes16, UnwrapWrap, Zenon
<1> QED BY <1>2, <1>6, Zenon

\* An acknowledgment of numbers the sender keeps leaves it inside the peer's window.
LEMMA AckedInWindow ==
  ASSUME NEW s, NEW p, Core(s, Stream, Byte), Armed(s), s.bytes_in_flight <= HalfSeq, PeerOK(p),
         InWindow(s, p), oldest(s) <= p.acked, p.acked <= s.next_seqno, p.acked > 0
  PROVE  InWindow(acked(s, p.acked, window(p)), p)
<1> DEFINE x == p.acked
           w == window(p)
           u == acked(s, x, w)
           next == s.next_seqno
           bif == s.bytes_in_flight
           edge == x + w
<1>1. /\ bif \in Nat /\ next \in Nat /\ oldest(s) \in Nat /\ oldest(s) + bif = next
  BY InFlight, Zenon
<1>2. x \in Nat /\ w \in Nat /\ w \in 0 .. WIN_MOD - 1
  <2>1. x \in Nat /\ w \in Nat /\ w <= PeerCapacity
    BY PeerNumbers, Zenon
  <2> QED BY <2>1, Sizes16
<1>3. next <= edge \/ (next = edge + 1 /\ bif = 1 /\ w = 0)
  BY Zenon DEF InWindow
<1>4. /\ oldest(u) \in Nat /\ u.bytes_in_flight \in Nat
      /\ oldest(u) + u.bytes_in_flight = next /\ oldest(s) <= oldest(u) /\ oldest(u) <= x
      /\ u.next_seqno = next /\ u.receiver_window_size = w
      /\ \/ u.segments_outstanding = <<>> /\ u.receiver_free_space = w /\ x = next
         \/ /\ u.receiver_free_space = (x + w - next) % WIN_MOD
            /\ x < oldest(u) + WIN_MOD /\ x < next
  BY <1>2, Sizes16, AckedPlace, Zenon
<1>5. Core(u, Stream, Byte) /\ u.syn_sent = s.syn_sent
  <2>1. Stream \in Seq(Byte)
    BY Sizes16
  <2> QED BY <1>2, <2>1, Acked, Zenon
<1>6. u.syn_sent
  <2>1. next # 0
    BY <1>1, <1>2
  <2> QED BY <1>5, <2>1, Zenon DEF Core, Counted
<1>7. u.bytes_in_flight = 0 <=> u.segments_outstanding = <<>>
  BY <1>5, InFlight, Zenon
<1> SUFFICES InWindow(u, p)
  OBVIOUS
<1>8. WIN_MOD \in Nat /\ WIN_MOD >= 2 /\ next \in Nat
  BY <1>1, Sizes16, Zenon
<1> HIDE DEF u, x, w, next, bif
<1>9. CASE u.segments_outstanding = <<>> /\ u.receiver_free_space = w /\ x = next
  <2>1. u.bytes_in_flight = 0 /\ u.receiver_free_space = w /\ x = next
    BY <1>7, <1>9, Zenon
  <2>2. u.next_seqno = next /\ u.receiver_window_size = w
    BY <1>4, Zenon
  <2>3. /\ u.next_seqno <= edge /\ u.next_seqno + u.receiver_free_space <= edge
        /\ u.bytes_in_flight <= 2 * WIN_MOD /\ u.bytes_in_flight + u.receiver_free_space <= 2 * WIN_MOD
    BY <1>2, <1>8, <2>1, <2>2
  <2> QED BY <1>6, <1>9, <2>3, Zenon DEF InWindow, x, w
<1>10. CASE /\ u.receiver_free_space = (x + w - next) % WIN_MOD
           /\ x < oldest(u) + WIN_MOD /\ x < next
  <2>1. /\ oldest(u) \in Nat /\ u.bytes_in_flight \in Nat
        /\ oldest(u) + u.bytes_in_flight = next /\ oldest(s) <= oldest(u) /\ oldest(u) <= x
        /\ u.next_seqno = next /\ u.receiver_window_size = w
    BY <1>4, Zenon
  <2>2. CASE next <= edge
    <3> DEFINE low == oldest(u)
               b == u.bytes_in_flight
               free == u.receiver_free_space
    <3>1. /\ low \in Nat /\ b \in Nat /\ low + b = next /\ low <= x /\ x < low + WIN_MOD /\ x < next
          /\ free = (x + w - next) % WIN_MOD
      BY <1>10, <2>1, Zenon
    <3> HIDE DEF low, b, free
    <3>2. /\ next + free <= edge /\ w # 0 /\ b <= 2 * WIN_MOD /\ b + free <= 2 * WIN_MOD
      <4> DEFINE k == x + w - next
      <4>1. k \in 0 .. WIN_MOD - 1 /\ next + k = edge
        BY <1>2, <1>8, <2>2, <3>1
      <4>2. k % WIN_MOD = k
        <5> HIDE DEF k
        <5> QED BY <1>8, <4>1
      <4>3. free = k
        BY <3>1, <4>2, Zenon
      <4> HIDE DEF k
      <4> QED BY <1>2, <1>8, <2>2, <3>1, <4>1, <4>3
    <3> QED BY <1>6, <2>1, <2>2, <3>2, Zenon DEF InWindow, x, w, b, free
  <2>3. CASE next = edge + 1 /\ bif = 1 /\ w = 0
    <3>1. (x + w - next) % WIN_MOD # 0
      BY <1>1, <1>2, <2>3, Sizes16
    <3>2. u.receiver_free_space # 0
      BY <1>10, <3>1, Zenon
    <3>3. /\ u.next_seqno = edge + 1 /\ u.bytes_in_flight = 1 /\ w = 0 /\ ~(u.receiver_window_size > 0)
          /\ u.bytes_in_flight <= 2 * WIN_MOD
      BY <1>1, <1>2, <1>10, <2>1, <2>3, Sizes16
    <3> QED BY <1>6, <3>2, <3>3, Zenon DEF InWindow, x, w
  <2> QED BY <1>3, <2>2, <2>3, Zenon
<1> QED BY <1>4, <1>9, <1>10, Zenon

\* ack_received, for an acknowledgment the peer has sent, keeps the sender and the peer in
\* agreement, even when nothing is outstanding and the test reads garbage.
LEMMA AckLinked ==
  ASSUME NEW s, NEW p, NEW o \in BOOLEAN, SenderHolds(s, Stream, Byte), Linked(s, p, o),
         NEW ackno \in 1 .. p.acked, NEW w \in 0 .. PeerCapacity, o => ackno = p.acked /\ w = window(p),
         NEW garbage
  PROVE  Linked(ack_received(s, wrap(ackno, Isn), w, garbage), p, o)
<1> DEFINE t == ack_received(s, wrap(ackno, Isn), w, garbage)
           x == unwrap(wrap(ackno, Isn), s.isn, s.next_seqno)
           u == acked(s, x, w)
<1>1. Core(s, Stream, Byte) /\ Armed(s)
  BY Zenon DEF SenderHolds
<1>2. /\ s.isn = Isn /\ s.initial_rto = RtTimeout /\ PeerOK(p) /\ p.acked <= s.next_seqno
      /\ Unambiguous(o) => oldest(s) <= p.acked
      /\ o /\ Unambiguous(o) => InWindow(s, p)
  BY Zenon DEF Linked
<1>3. p.acked \in Nat /\ window(p) \in Nat
  BY <1>2, PeerNumbers, Zenon
<1>4. ackno \in Nat /\ ackno > 0 /\ ackno <= p.acked /\ p.acked > 0 /\ w \in 0 .. WIN_MOD - 1
  BY <1>3, Sizes16
<1>5. wrap(ackno, Isn) \in WrappingInt32
  <2>1. ackno \in Int
    BY <1>4
  <2> QED BY <2>1, Sizes16, WrapSpec, Zenon
<1>6. x \in Nat
  <2>1. s.isn \in WrappingInt32 /\ s.next_seqno \in Nat
    BY <1>1 DEF Core, Senders
  <2> QED BY <1>5, <2>1, UnwrapNat, Zenon
<1>7. t = IF _ack_valid(s, x, garbage) THEN fill_window(u) ELSE s
  BY Zenon DEF ack_received, acked
<1>8. Unambiguous(o) => x = ackno
  BY <1>1, AckMeans, Zenon
<1> HIDE DEF x, t
<1>9. ASSUME _ack_valid(s, x, garbage)
      PROVE  Linked(u, p, o)
  <2>1. /\ Core(u, Stream, Byte) /\ Armed(u) /\ u.next_seqno = s.next_seqno /\ u.isn = s.isn
        /\ u.initial_rto = s.initial_rto
    BY <1>1, <1>4, <1>6, Sizes16, Acked
  <2>2. /\ s.bytes_in_flight \in Nat /\ s.next_seqno \in Nat /\ oldest(s) \in Nat
        /\ oldest(s) + s.bytes_in_flight = s.next_seqno
        /\ s.bytes_in_flight = 0 <=> s.segments_outstanding = <<>>
    BY <1>1, InFlight, Zenon
  <2>3. /\ u.bytes_in_flight \in Nat /\ oldest(u) \in Nat
        /\ oldest(u) + u.bytes_in_flight = u.next_seqno
    BY <2>1, InFlight, Zenon
  <2>4. ASSUME Unambiguous(o)
        PROVE  oldest(u) <= p.acked /\ (o => InWindow(u, p))
    <3>1. x = ackno
      BY <1>8, <2>4, Zenon
    <3>2. s.bytes_in_flight <= HalfSeq
      BY <1>1, <2>4, FewInFlight, Zenon
    <3>3. oldest(s) <= p.acked
      BY <1>2, <2>4, Zenon
    <3>4. oldest(u) <= p.acked
      <4>1. CASE s.segments_outstanding = <<>>
        <5>1. s.bytes_in_flight = 0
          BY <2>2, <4>1, Zenon
        <5> HIDE DEF u
        <5> QED BY <1>2, <1>3, <2>1, <2>2, <2>3, <3>3, <5>1
      <4>2. CASE s.segments_outstanding # <<>>
        <5> DEFINE out == s.segments_outstanding
        <5>1. out \in Seq(Segments(Byte))
          BY <1>1 DEF Core, Senders
        <5>2. 1 \in 1 .. Len(out) /\ Head(out) = out[1] /\ 1 - 1 = 0
          BY <4>2, <5>1
        <5>3. abs_start(s, out[1]) = oldest(s) + sizes(out)[1 - 1]
          BY <1>1, <3>2, <5>2, Places
        <5>4. sizes(out)[0] = 0
          BY <5>1, Sizes, Zenon
        <5>5. abs_start(s, Head(out)) = oldest(s)
          BY <2>2, <5>2, <5>3, <5>4
        <5>6. x >= abs_start(s, Head(out)) /\ x <= s.next_seqno
          BY <1>9, <4>2, Zenon DEF _ack_valid
        <5>7. oldest(s) <= x
          <6> HIDE DEF out
          <6> QED BY <1>6, <2>2, <5>5, <5>6
        <5>8. oldest(u) <= x
          BY <1>1, <1>4, <1>6, <3>2, <5>6, <5>7, Sizes16, AckedPlace, Zenon
        <5> HIDE DEF u
        <5> QED BY <1>3, <1>4, <2>3, <3>1, <5>8
      <4> QED BY <4>1, <4>2, Zenon
    <3>5. ASSUME o
          PROVE  InWindow(u, p)
      <4>1. x = p.acked /\ w = window(p) /\ InWindow(s, p)
        BY <1>2, <2>4, <3>1, <3>5, Zenon
      <4>2. InWindow(acked(s, p.acked, window(p)), p)
        BY <1>1, <1>2, <1>4, <3>2, <3>3, <4>1, AckedInWindow, Zenon
      <4> QED BY <4>1, <4>2, Zenon
    <3> QED BY <3>4, <3>5, Zenon
  <2> HIDE DEF u
  <2> QED BY <1>2, <2>1, <2>4, Zenon DEF Linked
<1>10. CASE ~_ack_valid(s, x, garbage)
  BY <1>7, <1>10, Zenon DEF t
<1>11. CASE _ack_valid(s, x, garbage)
  <2>1. Core(u, Stream, Byte) /\ Armed(u)
    BY <1>1, <1>4, <1>6, Sizes16, Acked, Zenon
  <2>2. Linked(u, p, o)
    BY <1>9, <1>11, Zenon
  <2> HIDE DEF u
  <2>3. Linked(fill_window(u), p, o)
    BY <2>1, <2>2, FillLinked, Zenon
  <2> QED BY <1>7, <1>11, <2>3, Zenon DEF t
<1> QED BY <1>10, <1>11, Zenon

\* The window of a peer that has acknowledged a, then b, and whose reader has read r, then t.
LEMMA EdgeGrows ==
  ASSUME NEW C \in Nat, NEW L \in Nat, NEW a \in Nat, NEW r \in Nat, NEW b \in Nat, NEW t \in Nat,
         a <= b, b >= 1, r <= t, r <= MinOf(MaxOf(a - 1, 0), L), t <= MinOf(b - 1, L), NEW v, NEW w,
         v = C - (MinOf(MaxOf(a - 1, 0), L) - r), w = C - (MinOf(MaxOf(b - 1, 0), L) - t)
  PROVE  v \in Int /\ w \in Int /\ w <= C /\ a + v <= b + w
<1>1. MaxOf(b - 1, 0) = b - 1 /\ MaxOf(a - 1, 0) = IF a = 0 THEN 0 ELSE a - 1
  BY DEF MaxOf
<1> DEFINE m == IF a = 0 THEN 0 ELSE a - 1
<1>2. m \in Nat /\ a <= m + 1 /\ m <= a /\ m <= b - 1 /\ (a = 0 => m = 0) /\ (a # 0 => a = m + 1)
  OBVIOUS
<1>3. v = C - (MinOf(m, L) - r) /\ w = C - (MinOf(b - 1, L) - t) /\ r <= MinOf(m, L)
  BY <1>1, Zenon
<1> HIDE DEF m
<1> QED BY <1>2, <1>3 DEF MinOf

\* A peer that receives or reads more does not take back any of its window.
LEMMA PeerLinked ==
  ASSUME NEW s, NEW q, NEW p \in [acked : 1 .. EndSeq, read : 0 .. Len(Stream)], NEW o,
         Core(s, Stream, Byte), Linked(s, q, o),
         p.acked \in MaxOf(1, q.acked) .. s.next_seqno,
         p.read \in q.read .. MinOf(p.acked - 1, Len(Stream)), window(p) >= 0
  PROVE  /\ Linked(s, p, o) /\ q.acked <= p.acked /\ p.acked \in Nat
         /\ p.acked >= 1 /\ window(p) \in 0 .. PeerCapacity
<1>1. /\ s.isn = Isn /\ s.initial_rto = RtTimeout /\ PeerOK(q) /\ q.acked <= s.next_seqno
      /\ Unambiguous(o) => oldest(s) <= q.acked
      /\ o /\ Unambiguous(o) => InWindow(s, q)
  BY Zenon DEF Linked
<1>2. /\ q.acked \in Nat /\ q.read \in Nat /\ window(q) \in Nat /\ window(q) <= PeerCapacity
  BY <1>1, PeerNumbers, Zenon
<1>3. q.read <= MinOf(MaxOf(q.acked - 1, 0), Len(Stream))
  BY <1>1, Zenon DEF PeerOK
<1>4. /\ s.bytes_in_flight \in Nat /\ s.next_seqno \in Nat /\ oldest(s) \in Nat
      /\ oldest(s) + s.bytes_in_flight = s.next_seqno
  BY InFlight, Zenon
<1>5. p.acked \in 1 .. EndSeq /\ p.read \in 0 .. Len(Stream)
  OBVIOUS
<1>6. p.acked \in Nat /\ p.acked >= 1 /\ p.read \in Nat /\ p.acked <= Len(Stream) + 2 /\ p.read <= Len(Stream)
  BY <1>5, Sizes16 DEF EndSeq
<1>7. q.acked <= p.acked /\ p.acked <= s.next_seqno
  BY <1>2, <1>4, <1>6 DEF MaxOf
<1>8. q.read <= p.read /\ p.read <= MinOf(p.acked - 1, Len(Stream))
  BY <1>2, <1>6, Sizes16 DEF MinOf
<1>9. window(q) \in Int /\ window(p) \in Int /\ window(p) <= PeerCapacity /\ q.acked + window(q) <= p.acked + window(p)
  <2>1. /\ window(p) = PeerCapacity - (MinOf(MaxOf(p.acked - 1, 0), Len(Stream)) - p.read)
        /\ window(q) = PeerCapacity - (MinOf(MaxOf(q.acked - 1, 0), Len(Stream)) - q.read)
    BY Zenon DEF window
  <2>2. PeerCapacity \in Nat
    BY Sizes16
  <2> QED BY <1>2, <1>3, <1>6, <1>7, <1>8, <2>1, <2>2, Sizes16, EdgeGrows, Zenon
<1>10. window(p) \in 0 .. PeerCapacity
  BY <1>9, Sizes16
<1>11. PeerOK(p)
  <2>1. p \in [acked : Nat, read : Nat]
    <3>1. 1 .. EndSeq \subseteq Nat /\ 0 .. Len(Stream) \subseteq Nat
      BY Sizes16 DEF EndSeq
    <3> QED BY <3>1
  <2>2. p.read <= MinOf(MaxOf(p.acked - 1, 0), Len(Stream))
    BY <1>6, <1>8 DEF MaxOf
  <2> QED BY <1>10, <2>1, <2>2, Zenon DEF PeerOK
<1>12. q.acked + window(q) = p.acked + window(p) /\ window(q) = 0 => window(p) = 0
  BY <1>2, <1>6, <1>7, <1>10, Sizes16
<1>13. ASSUME InWindow(s, q)
       PROVE  InWindow(s, p)
  <2> DEFINE edge == q.acked + window(q)
             edge2 == p.acked + window(p)
             next == s.next_seqno
             bif == s.bytes_in_flight
             free == s.receiver_free_space
             win == s.receiver_window_size
  <2>1. /\ next <= edge \/ (next = edge + 1 /\ bif = 1 /\ window(q) = 0)
        /\ win > 0 => next + free <= edge
    BY <1>13, Zenon DEF InWindow
  <2>2. edge \in Nat /\ edge2 \in Nat /\ edge <= edge2 /\ (edge = edge2 /\ window(q) = 0 => window(p) = 0)
    BY <1>2, <1>6, <1>9, <1>10, <1>12, Sizes16, SMTT(20)
  <2>3. free \in Nat
    BY DEF Core, Senders
  <2>4. next <= edge2 \/ (next = edge2 + 1 /\ bif = 1 /\ window(p) = 0)
    <3> HIDE DEF edge, edge2
    <3> QED BY <1>4, <2>1, <2>2
  <2>5. win > 0 => next + free <= edge2
    <3>1. ASSUME next + free <= edge PROVE next + free <= edge2
      <4> HIDE DEF edge, edge2, free
      <4> QED BY <1>4, <2>2, <2>3, <3>1
    <3> QED BY <2>1, <3>1, Zenon
  <2> QED BY <1>13, <2>4, <2>5, Zenon DEF InWindow
<1>14. Unambiguous(o) => oldest(s) <= p.acked
  <2>1. oldest(s) <= q.acked => oldest(s) <= p.acked
    BY <1>2, <1>4, <1>6, <1>7
  <2> QED BY <1>1, <2>1, Zenon
<1>15. Linked(s, p, o)
  BY <1>1, <1>7, <1>11, <1>13, <1>14, Zenon DEF Linked
<1> QED BY <1>6, <1>7, <1>10, <1>15, Zenon

\* The connection has taken what the sender had queued.
LEMMA Drained ==
  ASSUME NEW s, NEW p, NEW o, SenderHolds(s, Stream, Byte), Linked(s, p, o)
  PROVE  LET t == [s EXCEPT !.segments_out = <<>>]
         IN SenderHolds(t, Stream, Byte) /\ t.segments_out = <<>> /\ Linked(t, p, o)
<1> DEFINE none == <<>>
           t == [s EXCEPT !.segments_out = none]
<1>1. none \in Seq(Segments(Byte)) /\ Len(none) = 0
  OBVIOUS
<1>2. \A i \in 1 .. Len(none) : \E a \in Nat : Fresh(none[i], a, s.isn, Stream)
  BY <1>1
<1>3. s \in Senders(Byte)
  BY Zenon DEF SenderHolds, Core
<1>4. SenderHolds(t, Stream, Byte)
  <2> HIDE DEF none
  <2> QED BY <1>1, <1>2, Requeue, Zenon
<1>5. Same(s, t) /\ t.segments_out = <<>>
  BY <1>3 DEF Same, Senders
<1>6. Linked(t, p, o)
  <2> HIDE DEF t
  <2> QED BY <1>5, SameLinked, Zenon
<1> QED BY <1>4, <1>5, <1>6, Zenon

\* The application's calls: a new outbound stream, then fill_window.
LEMMA Refill ==
  ASSUME NEW s, NEW p, NEW r, SenderHolds(s, Stream, Byte), Linked(s, p, r),
         NEW o \in ByteStreams(Byte), Outbound(o, Stream), o.nread = s.stream.nread, s.fin_sent => eof(o)
  PROVE  LET t == fill_window([s EXCEPT !.stream = o])
         IN SenderHolds(t, Stream, Byte) /\ Linked(t, p, r)
<1> DEFINE u == [s EXCEPT !.stream = o]
<1>1. Core(s, Stream, Byte) /\ Armed(s)
  BY Zenon DEF SenderHolds
<1>2. /\ Core(u, Stream, Byte) /\ Armed(u) /\ u.isn = s.isn /\ u.initial_rto = s.initial_rto
      /\ u.next_seqno = s.next_seqno /\ u.bytes_in_flight = s.bytes_in_flight
      /\ u.segments_outstanding = s.segments_outstanding /\ u.syn_sent = s.syn_sent
      /\ u.receiver_window_size = s.receiver_window_size
      /\ u.receiver_free_space = s.receiver_free_space
  BY <1>1, Restream
<1> HIDE DEF u
<1>3. Linked(u, p, r)
  <2>1. Same(s, u)
    BY <1>2, Zenon DEF Same
  <2> QED BY <2>1, SameLinked, Zenon
<1>4. SenderHolds(fill_window(u), Stream, Byte)
  BY <1>2, Sizes16, FillWindow, Zenon
<1>5. Linked(fill_window(u), p, r)
  BY <1>2, <1>3, FillLinked, Zenon
<1> QED BY <1>4, <1>5, Zenon DEF u

\* The constructor and the empty network.
LEMMA InitHolds == Init => Inv
<1> SUFFICES ASSUME Init PROVE Inv
  OBVIOUS
<1> DEFINE s == new_TCPSender(Capacity, RtTimeout, Isn)
<1>1. sender = s /\ peer = [acked |-> 0, read |-> 0] /\ acks = {} /\ ordered \in BOOLEAN
  BY SenderSpecAssumption DEF Init
<1>2. SenderHolds(sender, Stream, Byte)
  <2>1. Capacity \in Nat /\ RtTimeout \in Nat \ {0}
    BY SenderSpecAssumption
  <2> QED BY <1>1, <2>1, Sizes16, NewSender, Zenon
<1>3. /\ sender.segments_out = <<>> /\ sender.isn = Isn /\ sender.initial_rto = RtTimeout
      /\ sender.next_seqno = 0 /\ sender.bytes_in_flight = 0 /\ sender.receiver_window_size = 0
      /\ sender.receiver_free_space = 0 /\ sender.syn_sent = FALSE
  BY <1>1 DEF new_TCPSender
<1>4. peer.acked = 0 /\ peer.read = 0 /\ peer \in [acked : Nat, read : Nat]
  BY <1>1
<1>5. window(peer) = PeerCapacity
  BY <1>4, Sizes16 DEF window, MinOf, MaxOf
<1>6. PeerOK(peer)
  <2>1. peer.read <= MinOf(MaxOf(peer.acked - 1, 0), Len(Stream)) /\ PeerCapacity \in 0 .. PeerCapacity
    BY <1>4, Sizes16 DEF MinOf, MaxOf
  <2> QED BY <1>4, <1>5, <2>1, Zenon DEF PeerOK
<1>7. oldest(sender) <= peer.acked /\ peer.acked <= sender.next_seqno
  BY <1>3, <1>4 DEF oldest
<1>8. InWindow(sender, peer)
  <2>1. /\ sender.next_seqno <= peer.acked + window(peer) /\ ~(sender.receiver_window_size > 0)
        /\ sender.bytes_in_flight <= 2 * WIN_MOD
    BY <1>3, <1>4, <1>5, Sizes16
  <2> QED BY <1>3, <2>1, Zenon DEF InWindow
<1>9. AcksOK
  BY <1>1 DEF AcksOK
<1> QED BY <1>1, <1>2, <1>3, <1>6, <1>7, <1>8, <1>9, Zenon DEF Inv, Linked

\* Where a step of the sender alone leads.
LEMMA SenderSteps ==
  ASSUME Inv, NEW t, SenderHolds(t, Stream, Byte), Linked(t, peer, ordered), Step(t),
         UNCHANGED <<peer, acks, ordered>>
  PROVE  Inv'
<1>1. sender' = [t EXCEPT !.segments_out = <<>>] /\ peer' = peer /\ acks' = acks /\ ordered' = ordered
  BY DEF Step
<1> DEFINE u == [t EXCEPT !.segments_out = <<>>]
<1>2. SenderHolds(u, Stream, Byte) /\ u.segments_out = <<>> /\ Linked(u, peer, ordered)
  BY Drained, Zenon
<1> HIDE DEF u
<1>3. sender' = u
  BY <1>1, Zenon DEF u
<1>4. SenderHolds(sender', Stream, Byte) /\ sender'.segments_out = <<>> /\ Linked(sender', peer', ordered')
  BY <1>1, <1>2, <1>3, Zenon
<1>5. AcksOK'
  BY <1>1 DEF Inv, AcksOK, window
<1>6. ordered' \in BOOLEAN
  BY <1>1, Zenon DEF Inv
<1> QED BY <1>4, <1>5, <1>6, Zenon DEF Inv

\* One step per action.
LEMMA NextHolds == Inv /\ [Next]_vars => Inv'
<1> SUFFICES ASSUME Inv, [Next]_vars PROVE Inv'
  OBVIOUS
<1>1. /\ SenderHolds(sender, Stream, Byte) /\ Core(sender, Stream, Byte) /\ Armed(sender)
      /\ Linked(sender, peer, ordered) /\ ordered \in BOOLEAN /\ AcksOK
  BY Zenon DEF Inv, SenderHolds
<1>2. sender \in Senders(Byte) /\ sender.stream \in ByteStreams(Byte) /\ Outbound(sender.stream, Stream)
  BY <1>1 DEF Core, Senders
<1>3. sender.fin_sent => eof(sender.stream)
  BY <1>1, Zenon DEF Core, Counted
<1>4. CASE Connect
  <2>1. Step(fill_window(sender)) /\ UNCHANGED <<peer, acks, ordered>>
    BY <1>4, Zenon DEF Connect
  <2>2. SenderHolds(fill_window(sender), Stream, Byte)
    BY <1>1, Sizes16, FillWindow, Zenon
  <2>3. Linked(fill_window(sender), peer, ordered)
    BY <1>1, FillLinked, Zenon
  <2> QED BY <2>1, <2>2, <2>3, SenderSteps, Zenon
<1>5. ASSUME NEW len \in 1 .. Len(Stream), Write(len)
      PROVE  Inv'
  <2> DEFINE from == sender.stream.nwritten
             data == SubSeq(Stream, from + 1, from + len)
             o == write(sender.stream, data)
             t == fill_window([sender EXCEPT !.stream = o])
  <2>1. from + len <= Len(Stream) /\ from \in Nat /\ len \in Nat /\ len > 0
    BY <1>2, <1>5, Sizes16 DEF Write, ByteStreams
  <2>2. ~sender.stream.input_ended
    <3>1. sender.stream.input_ended => from = Len(Stream)
      BY <1>2, Zenon DEF Outbound
    <3>2. from # Len(Stream)
      BY <2>1, Sizes16
    <3> QED BY <3>1, <3>2, Zenon
  <2>3. /\ data \in Seq(Byte) /\ Len(data) = len /\ from + Len(data) <= Len(Stream)
        /\ \A k \in 1 .. Len(data) : data[k] = Stream[from + k]
    <3> HIDE DEF from
    <3> QED BY <2>1, Sizes16
  <2> HIDE DEF data
  <2>4. /\ o \in ByteStreams(Byte) /\ Outbound(o, Stream) /\ o.nread = sender.stream.nread
        /\ o.input_ended = sender.stream.input_ended
    BY <1>2, <2>2, <2>3, Sizes16, WriteOut
  <2>5. sender.fin_sent => eof(o)
    BY <1>3, <2>2, Zenon DEF eof
  <2>6. Step(t) /\ UNCHANGED <<peer, acks, ordered>>
    <3>1. Step(fill_window([sender EXCEPT
            !.stream = write(@, SubSeq(Stream, sender.stream.nwritten + 1, sender.stream.nwritten + len))]))
      BY <1>5 DEF Write
    <3>2. [sender EXCEPT !.stream = write(@, SubSeq(Stream, sender.stream.nwritten + 1, sender.stream.nwritten + len))]
            = [sender EXCEPT !.stream = o]
      BY DEF data
    <3> QED BY <1>5, <3>1, <3>2, Zenon DEF Write
  <2> HIDE DEF o
  <2>7. SenderHolds(t, Stream, Byte) /\ Linked(t, peer, ordered)
    BY <1>1, <2>4, <2>5, Refill, Zenon
  <2> HIDE DEF t
  <2> QED BY <2>6, <2>7, SenderSteps, Zenon
<1>6. CASE End
  <2> DEFINE o == end_input(sender.stream)
             t == fill_window([sender EXCEPT !.stream = o])
  <2>1. sender.stream.nwritten = Len(Stream)
    BY <1>6, Zenon DEF End
  <2>2. /\ o \in ByteStreams(Byte) /\ Outbound(o, Stream) /\ o.nread = sender.stream.nread
        /\ (eof(sender.stream) => eof(o))
    BY <1>2, <2>1, EndOut, Zenon
  <2>3. Step(t) /\ UNCHANGED <<peer, acks, ordered>>
    BY <1>6 DEF End
  <2> HIDE DEF o
  <2>4. SenderHolds(t, Stream, Byte) /\ Linked(t, peer, ordered)
    BY <1>1, <1>3, <2>2, Refill, Zenon
  <2> HIDE DEF t
  <2> QED BY <2>3, <2>4, SenderSteps, Zenon
<1>7. ASSUME NEW p \in [acked : 1 .. EndSeq, read : 0 .. Len(Stream)], Acknowledge(p)
      PROVE  Inv'
  <2>1. /\ p.acked \in MaxOf(1, peer.acked) .. sender.next_seqno
        /\ p.read \in peer.read .. MinOf(p.acked - 1, Len(Stream))
        /\ window(p) >= (IF p.acked = EndSeq THEN 1 ELSE 0)
        /\ peer' = p /\ sender' = sender /\ ordered' = ordered
        /\ acks' \in {others \cup {[ackno |-> p.acked, win |-> window(p)]} : others \in kept}
    BY <1>7 DEF Acknowledge
  <2>2. window(p) >= 0
    <3>1. p.acked \in 1 .. EndSeq /\ p.read \in 0 .. Len(Stream)
      OBVIOUS
    <3>2. window(p) \in Int
      BY <3>1, Sizes16 DEF window, MinOf, MaxOf, EndSeq
    <3>3. window(p) >= 1 \/ window(p) >= 0
      BY <2>1, Zenon
    <3> QED BY <3>2, <3>3
  <2>3. /\ Linked(sender, p, ordered) /\ peer.acked <= p.acked /\ p.acked \in Nat
        /\ p.acked >= 1 /\ window(p) \in 0 .. PeerCapacity
    BY <1>1, <2>1, <2>2, PeerLinked, Zenon
  <2>4. PICK others \in kept : acks' = others \cup {[ackno |-> p.acked, win |-> window(p)]}
    BY <2>1
  <2>5. others \subseteq acks /\ (ordered => others = {})
    BY <2>4 DEF kept
  <2>6. peer.acked \in Nat
    BY <1>1, PeerNumbers, Zenon DEF Linked
  <2>7. AcksOK'
    <3> DEFINE new == [ackno |-> p.acked, win |-> window(p)]
    <3>1. new.ackno = p.acked /\ new.win = window(p)
      OBVIOUS
    <3>2. \A ack \in acks' : ack \in others \/ ack = new
      BY <2>4
    <3>3. p.acked \in 1 .. p.acked /\ \A x \in 1 .. peer.acked : x \in 1 .. p.acked
      BY <2>3, <2>6
    <3> HIDE DEF new
    <3>4. \A ack \in acks' : ack.ackno \in 1 .. p.acked /\ ack.win \in 0 .. PeerCapacity
      BY <1>1, <2>3, <2>5, <3>1, <3>2, <3>3, Zenon DEF AcksOK
    <3>5. ordered' => acks' \subseteq {new}
      BY <2>1, <2>5, <3>2, Zenon
    <3>6. window(peer)' = window(p)
      BY <2>1 DEF window
    <3> QED BY <2>1, <3>4, <3>5, <3>6 DEF AcksOK, new
  <2>8. SenderHolds(sender', Stream, Byte) /\ sender'.segments_out = <<>> /\ ordered' \in BOOLEAN
    BY <1>1, <2>1, Zenon DEF Inv
  <2>9. Linked(sender', peer', ordered')
    BY <2>1, <2>3, Zenon
  <2> QED BY <2>7, <2>8, <2>9, Zenon DEF Inv
<1>8. ASSUME NEW ack \in acks, NEW garbage \in found, AckArrives(ack, garbage)
      PROVE  Inv'
  <2> DEFINE t == ack_received(sender, wrap(ack.ackno, Isn), ack.win, garbage)
  <2>1. ack.ackno \in 1 .. peer.acked /\ ack.win \in 0 .. PeerCapacity
    BY <1>1, Zenon DEF AcksOK
  <2>2. ordered => ack.ackno = peer.acked /\ ack.win = window(peer)
    <3>1. ordered => ack = [ackno |-> peer.acked, win |-> window(peer)]
      BY <1>1, Zenon DEF AcksOK
    <3> QED BY <3>1
  <2>3. wrap(ack.ackno, Isn) \in WrappingInt32 /\ ack.win \in 0 .. WIN_MOD - 1
    <3>1. ack.ackno \in Int /\ ack.win \in 0 .. WIN_MOD - 1
      BY <2>1, Sizes16
    <3> QED BY <3>1, Sizes16, WrapSpec, Zenon
  <2>4. SenderHolds(t, Stream, Byte)
    BY <1>1, <2>3, Sizes16, AckReceived, Zenon
  <2>5. Linked(t, peer, ordered)
    BY <1>1, <2>1, <2>2, AckLinked, Zenon
  <2>6. Step(t) /\ UNCHANGED <<peer, acks, ordered>>
    BY <1>8, Zenon DEF AckArrives
  <2> HIDE DEF t
  <2> QED BY <2>4, <2>5, <2>6, SenderSteps, Zenon
<1>9. CASE Tick
  <2> DEFINE t == sender_tick(sender, 1)
  <2>1. /\ SenderHolds(t, Stream, Byte) /\ t.isn = sender.isn /\ t.initial_rto = sender.initial_rto
        /\ t.next_seqno = sender.next_seqno /\ t.bytes_in_flight = sender.bytes_in_flight
        /\ t.segments_outstanding = sender.segments_outstanding /\ t.syn_sent = sender.syn_sent
        /\ t.receiver_window_size = sender.receiver_window_size
        /\ t.receiver_free_space = sender.receiver_free_space
    <3>1. 1 \in Nat
      OBVIOUS
    <3> QED BY <1>1, <3>1, Sizes16, SenderTick
  <2>2. Step(t) /\ UNCHANGED <<peer, acks, ordered>>
    BY <1>9, Zenon DEF Tick
  <2> HIDE DEF t
  <2>3. Linked(t, peer, ordered)
    <3>1. Same(sender, t)
      BY <2>1, Zenon DEF Same
    <3> QED BY <1>1, <3>1, SameLinked, Zenon
  <2> QED BY <2>1, <2>2, <2>3, SenderSteps, Zenon
<1>10. CASE UNCHANGED vars
  <2>1. sender' = sender /\ peer' = peer /\ acks' = acks /\ ordered' = ordered
    BY <1>10 DEF vars
  <2> QED BY <2>1 DEF Inv, AcksOK, window
<1> QED BY <1>4, <1>5, <1>6, <1>7, <1>8, <1>9, <1>10, Zenon DEF Next

\* The sender's invariant holds in every reachable state.
THEOREM SenderInvariant == Spec => []Inv
BY InitHolds, NextHolds, PTL DEF Spec

\* The types of the sender's fields and of the acknowledgments under way; the 16-bit
\* fields stay 16-bit numbers.
THEOREM TypeCorrect == Spec => []TypeOK
<1>1. ASSUME Inv PROVE TypeOK
  <2>1. Core(sender, Stream, Byte) /\ Linked(sender, peer, ordered) /\ AcksOK
    BY <1>1, Zenon DEF Inv, SenderHolds
  <2>2. /\ sender.stream \in ByteStreams(Byte) /\ sender.next_seqno \in Nat /\ sender.rto \in Nat
        /\ sender.receiver_window_size \in 0 .. WIN_MOD - 1 /\ sender.receiver_free_space \in 0 .. WIN_MOD - 1
        /\ sender.time_elapsed \in Nat
    BY <2>1 DEF Core, Senders
  <2>3. sender.bytes_in_flight \in 0 .. sender.next_seqno
    <3>1. /\ sender.bytes_in_flight \in Nat /\ oldest(sender) \in Nat
          /\ oldest(sender) + sender.bytes_in_flight = sender.next_seqno
      BY <2>1, InFlight, Zenon
    <3> QED BY <2>2, <3>1
  <2>4. sender.time_elapsed \in 0 .. sender.rto - 1
    <3>1. sender.time_elapsed < sender.rto
      BY <2>1, Zenon DEF Core, Timed
    <3> QED BY <2>2, <3>1
  <2>5. \A ack \in acks : ack.ackno \in Nat /\ ack.win \in 0 .. WIN_MOD - 1
    <3>1. peer.acked \in Nat
      BY <2>1, PeerNumbers, Zenon DEF Linked
    <3>2. (\A x \in 1 .. peer.acked : x \in Nat) /\ (\A x \in 0 .. PeerCapacity : x \in 0 .. WIN_MOD - 1)
      BY <3>1, Sizes16
    <3> QED BY <2>1, <3>2, Zenon DEF AcksOK
  <2> QED BY <2>2, <2>3, <2>4, <2>5, Zenon DEF TypeOK
<1> QED BY <1>1, SenderInvariant, PTL

\* Every number sent is the SYN, a byte read from the stream, or the FIN behind its last
\* byte, whatever the peer answers.
THEOREM SentIsReadHolds == Spec => []SentIsRead
<1>1. ASSUME Inv PROVE SentIsRead
  BY <1>1, Zenon DEF Inv, SenderHolds, Core, Counted, SentIsRead
<1> QED BY <1>1, SenderInvariant, PTL

\* fill_window, ack_received and tick never leave work to be sent without a running timer.
THEOREM NeverIdleHolds == Spec => []NeverIdle
<1>1. ASSUME Inv PROVE NeverIdle
  BY <1>1, Zenon DEF Inv, SenderHolds, Armed, Busy, NeverIdle
<1> QED BY <1>1, SenderInvariant, PTL

\* Powers of two double: counted as the subsets of 1..n and of 1..n+1.
LEMMA PowerDoubles ==
  ASSUME NEW n \in Nat
  PROVE  2 ^ n \in Nat /\ 2 ^ (n + 1) = 2 * 2 ^ n
<1> DEFINE S == 1 .. n
           T == 1 .. n + 1
           E == {U \cup {n + 1} : U \in SUBSET S}
<1>1. IsFiniteSet(S) /\ Cardinality(S) = n /\ IsFiniteSet(T) /\ Cardinality(T) = n + 1
  BY FS_Interval
<1>2. T = S \cup {n + 1} /\ n + 1 \notin S
  OBVIOUS
<1> HIDE DEF S, T
<1>3. /\ IsFiniteSet(SUBSET S) /\ Cardinality(SUBSET S) = 2 ^ n
      /\ Cardinality(SUBSET T) = 2 ^ (n + 1)
  BY <1>1, FS_SUBSET, Zenon
<1>4. SUBSET T = (SUBSET S) \cup E /\ (SUBSET S) \cap E = {}
  <2>1. ASSUME NEW U \in SUBSET T PROVE U \in (SUBSET S) \cup E
    <3>1. CASE n + 1 \in U
      <4>1. U \ {n + 1} \in SUBSET S /\ U = (U \ {n + 1}) \cup {n + 1}
        BY <1>2, <3>1
      <4> QED BY <4>1, Zenon
    <3>2. CASE n + 1 \notin U
      BY <1>2, <3>2
    <3> QED BY <3>1, <3>2
  <2>2. ASSUME NEW U \in (SUBSET S) \cup E PROVE U \in SUBSET T
    BY <1>2
  <2>3. SUBSET T = (SUBSET S) \cup E
    BY <2>1, <2>2, Zenon
  <2>4. (SUBSET S) \cap E = {}
    BY <1>2
  <2> QED BY <2>3, <2>4
<1>5. IsFiniteSet(E) /\ Cardinality(E) = Cardinality(SUBSET S)
  <2> DEFINE f == [U \in SUBSET S |-> U \cup {n + 1}]
  <2>1. f \in [SUBSET S -> E]
    OBVIOUS
  <2>2. ASSUME NEW U \in SUBSET S, NEW V \in SUBSET S, f[U] = f[V] PROVE U = V
    <3>1. U \cup {n + 1} = V \cup {n + 1}
      BY <2>2
    <3> QED BY <1>2, <3>1
  <2>3. \A V \in E : \E U \in SUBSET S : f[U] = V
    BY Zenon
  <2>4. f \in Bijection(SUBSET S, E)
    BY <2>1, <2>2, <2>3, Zenon DEF Bijection, Injection, Surjection, IsInjective
  <2> QED BY <1>3, <2>4, FS_Bijection, Zenon DEF ExistsBijection
<1> HIDE DEF E
<1>6. Cardinality((SUBSET S) \cup E) = Cardinality(SUBSET S) + Cardinality(E) - Cardinality({})
  <2>1. Cardinality((SUBSET S) \cup E) =
          Cardinality(SUBSET S) + Cardinality(E) - Cardinality((SUBSET S) \cap E)
    BY <1>3, <1>5, FS_Union
  <2> QED BY <1>4, <2>1, Zenon
<1>7. Cardinality({}) = 0
  BY FS_EmptySet
<1>8. Cardinality(SUBSET S) \in Nat
  BY <1>3, FS_CardinalityType
<1> DEFINE c == Cardinality(SUBSET S)
<1>9. 2 ^ (n + 1) = c + c - 0
  BY <1>3, <1>4, <1>5, <1>6, <1>7, Zenon
<1> HIDE DEF c
<1>10. c \in Nat /\ 2 ^ n = c
  BY <1>3, <1>8 DEF c
<1> QED BY <1>9, <1>10

\* The empty set has one subset.
LEMMA PowerZero == 2 ^ 0 = 1
<1>1. IsFiniteSet({}) /\ Cardinality({}) = 0
  BY FS_EmptySet
<1>2. Cardinality(SUBSET {}) = 2 ^ Cardinality({})
  BY <1>1, FS_SUBSET, Zenon
<1>3. SUBSET {} = {{}}
  OBVIOUS
<1>4. Cardinality({{}}) = 1
  BY FS_Singleton, Zenon
<1> QED BY <1>1, <1>2, <1>3, <1>4, Zenon

\* The sequence of timeouts of tcp_sender.cc is k, 2k, 4k and so on.
LEMMA DoublingPowers ==
  ASSUME NEW k \in Nat
  PROVE  [n \in Nat |-> k * 2 ^ n] \in Doubling(k)
<1> DEFINE f == [n \in Nat |-> k * 2 ^ n]
<1>1. \A n \in Nat : 2 ^ n \in Nat /\ 2 ^ (n + 1) = 2 * 2 ^ n
  BY PowerDoubles, Zenon
<1>2. ASSUME NEW n \in Nat PROVE k * 2 ^ n \in Nat /\ k * 2 ^ (n + 1) = 2 * (k * 2 ^ n)
  <2> DEFINE P == 2 ^ n
  <2>1. P \in Nat /\ 2 ^ (n + 1) = 2 * P
    BY <1>1, Zenon
  <2> HIDE DEF P
  <2>2. k * P \in Nat /\ k * (2 * P) = 2 * (k * P)
    BY <2>1, SMTT(30)
  <2> QED BY <2>1, <2>2, Zenon DEF P
<1>3. k * 2 ^ 0 = k
  <2>1. k * 1 = k
    OBVIOUS
  <2> QED BY <2>1, PowerZero, Zenon
<1>4. 0 \in Nat /\ \A n \in Nat : n + 1 \in Nat
  OBVIOUS
<1>5. f \in [Nat -> Nat]
  BY <1>2, Zenon
<1>6. f[0] = k /\ \A n \in Nat : f[n + 1] = 2 * f[n]
  BY <1>2, <1>3, <1>4, Zenon
<1> HIDE DEF f
<1>7. f \in Doubling(k)
  BY <1>5, <1>6, Zenon DEF Doubling
<1> QED BY <1>7, Zenon DEF f

\* The retransmission timeout is the initial one doubled once per consecutive
\* retransmission, without bound.
THEOREM BackoffHolds == Spec => []Backoff
<1>1. ASSUME Inv PROVE Backoff
  <2> DEFINE f == [n \in Nat |-> sender.initial_rto * 2 ^ n]
  <2>1. sender.initial_rto \in Nat /\ sender.consecutive_retransmissions \in Nat
    BY <1>1 DEF Inv, SenderHolds, Core, Senders
  <2>2. f \in Doubling(sender.initial_rto)
    BY <2>1, DoublingPowers, Zenon
  <2>3. sender.rto = f[sender.consecutive_retransmissions]
    BY <1>1, <2>2, Zenon DEF Inv, SenderHolds, Core, Timed
  <2>4. sender.rto = sender.initial_rto * 2 ^ sender.consecutive_retransmissions
    BY <2>1, <2>3, Zenon
  <2> QED BY <1>1, <2>4, Zenon DEF Inv, SenderHolds, Core, Timed, Linked, Backoff
<1> QED BY <1>1, SenderInvariant, PTL

\* However stale, repeated or reordered the acknowledgments, the sender forgets nothing
\* that the peer has not acknowledged: for streams that fit half of the sequence numbers,
\* and for streams of any length when acknowledgments keep their order.
THEOREM ForgetsOnlyAckedHolds == Spec => [](Unambiguous(ordered) => ForgetsOnlyAcked)
<1>1. ASSUME Inv PROVE Unambiguous(ordered) => ForgetsOnlyAcked
  BY <1>1, Zenon DEF Inv, Linked, ForgetsOnlyAcked, oldest, una
<1> QED BY <1>1, SenderInvariant, PTL

\* Under the same condition the segments kept for retransmission tile the numbers from
\* una to next_seqno, each with its bytes of the stream, its SYN and its FIN.
THEOREM OutstandingTilesHolds == Spec => [](Unambiguous(ordered) => OutstandingTiles)
<1>1. ASSUME Inv, Unambiguous(ordered) PROVE OutstandingTiles
  <2> DEFINE s == sender
             out == s.segments_outstanding
             start(i) == abs_start(s, out[i])
  <2>1. Core(s, Stream, Byte) /\ Linked(s, peer, ordered)
    BY <1>1, Zenon DEF Inv, SenderHolds
  <2>2. s.bytes_in_flight <= HalfSeq
    BY <1>1, <2>1, FewInFlight, Zenon
  <2>3. out \in Seq(Segments(Byte)) /\ Len(out) \in Nat
    BY <2>1 DEF Core, Senders
  <2>4. /\ s.bytes_in_flight \in Nat /\ s.next_seqno \in Nat /\ oldest(s) \in Nat
        /\ oldest(s) + s.bytes_in_flight = s.next_seqno
        /\ s.bytes_in_flight = 0 <=> out = <<>>
    BY <2>1, InFlight, Zenon
  <2>5. una = oldest(s)
    BY DEF una, oldest
  <2>6. \A i \in 1 .. Len(out) :
          /\ sizes(out)[i - 1] \in Nat /\ sizes(out)[i] \in Nat
          /\ abs_start(s, out[i]) = oldest(s) + sizes(out)[i - 1]
          /\ abs_end(s, out[i]) = oldest(s) + sizes(out)[i]
    BY <2>1, <2>2, Places
  <2>7. Train(out, oldest(s), s.isn, Stream) /\ s.bytes_in_flight = sizes(out)[Len(out)] /\ sizes(out)[0] = 0
    <3>1. sizes(out)[0] = 0
      BY <2>3, Sizes, Zenon
    <3> QED BY <2>1, <3>1, Zenon DEF Core, Tiled
  <2>8. ASSUME NEW i \in 1 .. Len(out)
        PROVE  /\ start(i) = IF i = 1 THEN una ELSE abs_end(s, out[i - 1])
               /\ length_in_sequence_space(out[i]) > 0 /\ Len(out[i].payload) <= MAX_PAYLOAD_SIZE
               /\ out[i].syn <=> start(i) = 0
               /\ out[i].fin <=> abs_end(s, out[i]) = EndSeq
               /\ \A k \in 1 .. Len(out[i].payload) : out[i].payload[k] = Stream[start(i) + k - 1]
    <3> DEFINE a == oldest(s) + sizes(out)[i - 1]
               len == length_in_sequence_space(out[i])
    <3>1. start(i) = a /\ a \in Nat /\ sizes(out)[i - 1] \in Nat /\ abs_end(s, out[i]) = oldest(s) + sizes(out)[i]
      BY <2>4, <2>6
    <3>2. Spans(a, len, out[i].syn, out[i].fin, out[i].payload, Stream) /\ len \in 1 .. WIN_MOD
          /\ Len(out[i].payload) <= MAX_PAYLOAD_SIZE
      BY <2>7, Zenon DEF Train, Fresh, Piece
    <3>3. abs_end(s, out[i]) = start(i) + len
      BY Zenon DEF abs_end
    <3>4. len > 0
      <4> HIDE DEF len
      <4> QED BY <3>2, Sizes16
    <3>5. start(i) = IF i = 1 THEN una ELSE abs_end(s, out[i - 1])
      <4>1. CASE i = 1
        <5>1. i - 1 = 0
          BY <4>1
        <5>2. a = oldest(s) + 0
          BY <2>7, <5>1, Zenon
        <5> HIDE DEF a
        <5>3. a = oldest(s)
          BY <2>4, <5>2
        <5> QED BY <2>5, <3>1, <4>1, <5>3, Zenon
      <4>2. CASE i # 1
        <5>1. i - 1 \in 1 .. Len(out)
          BY <2>3, <4>2
        <5>2. abs_end(s, out[i - 1]) = oldest(s) + sizes(out)[i - 1]
          BY <2>6, <5>1, Zenon
        <5> QED BY <3>1, <4>2, <5>2, Zenon
      <4> QED BY <4>1, <4>2, Zenon
    <3>6. /\ out[i].syn <=> a = 0
          /\ out[i].fin <=> a + len = EndSeq
          /\ \A k \in 1 .. Len(out[i].payload) : out[i].payload[k] = Stream[a + k - 1]
      BY <3>2, <3>4, Zenon DEF Spans, EndSeq
    <3> HIDE DEF a, len
    <3>7. \A k \in 1 .. Len(out[i].payload) : out[i].payload[k] = Stream[start(i) + k - 1]
      BY <3>1, <3>6, Zenon
    <3>8. (out[i].syn <=> start(i) = 0) /\ (out[i].fin <=> abs_end(s, out[i]) = EndSeq)
      BY <3>1, <3>3, <3>6, Zenon
    <3> QED BY <3>2, <3>4, <3>5, <3>7, <3>8, Zenon DEF len
  <2>9. s.next_seqno = IF out = <<>> THEN una ELSE abs_end(s, out[Len(out)])
    <3>1. CASE out = <<>>
      <4>1. s.bytes_in_flight = 0
        BY <2>4, <3>1, Zenon
      <4>2. oldest(s) = s.next_seqno
        BY <2>4, <4>1
      <4> QED BY <2>5, <3>1, <4>2, Zenon
    <3>2. CASE out # <<>>
      <4>1. Len(out) \in 1 .. Len(out)
        BY <2>3, <3>2
      <4>2. abs_end(s, out[Len(out)]) = oldest(s) + sizes(out)[Len(out)]
        BY <2>6, <4>1, Zenon
      <4> QED BY <2>4, <2>7, <3>2, <4>2, Zenon
    <3> QED BY <3>1, <3>2, Zenon
  <2> QED BY <2>8, <2>9, Zenon DEF OutstandingTiles
<1>2. Inv => (Unambiguous(ordered) => OutstandingTiles)
  BY <1>1
<1> QED BY <1>2, SenderInvariant, PTL

\* As long as no acknowledgment overtakes another the sender stays inside the window the
\* peer has opened, but for one number against a closed window.
THEOREM WindowRespectedHolds == Spec => [](Unambiguous(ordered) => WindowRespectedInOrder)
<1>1. ASSUME Inv, Unambiguous(ordered) PROVE WindowRespectedInOrder
  BY <1>1, Zenon DEF Inv, Linked, InWindow, WindowRespectedInOrder, WindowRespected
<1>2. Inv => (Unambiguous(ordered) => WindowRespectedInOrder)
  BY <1>1
<1> QED BY <1>2, SenderInvariant, PTL
=============================================================================
