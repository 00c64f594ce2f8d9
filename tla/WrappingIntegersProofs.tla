------------------------ MODULE WrappingIntegersProofs ------------------------
(***************************************************************************)
(* What wrap and unwrap compute, for every modulus, initial sequence       *)
(* number and checkpoint.                                                  *)
(***************************************************************************)
EXTENDS WrappingIntegers, TLAPS

\* Euclidean division by the modulus: the only fact about % used below.
LEMMA ModSpec ==
  ASSUME NEW a \in Int
  PROVE  /\ a % SEQ_MOD \in WrappingInt32
         /\ \E q \in Int : a = (SEQ_MOD * q) + (a % SEQ_MOD)
<1>1. SEQ_MOD \in Nat /\ SEQ_MOD > 0
  BY SeqModAssumption
<1>2. a % SEQ_MOD \in WrappingInt32
  BY <1>1, SMT DEF WrappingInt32
<1>3. (a \div SEQ_MOD) \in Int /\ a = (SEQ_MOD * (a \div SEQ_MOD)) + (a % SEQ_MOD)
  BY <1>1, SMT
<1> QED BY <1>2, <1>3

\* Two numbers less than a modulus apart and a multiple of it apart are equal.
LEMMA SmallMultiple ==
  ASSUME NEW q \in Int, NEW d \in Int, d = SEQ_MOD * q, -SEQ_MOD < d, d < SEQ_MOD
  PROVE  q = 0 /\ d = 0
BY SeqModAssumption, SMTT(30)
\* How far a multiple of the modulus is from zero.
LEMMA MultipleBounds ==
  ASSUME NEW j \in Int
  PROVE  /\ SEQ_MOD * j \in Int
         /\ j >= 1 => SEQ_MOD * j >= SEQ_MOD
         /\ j <= -1 => SEQ_MOD * j <= -SEQ_MOD
         /\ j = 0 => SEQ_MOD * j = 0
BY SeqModAssumption, SMTT(30)

\* wrap is addition of the initial sequence number modulo SEQ_MOD.
LEMMA WrapSpec ==
  ASSUME NEW x \in Int, NEW isn \in WrappingInt32
  PROVE  /\ wrap(x, isn) \in WrappingInt32
         /\ \E q \in Int : isn + x = (SEQ_MOD * q) + wrap(x, isn)
<1>1. SEQ_MOD \in Nat /\ SEQ_MOD > 0 /\ isn \in Int
  BY SeqModAssumption DEF WrappingInt32
<1>2. PICK q1 \in Int : x = (SEQ_MOD * q1) + (x % SEQ_MOD)
  BY ModSpec
<1>3. x % SEQ_MOD \in Int
  BY ModSpec DEF WrappingInt32
<1>4. PICK q2 \in Int : isn + (x % SEQ_MOD) = (SEQ_MOD * q2) + wrap(x, isn)
  BY <1>1, <1>3, ModSpec DEF wrap, wadd
<1>5. wrap(x, isn) \in WrappingInt32
  BY <1>1, <1>3, ModSpec DEF wrap, wadd
<1>6. isn + x = (SEQ_MOD * (q1 + q2)) + wrap(x, isn)
  BY <1>1, <1>2, <1>3, <1>4, <1>5, SMT DEF WrappingInt32
<1> QED BY <1>5, <1>6

\* Numbers that wrap to the same value differ by a multiple of the modulus.
LEMMA WrapCongruent ==
  ASSUME NEW x \in Int, NEW y \in Int, NEW isn \in WrappingInt32
  PROVE  wrap(x, isn) = wrap(y, isn) <=> \E j \in Int : x - y = SEQ_MOD * j
<1>1. SEQ_MOD \in Nat /\ SEQ_MOD > 0 /\ isn \in Int
  BY SeqModAssumption DEF WrappingInt32
<1>2. PICK qx \in Int : isn + x = (SEQ_MOD * qx) + wrap(x, isn)
  BY WrapSpec
<1>3. PICK qy \in Int : isn + y = (SEQ_MOD * qy) + wrap(y, isn)
  BY WrapSpec
<1>4. wrap(x, isn) \in 0 .. SEQ_MOD - 1 /\ wrap(y, isn) \in 0 .. SEQ_MOD - 1
  BY WrapSpec DEF WrappingInt32
<1>5. ASSUME wrap(x, isn) = wrap(y, isn) PROVE \E j \in Int : x - y = SEQ_MOD * j
  <2>1. x - y = SEQ_MOD * (qx - qy)
    BY <1>1, <1>2, <1>3, <1>4, <1>5, SMT
  <2> QED BY <2>1
<1>6. ASSUME NEW j \in Int, x - y = SEQ_MOD * j PROVE wrap(x, isn) = wrap(y, isn)
  <2> DEFINE d == wrap(x, isn) - wrap(y, isn)
             q == j - qx + qy
  <2>1. d \in Int /\ q \in Int /\ -SEQ_MOD < d /\ d < SEQ_MOD
    BY <1>1, <1>4
  <2>2. d = SEQ_MOD * q
    BY <1>1, <1>2, <1>3, <1>4, <1>6, SMT
  <2>3. d = 0
    BY <2>1, <2>2, SmallMultiple
  <2> QED BY <1>4, <2>3
<1> QED BY <1>5, <1>6

\* The difference unwrap works with: checkpoint + diff wraps to n.
LEMMA DiffSpec ==
  ASSUME NEW n \in WrappingInt32, NEW isn \in WrappingInt32, NEW checkpoint \in Nat
  PROVE  /\ wsub(n, wrap(checkpoint, isn)) \in WrappingInt32
         /\ wrap(checkpoint + wsub(n, wrap(checkpoint, isn)), isn) = n
<1> DEFINE w == wrap(checkpoint, isn)
           d == wsub(n, w)
<1>1. SEQ_MOD \in Nat /\ SEQ_MOD > 0 /\ isn \in Int /\ n \in 0 .. SEQ_MOD - 1 /\ checkpoint \in Int
  BY SeqModAssumption DEF WrappingInt32
<1>2. w \in 0 .. SEQ_MOD - 1
  BY <1>1, WrapSpec DEF WrappingInt32
<1>3. n - w \in Int
  BY <1>1, <1>2
<1>4. d \in WrappingInt32
  BY <1>3, ModSpec DEF wsub
<1>5. d \in Int /\ checkpoint + d \in Int
  BY <1>4, <1>1 DEF WrappingInt32
<1>6. PICK q1 \in Int : isn + checkpoint = (SEQ_MOD * q1) + w
  BY <1>1, WrapSpec
<1>7. PICK q2 \in Int : n - w = (SEQ_MOD * q2) + d
  BY <1>3, ModSpec DEF wsub
<1>8. PICK q3 \in Int : isn + (checkpoint + d) = (SEQ_MOD * q3) + wrap(checkpoint + d, isn)
  BY <1>5, WrapSpec
<1>9. wrap(checkpoint + d, isn) \in 0 .. SEQ_MOD - 1
  BY <1>5, WrapSpec DEF WrappingInt32
<1> DEFINE e == wrap(checkpoint + d, isn)
           q == q1 - q2 - q3
<1>10. e - n \in Int /\ q \in Int /\ -SEQ_MOD < e - n /\ e - n < SEQ_MOD
  BY <1>1, <1>9
<1> HIDE DEF w, d, e
<1>11. e - n = SEQ_MOD * q
  <2>1. isn + (checkpoint + d) = (SEQ_MOD * q3) + e
    BY <1>8 DEF e
  <2>2. e \in Int
    BY <1>9 DEF e
  <2> QED BY <1>1, <1>2, <1>5, <1>6, <1>7, <2>1, <2>2, SMT
<1>12. e - n = 0
  BY <1>10, <1>11, SmallMultiple
<1> QED BY <1>1, <1>4, <1>9, <1>12 DEF d, e, w

\* unwrap returns a stream index that wraps back to the sequence number, and no
\* other index that does is closer to the checkpoint (wrapping_integers.cc:36-45:
\* "the 64-bit sequence number that wraps to `n` and is closest to `checkpoint`").
THEOREM UnwrapClosest ==
  ASSUME NEW n \in WrappingInt32, NEW isn \in WrappingInt32, NEW checkpoint \in Nat
  PROVE  ClosestUnwrap(n, isn, checkpoint)
<1> DEFINE d == wsub(n, wrap(checkpoint, isn))
           u == unwrap(n, isn, checkpoint)
<1>1. SEQ_MOD \in Nat /\ SEQ_MOD > 0 /\ HalfSeq \in Nat /\ SEQ_MOD = 2 * HalfSeq
  BY SeqModAssumption, SMT DEF HalfSeq
<1>2. d \in 0 .. SEQ_MOD - 1 /\ wrap(checkpoint + d, isn) = n
  BY DiffSpec DEF WrappingInt32
<1>3. u = IF d >= HalfSeq /\ d + checkpoint <= SEQ_MOD - 1 THEN checkpoint + d
          ELSE IF d >= HalfSeq THEN checkpoint + (d - SEQ_MOD) ELSE checkpoint + d
  BY <1>1, <1>2 DEF unwrap, signed
<1> HIDE DEF d, u
<1>4. u \in Nat /\ (u = checkpoint + d \/ u = checkpoint + d - SEQ_MOD)
  BY <1>1, <1>2, <1>3
<1>5. wrap(u, isn) = n
  <2>1. u - (checkpoint + d) = SEQ_MOD * 0 \/ u - (checkpoint + d) = SEQ_MOD * (-1)
    BY <1>1, <1>2, <1>4, SMT
  <2> QED BY <1>2, <1>4, <2>1, WrapCongruent
<1>6. ASSUME NEW x \in 0 .. checkpoint + SEQ_MOD, wrap(x, isn) = n
      PROVE  Distance(u, checkpoint) <= Distance(x, checkpoint)
  <2>1. PICK j \in Int : x - (checkpoint + d) = SEQ_MOD * j
    BY <1>2, <1>6, WrapCongruent
  <2>2. SEQ_MOD * j \in Int /\ (j >= 1 => SEQ_MOD * j >= SEQ_MOD)
        /\ (j <= -1 => SEQ_MOD * j <= -SEQ_MOD) /\ (j = 0 => SEQ_MOD * j = 0)
    BY MultipleBounds
  <2> DEFINE m == SEQ_MOD * j
  <2> HIDE DEF m
  <2>3. m \in Int /\ x = checkpoint + d + m /\ (m >= SEQ_MOD \/ m <= -SEQ_MOD \/ m = 0)
    BY <1>2, <2>1, <2>2 DEF m
  <2> QED BY <1>1, <1>2, <1>3, <1>4, <2>3 DEF Distance
<1> QED BY <1>4, <1>5, <1>6 DEF ClosestUnwrap, u

\* An index less than half the sequence space from the checkpoint (or exactly
\* half below it) survives wrapping and unwrapping: what the sender and the
\* receiver rely on when they turn the seqno or ackno of a segment into an index.
THEOREM UnwrapWrap ==
  ASSUME NEW x \in Nat, NEW isn \in WrappingInt32, NEW checkpoint \in Nat,
         x < checkpoint + HalfSeq, checkpoint <= x + HalfSeq
  PROVE  unwrap(wrap(x, isn), isn, checkpoint) = x
<1> DEFINE n == wrap(x, isn)
           d == wsub(n, wrap(checkpoint, isn))
           u == unwrap(n, isn, checkpoint)
<1>1. SEQ_MOD \in Nat /\ SEQ_MOD > 0 /\ HalfSeq \in Nat /\ SEQ_MOD = 2 * HalfSeq
  BY SeqModAssumption, SMT DEF HalfSeq
<1>2. n \in WrappingInt32
  BY WrapSpec
<1>3. d \in 0 .. SEQ_MOD - 1 /\ wrap(checkpoint + d, isn) = n
  BY <1>2, DiffSpec DEF WrappingInt32
<1>4. u = IF d >= HalfSeq /\ d + checkpoint <= SEQ_MOD - 1 THEN checkpoint + d
          ELSE IF d >= HalfSeq THEN checkpoint + (d - SEQ_MOD) ELSE checkpoint + d
  BY <1>1, <1>3 DEF unwrap, signed
<1>5. PICK j \in Int : x - (checkpoint + d) = SEQ_MOD * j
  BY <1>1, <1>3, WrapCongruent
<1> HIDE DEF n, d, u
<1>6. SEQ_MOD * j \in Int /\ (j >= 1 => SEQ_MOD * j >= SEQ_MOD)
      /\ (j <= -1 => SEQ_MOD * j <= -SEQ_MOD) /\ (j = 0 => SEQ_MOD * j = 0)
  BY MultipleBounds
<1>7. j <= -2 => SEQ_MOD * j <= -SEQ_MOD - SEQ_MOD
  <2>1. SEQ_MOD * (j + 1) = (SEQ_MOD * j) + SEQ_MOD
    BY <1>1, SMT
  <2>2. j <= -2 => SEQ_MOD * (j + 1) <= -SEQ_MOD
    BY MultipleBounds
  <2> QED BY <1>1, <1>6, <2>1, <2>2
<1> DEFINE m == SEQ_MOD * j
<1> HIDE DEF m
<1>8. m \in Int /\ x = checkpoint + d + m
      /\ (m >= SEQ_MOD \/ m <= -SEQ_MOD - SEQ_MOD \/ m = -SEQ_MOD \/ m = 0)
  <2>1. j = -1 => SEQ_MOD * j = -SEQ_MOD
    BY <1>1, SMT
  <2>2. j >= 1 \/ j <= -2 \/ j = -1 \/ j = 0
    OBVIOUS
  <2> QED BY <1>3, <1>5, <1>6, <1>7, <2>1, <2>2 DEF m
<1>9. u = x
  BY <1>1, <1>3, <1>4, <1>8
<1> QED BY <1>9 DEF u, n
=============================================================================
