--------------------------- MODULE WrappingIntegers ---------------------------
(***************************************************************************)
(* 32-bit sequence numbers (libsponge/wrapping_integers.cc): a wrapping    *)
(* integer is a number in 0..SEQ_MOD-1 and SEQ_MOD stands for 2^32.        *)
(***************************************************************************)
EXTENDS Integers

CONSTANT SEQ_MOD

ASSUME SeqModAssumption == SEQ_MOD \in Nat /\ SEQ_MOD > 0 /\ SEQ_MOD % 2 = 0

WrappingInt32 == 0 .. SEQ_MOD - 1

\* The sign bit of a 32-bit number: 0x80000000.
HalfSeq == SEQ_MOD \div 2

\* Mutant of wsub: the operands are swapped.
wsub_swapped(a, b) == (b - a) % SEQ_MOD

\* WrappingInt32 + uint32_t and WrappingInt32 - WrappingInt32; the uint64_t
\* second argument of + is first cut to 32 bits.
wadd(a, n) == (a + (n % SEQ_MOD)) % SEQ_MOD
wsub(a, b) == (a - b) % SEQ_MOD

wrap(n, isn) == wadd(isn, n)

\* static_cast<int32_t> of a 32-bit difference.
signed(diff) == IF diff >= HalfSeq THEN diff - SEQ_MOD ELSE diff

\* Mutant of unwrap: no care for a checkpoint near 0.
unwrap_unguarded(n, isn, checkpoint) == checkpoint + signed(wsub(n, wrap(checkpoint, isn)))

unwrap(n, isn, checkpoint) ==
  LET diff == wsub(n, wrap(checkpoint, isn))
  IN IF diff >= HalfSeq /\ diff + checkpoint <= SEQ_MOD - 1
     THEN checkpoint + diff
     ELSE checkpoint + signed(diff)

Distance(a, b) == IF a >= b THEN a - b ELSE b - a

\* u is a stream index that wraps to n and no other one is closer to checkpoint
\* (an index beyond checkpoint + SEQ_MOD never is).
ClosestUnwrap(n, isn, checkpoint) ==
  LET u == unwrap(n, isn, checkpoint)
  IN /\ u \in Nat
     /\ wrap(u, isn) = n
     /\ \A x \in 0 .. checkpoint + SEQ_MOD :
          wrap(x, isn) = n => Distance(u, checkpoint) <= Distance(x, checkpoint)
=============================================================================
