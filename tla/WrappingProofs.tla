---------------------------- MODULE WrappingProofs ----------------------------
(***************************************************************************)
(* A stream of any length, with any initial sequence number, keeps its     *)
(* numbers through their wrapped form.                                     *)
(***************************************************************************)
EXTENDS WrappingSpec, WrappingIntegersProofs

\* The initial sequence number stays a WrappingInt32 and the checkpoint of unwrap a number.
LEMMA StateType == Spec => []TypeOK
<1>1. Init => TypeOK
  BY DEF Init, TypeOK
<1>2. TypeOK /\ [Advance]_vars => TypeOK'
  BY DEF TypeOK, Advance, vars
<1> QED BY <1>1, <1>2, PTL DEF Spec

\* At every position of the stream, unwrap (wrapping_integers.cc:36-45) gives the number
\* closest to the checkpoint for every 32-bit number.
THEOREM AlwaysClosest == Spec => []UnwrapsToClosest
<1>1. TypeOK => UnwrapsToClosest
  BY UnwrapClosest DEF TypeOK, UnwrapsToClosest
<1> QED BY <1>1, StateType, PTL

\* At every position of the stream, wrap then unwrap is the identity on the numbers
\* within half the sequence space.
THEOREM AlwaysRoundTrip == Spec => []RoundTrip
<1>1. TypeOK => RoundTrip
  <2> SUFFICES ASSUME TypeOK,
                      NEW x \in 0 .. checkpoint + HalfSeq - 1, checkpoint - x <= HalfSeq - 1
               PROVE  unwrap(wrap(x, isn), isn, checkpoint) = x
    BY DEF RoundTrip
  <2>1. HalfSeq \in Nat
    BY SeqModAssumption, SMT DEF HalfSeq
  <2>2. x \in Nat /\ isn \in WrappingInt32 /\ checkpoint \in Nat
        /\ x < checkpoint + HalfSeq /\ checkpoint <= x + HalfSeq
    BY <2>1 DEF TypeOK
  <2> QED BY <2>2, UnwrapWrap
<1> QED BY <1>1, StateType, PTL
=============================================================================
