----------------------------- MODULE WrappingSpec -----------------------------
(***************************************************************************)
(* A stream whose numbers are sent as wrapping integers: isn is its        *)
(* initial sequence number and checkpoint the number reached so far, which *)
(* both ends pass to unwrap.                                               *)
(***************************************************************************)
EXTENDS WrappingIntegers

CONSTANT MaxCheckpoint  \* bounds how far the stream gets

ASSUME MaxCheckpointAssumption == MaxCheckpoint \in Nat

VARIABLES isn, checkpoint

vars == <<isn, checkpoint>>

Init == isn \in WrappingInt32 /\ checkpoint = 0

Advance ==
  /\ checkpoint < MaxCheckpoint
  /\ checkpoint' = checkpoint + 1
  /\ UNCHANGED isn

Spec == Init /\ [][Advance]_vars
-----------------------------------------------------------------------------
\* The state is an initial sequence number and a stream position.
TypeOK == isn \in WrappingInt32 /\ checkpoint \in Nat

\* wrapping_integers.cc:30 promises of unwrap "the 64-bit sequence number that wraps to
\* n and is closest to checkpoint"; near 0, where the closest number would be negative,
\* it is the closest of those that exist.
UnwrapsToClosest == \A n \in WrappingInt32 : ClosestUnwrap(n, isn, checkpoint)

\* A number less than half the sequence space away from the checkpoint survives the trip
\* through its 32-bit form.
RoundTrip ==
  \A x \in 0 .. checkpoint + HalfSeq - 1 :
    checkpoint - x <= HalfSeq - 1 => unwrap(wrap(x, isn), isn, checkpoint) = x
=============================================================================
