-------------------------- MODULE ReassembledStream --------------------------
(***************************************************************************)
(* What it means for a reassembler with cap slots to hold part of a given  *)
(* stream str, whose bytes are in B.                                       *)
(***************************************************************************)
EXTENDS StreamReassembler

\* The substring of length len that starts at stream index index.
Substring(str, index, len) == SubSeq(str, index + 1, index + len)

\* The fields of a reassembler whose running count is in counts.
ReassemblerType(cap, B, counts) ==
  [output : ByteStreams(B), capacity : {cap},
   buffer : [Slots(cap) -> B], bit_map : [Slots(cap) -> BOOLEAN],
   rpos : Nat, unassembled_bytes : counts, eof_index : Nat \cup {NoEof}]

\* What waits in the output is the stretch of the stream the reader has not taken
\* yet, and the ring starts exactly where the output ends.
OutputHolds(r, str, cap) ==
  LET out == r.output
  IN /\ out.capacity = cap
     /\ Len(out.buffer) <= cap
     /\ out.nread + Len(out.buffer) = out.nwritten
     /\ out.nwritten = r.rpos
     /\ r.rpos <= Len(str)
     /\ \A k \in 1 .. Len(out.buffer) : out.buffer[k] = str[out.nread + k]

\* A slot marked as arrived holds the byte of the stream whose index in the window
\* maps to it.
RingHolds(r, str, cap) ==
  \A i \in r.rpos .. r.rpos + cap - 1 :
    r.bit_map[i % cap] => i < Len(str) /\ r.buffer[i % cap] = str[i + 1]

\* The end of the output and the end of the stream.
EndHolds(r, str) ==
  /\ r.eof_index \in {NoEof, Len(str)}
  /\ r.output.input_ended <=> r.output.nwritten = r.eof_index

\* All of it; how many slots are occupied is another matter.
Holds(r, str, cap, B) ==
  /\ r \in ReassemblerType(cap, B, {r.unassembled_bytes})
  /\ OutputHolds(r, str, cap) /\ RingHolds(r, str, cap) /\ EndHolds(r, str)
=============================================================================
