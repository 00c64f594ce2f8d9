-------------------------- MODULE StreamReassembler --------------------------
(***************************************************************************)
(* The reassembler (libsponge/stream_reassembler.cc): a ring of _capacity  *)
(* slots holds the bytes rpos .. rpos+_capacity-1 of the stream; slot      *)
(* i % _capacity holds byte i and bit_map says whether it has arrived.     *)
(* Stream indices count from 0.                                            *)
(***************************************************************************)
EXTENDS ByteStream, FiniteSets, FiniteSetsExt

\* eof_index before any substring was marked last: (size_t)-1 in the code, a
\* value no byte count reaches.
NoEof == -1

Slots(capacity) == 0 .. capacity - 1

new_StreamReassembler(capacity, filler) ==
  [output |-> new_ByteStream(capacity), capacity |-> capacity,
   buffer |-> [b \in Slots(capacity) |-> filler],
   bit_map |-> [b \in Slots(capacity) |-> FALSE],
   rpos |-> 0, unassembled_bytes |-> 0, eof_index |-> NoEof]

\* The stream indices of a substring that fall in the window (lines 24-28).
StoredIndices(r, data, index) ==
  MaxOf(r.rpos, index) .. MinOf(r.rpos + r.capacity, index + Len(data)) - 1

\* Mutant of store: a byte that had already arrived is counted again.
store_recounted(r, data, index) ==
  LET stored == StoredIndices(r, data, index)
      slot == {i % r.capacity : i \in stored}
      source(b) == CHOOSE i \in stored : i % r.capacity = b
  IN [r EXCEPT
        !.buffer = [b \in Slots(r.capacity) |->
                     IF b \in slot THEN data[source(b) - index + 1] ELSE r.buffer[b]],
        !.bit_map = [b \in Slots(r.capacity) |-> b \in slot \/ r.bit_map[b]],
        !.unassembled_bytes = @ + Cardinality(stored)]

\* Lines 28-41: copy the bytes that fall in the window into their slots.
store(r, data, index) ==
  LET stored == StoredIndices(r, data, index)
      slot == {i % r.capacity : i \in stored}
      source(b) == CHOOSE i \in stored : i % r.capacity = b
  IN [r EXCEPT
        !.buffer = [b \in Slots(r.capacity) |->
                     IF b \in slot THEN data[source(b) - index + 1] ELSE r.buffer[b]],
        !.bit_map = [b \in Slots(r.capacity) |-> b \in slot \/ r.bit_map[b]],
        !.unassembled_bytes = @ + Cardinality({i \in stored : ~r.bit_map[i % r.capacity]})]

\* Mutant of avail_end: the run stops one byte early.
avail_end_short(r) ==
  LET end == Min({e \in r.rpos .. r.rpos + r.capacity :
                    e = r.rpos + r.capacity \/ ~r.bit_map[e % r.capacity]})
  IN MaxOf(r.rpos, end - 1)

\* Lines 44-46: one past the last byte of the contiguous run that starts at rpos.
avail_end(r) ==
  Min({e \in r.rpos .. r.rpos + r.capacity :
         e = r.rpos + r.capacity \/ ~r.bit_map[e % r.capacity]})

\* Mutants of flush: the slots taken keep their bits; the slots of the whole run lose
\* theirs although the output took only part of it.
flush_uncleared(r) ==
  LET data_submit == [k \in 1 .. avail_end(r) - r.rpos |-> r.buffer[(r.rpos + k - 1) % r.capacity]]
      written_bytes == write_count(r.output, data_submit)
  IN [r EXCEPT !.output = write(@, data_submit), !.rpos = @ + written_bytes,
               !.unassembled_bytes = @ - written_bytes]
flush_clears_run(r) ==
  LET data_submit == [k \in 1 .. avail_end(r) - r.rpos |-> r.buffer[(r.rpos + k - 1) % r.capacity]]
      written_bytes == write_count(r.output, data_submit)
      cleared == {i % r.capacity : i \in r.rpos .. avail_end(r) - 1}
  IN [r EXCEPT
        !.output = write(@, data_submit),
        !.bit_map = [b \in Slots(r.capacity) |-> r.bit_map[b] /\ b \notin cleared],
        !.rpos = @ + written_bytes,
        !.unassembled_bytes = @ - written_bytes]

\* Lines 49-68: write the contiguous run to the output, which may take only part
\* of it, and clear the slots of what was taken.
flush(r) ==
  LET data_submit == [k \in 1 .. avail_end(r) - r.rpos |-> r.buffer[(r.rpos + k - 1) % r.capacity]]
      written_bytes == write_count(r.output, data_submit)
      cleared == {i % r.capacity : i \in r.rpos .. r.rpos + written_bytes - 1}
  IN [r EXCEPT
        !.output = write(@, data_submit),
        !.bit_map = [b \in Slots(r.capacity) |-> r.bit_map[b] /\ b \notin cleared],
        !.rpos = @ + written_bytes,
        !.unassembled_bytes = @ - written_bytes]

\* Mutant of finish: the output ends with the last substring, whatever is missing.
finish_early(r, data, index, last) ==
  [r EXCEPT !.eof_index = IF last THEN index + Len(data) ELSE @,
            !.output = IF last THEN end_input(@) ELSE @]

\* Lines 77-87: remember where the stream ends; end the output once it is all there.
finish(r, data, index, last) ==
  LET eof_index == IF last THEN index + Len(data) ELSE r.eof_index
  IN [r EXCEPT
        !.eof_index = eof_index,
        !.output = IF @.nwritten = eof_index THEN end_input(@) ELSE @]

push_substring(r, data, index, last) == finish(flush(store(r, data, index)), data, index, last)

empty(r) == r.unassembled_bytes = 0

\* The slots whose bit is set.
Occupied(r) == {b \in Slots(r.capacity) : r.bit_map[b]}
=============================================================================
