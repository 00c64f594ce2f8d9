------------------------------ MODULE ByteStream ------------------------------
(***************************************************************************)
(* The in-order byte stream (libsponge/byte_stream.cc): a bounded FIFO     *)
(* with counters of the bytes ever written and read.  A stream is a        *)
(* record; each method is an operator from stream to stream or to a value. *)
(* The counter _size of the code is the length of the buffer: write and    *)
(* pop_output change both by the same amount.                              *)
(***************************************************************************)
EXTENDS Integers, Sequences

MinOf(a, b) == IF a <= b THEN a ELSE b
MaxOf(a, b) == IF a >= b THEN a ELSE b

new_ByteStream(capacity) ==
  [buffer |-> <<>>, capacity |-> capacity, nwritten |-> 0, nread |-> 0,
   input_ended |-> FALSE, error |-> FALSE]

buffer_size(s) == Len(s.buffer)
buffer_empty(s) == buffer_size(s) = 0
remaining_capacity(s) == s.capacity - buffer_size(s)
eof(s) == s.input_ended /\ buffer_empty(s)

\* The count write returns: what does not fit is cut off.
write_count(s, data) == MinOf(Len(data), remaining_capacity(s))

write(s, data) ==
  LET n == write_count(s, data)
  IN [s EXCEPT !.buffer = @ \o SubSeq(data, 1, n), !.nwritten = @ + n]

peek_output(s, len) == SubSeq(s.buffer, 1, MinOf(buffer_size(s), len))

\* Mutant of pop_output: the count of bytes read goes the wrong way.
pop_output_miscounted(s, len) ==
  LET n == MinOf(buffer_size(s), len)
  IN [s EXCEPT !.buffer = SubSeq(@, n + 1, Len(@)), !.nread = @ - n]

\* pop_output, and read, which returns peek_output(s, len) and then pops it.
pop_output(s, len) ==
  LET n == MinOf(buffer_size(s), len)
  IN [s EXCEPT !.buffer = SubSeq(@, n + 1, Len(@)), !.nread = @ + n]

end_input(s) == [s EXCEPT !.input_ended = TRUE]
set_error(s) == [s EXCEPT !.error = TRUE]

ByteStreams(Byte) ==
  [buffer : Seq(Byte), capacity : Nat, nwritten : Nat, nread : Nat,
   input_ended : BOOLEAN, error : BOOLEAN]
=============================================================================
