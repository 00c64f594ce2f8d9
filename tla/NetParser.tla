------------------------------- MODULE NetParser -------------------------------
(***************************************************************************)
(* Bytes on the wire (libsponge/util/parser.cc, buffer.cc, util.cc): the   *)
(* parser that takes integers off the front of a buffer and remembers the  *)
(* first time it ran short, its inverse, and the Internet checksum.  A     *)
(* 32-bit number is the pair of its 16-bit halves.                         *)
(***************************************************************************)
EXTENDS Integers, SequencesExt

NoError == "NoError"

new_NetParser(bytes) == [buffer |-> bytes, error |-> NoError]

set_parse_error(p, res) == [p EXCEPT !.error = res]

\* Mutant of _check_size: the last byte is taken for missing.
_check_size_strict(p, size) ==
  IF size >= Len(p.buffer) THEN set_parse_error(p, "PacketTooShort") ELSE p

_check_size(p, size) ==
  IF size > Len(p.buffer) THEN set_parse_error(p, "PacketTooShort") ELSE p

drop(bytes, n) == SubSeq(bytes, n + 1, Len(bytes))

\* NetParser::remove_prefix; Buffer::remove_prefix is never asked for more than there is.
remove_prefix(parser, n) ==
  LET p == _check_size(parser, n)
  IN IF p.error # NoError THEN p ELSE [p EXCEPT !.buffer = drop(@, n)]

\* The big-endian number of 1, 2 or 4 bytes; 0 where there is none.
int(bytes) ==
  CASE Len(bytes) = 1 -> bytes[1]
    [] Len(bytes) = 2 -> 256 * bytes[1] + bytes[2]
    [] Len(bytes) = 4 -> <<256 * bytes[1] + bytes[2], 256 * bytes[3] + bytes[4]>>

zero(len) == int([i \in 1 .. len |-> 0])

\* u8, u16 or u32: the next number, appended to those already read.
_parse_int(read, len) ==
  LET p == _check_size(read.p, len)
  IN IF p.error # NoError THEN [p |-> p, vals |-> Append(read.vals, zero(len))]
     ELSE [p |-> [p EXCEPT !.buffer = drop(@, len)],
           vals |-> Append(read.vals, int(SubSeq(p.buffer, 1, len)))]

\* The numbers of the given widths, one after the other.
parse_ints(p, lens) == FoldLeft(_parse_int, [p |-> p, vals |-> <<>>], lens)

u8(val) == <<val % 256>>
u16(val) == <<(val \div 256) % 256, val % 256>>
u32(val) == u16(val[1]) \o u16(val[2])

\* std::string::resize: cut off or padded with zeros.
resize(bytes, n) == [i \in 1 .. n |-> IF i <= Len(bytes) THEN bytes[i] ELSE 0]
-----------------------------------------------------------------------------
new_InternetChecksum(initial_sum) == [sum |-> initial_sum, parity |-> FALSE]

\* Bytes at even places of all that was added count as high bytes.
checksum_add(check, data) ==
  LET high(i) == (i % 2 = 1) # check.parity
  IN [sum |-> check.sum + FoldLeft(+, 0, [i \in 1 .. Len(data) |->
                                     IF high(i) THEN 256 * data[i] ELSE data[i]]),
      parity |-> check.parity # (Len(data) % 2 = 1)]

fold_carry(sum) == (sum \div 65536) + (sum % 65536)

\* The complement of the folded sum; no 32-bit sum needs more than two folds.
checksum_value(check) == 65535 - fold_carry(fold_carry(check.sum))
=============================================================================
