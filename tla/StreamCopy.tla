-------------------------------- MODULE StreamCopy --------------------------------
(***************************************************************************)
(* bidirectional_stream_copy (apps/bidirectional_stream_copy.cc): an event  *)
(* loop that copies the standard input to a socket and the socket to the   *)
(* standard output, through two byte streams.                              *)
(***************************************************************************)
EXTENDS EventLoop

CONSTANTS
  Input,         \* what comes on the standard input, before its end
  CopyCapacity   \* buffer_size

CopyRules == <<"from_input", "to_socket", "from_socket", "to_output">>

\* typed: how much of the input has come, its end included; nothing is taken before.
new_copy ==
  [outbound |-> new_ByteStream(CopyCapacity), inbound |-> new_ByteStream(CopyCapacity),
   outbound_shutdown |-> FALSE, inbound_shutdown |-> FALSE,
   input_eof |-> FALSE, socket_eof |-> FALSE, output_closed |-> FALSE,
   rules |-> CopyRules, todo |-> <<>>, typed |-> 0, output |-> <<>>]

\* There is something to write, or an end to pass on.
to_be_sent(stream, shut) == ~buffer_empty(stream) \/ (eof(stream) /\ ~shut)

copy_interest(c, r) ==
  LET sound == ~c.outbound.error /\ ~c.inbound.error
  IN CASE r = "from_input" -> sound /\ remaining_capacity(c.outbound) > 0
       [] r = "to_socket" -> to_be_sent(c.outbound, c.outbound_shutdown)
       [] r = "from_socket" -> sound /\ remaining_capacity(c.inbound) > 0
       [] r = "to_output" -> to_be_sent(c.inbound, c.inbound_shutdown)

copy_dead(c, r) ==
  CASE r = "from_input" -> c.input_eof
    [] r = "to_socket" -> FALSE
    [] r = "from_socket" -> c.socket_eof
    [] r = "to_output" -> c.output_closed

copy_cancel(c, r) ==
  IF r \in {"from_input", "to_socket"} THEN [c EXCEPT !.outbound = end_input(@)]
  ELSE [c EXCEPT !.inbound = end_input(@)]

\* Rule 1: what has come and not been read yet; the end is read as no bytes.
from_input(c) ==
  LET come == SubSeq(Input, c.outbound.nwritten + 1, MinOf(c.typed, Len(Input)))
      got == fd_read([data |-> come, closed |-> c.typed > Len(Input)], remaining_capacity(c.outbound))
      written == write(c.outbound, got.bytes)
  IN [c EXCEPT !.input_eof = @ \/ got.eof,
               !.outbound = IF c.input_eof \/ got.eof THEN end_input(written) ELSE written]

\* Rule 2, after put has been written to the socket.
to_socket(c, put) ==
  LET left == pop_output(c.outbound, put)
  IN [c EXCEPT !.outbound = left, !.outbound_shutdown = @ \/ eof(left)]

\* Rule 3, with what was read from the socket.
from_socket(c, got) ==
  LET written == write(c.inbound, got.bytes)
  IN [c EXCEPT !.socket_eof = @ \/ got.eof,
               !.inbound = IF c.socket_eof \/ got.eof THEN end_input(written) ELSE written]

\* Rule 4: the standard output takes all it is given.
to_output(c) ==
  LET left == pop_output(c.inbound, buffer_size(c.inbound))
  IN [c EXCEPT !.output = @ \o c.inbound.buffer, !.inbound = left,
               !.output_closed = @ \/ eof(left), !.inbound_shutdown = @ \/ eof(left)]
=============================================================================
