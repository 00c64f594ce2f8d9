-------------------------------- MODULE EventLoop --------------------------------
(***************************************************************************)
(* The event loop (libsponge/util/eventloop.cc) and the local stream        *)
(* sockets it polls (file_descriptor.cc, socket.cc and the kernel).  A loop  *)
(* has rules; one wait cancels the dead rules, polls the fds the others are *)
(* interested in, and calls back those found ready, one after the other.   *)
(* The poll is a snapshot: what it saw may have changed when the callback   *)
(* runs.                                                                   *)
(***************************************************************************)
EXTENDS ByteStream, SequencesExt

\* A wait before its first rule; local is the state the rules' functions are about.
new_wait(local) == [local |-> local, rules |-> <<>>, asked |-> {}]

\* Lines 67-89, for one rule: a dead one is cancelled and dropped, which can change the
\* interest of a later one.
visit(wait, r, dead, cancelled, interested) ==
  IF dead THEN [wait EXCEPT !.local = cancelled]
  ELSE [wait EXCEPT !.rules = Append(@, r), !.asked = IF interested THEN @ \cup {r} ELSE @]

\* Lines 117-129: the polled rules that are ready or whose only condition is a hangup,
\* in the order in which they are served.
to_serve(wait, ready, hup) ==
  LET concerned == SelectSeq(wait.rules, LAMBDA r : r \in wait.asked \cap (ready \cup hup))
  IN [i \in 1 .. Len(concerned) |-> [rule |-> concerned[i], ready |-> concerned[i] \in ready]]

\* Line 135.
busy_wait(served, interested) == ~served /\ interested
-----------------------------------------------------------------------------
\* One direction of a local stream socket (AF_UNIX, SOCK_STREAM).  A shutdown at either
\* end closes it for both; what is in it can still be read.
new_channel == [data |-> <<>>, closed |-> FALSE]

readable(ch) == ch.data # <<>> \/ ch.closed
writable(ch, capacity) == Len(ch.data) < capacity

\* FileDescriptor::read of a readable channel.
fd_read(ch, limit) ==
  LET n == MinOf(limit, Len(ch.data))
  IN [bytes |-> SubSeq(ch.data, 1, n), eof |-> limit > 0 /\ n = 0,
      rest |-> [ch EXCEPT !.data = SubSeq(@, n + 1, Len(@))]]

\* What a write without write_all does to the process: writing to a closed channel raises
\* SIGPIPE, to a full one an exception; writing nothing reaches no channel.
after_write(ch, bytes, capacity) ==
  CASE bytes # <<>> /\ ch.closed -> "sigpipe"
    [] bytes # <<>> /\ ~ch.closed /\ ~writable(ch, capacity) -> "terminated"
    [] OTHER -> "running"

\* Mutant of fd_write: a partial write is taken for a whole one.
fd_write_unchecked(ch, bytes, capacity) ==
  [written |-> Len(bytes),
   rest |-> [ch EXCEPT !.data = @ \o SubSeq(bytes, 1, MinOf(Len(bytes), capacity - Len(ch.data)))]]

\* FileDescriptor::write.
fd_write(ch, bytes, capacity) ==
  LET n == MinOf(Len(bytes), capacity - Len(ch.data))
  IN [written |-> n, rest |-> [ch EXCEPT !.data = @ \o SubSeq(bytes, 1, n)]]

\* Socket::shutdown.
close_channel(ch) == [ch EXCEPT !.closed = TRUE]
=============================================================================
