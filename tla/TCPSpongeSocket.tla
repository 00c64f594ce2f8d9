----------------------------- MODULE TCPSpongeSocket -----------------------------
(***************************************************************************)
(* The socket (libsponge/tcp_helpers/tcp_sponge_socket.cc): a TCPConnection *)
(* run by an event loop in a thread of its own.  The owner and the thread   *)
(* share a local stream socket, the flag _abort and nothing else.  The      *)
(* datagrams go through an adapter that may be told to lose some.          *)
(***************************************************************************)
EXTENDS TCPState, EventLoop, FdAdapter

CONSTANTS
  Filler,
  PipeCapacity, \* what one direction of the local stream socket holds
  Elapsed,      \* the milliseconds an idle wait may take; one that serves a rule takes none
  MaxPackets,   \* bounds the datagrams under way in each direction; more are lost
  MaxFaults,    \* bounds the datagrams lost and the resets
  PeerAddress, Nowhere \* where the datagrams come from, and an address that was not set

ASSUME SocketAssumption ==
  /\ PipeCapacity \in Nat \ {0} /\ Elapsed \subseteq Nat \ {0}
  /\ MaxPackets \in Nat \ {0} /\ MaxFaults \in Nat

VARIABLES
  sock,    \* the TCPSpongeSocket
  pipe,    \* the two directions of the local stream socket
  wire,    \* the datagrams under way to the peer and from it
  faults,
  process  \* "running", or how the process was ended: "sigpipe", "terminated"

Rules == <<"arrive", "from_owner", "to_owner", "depart">>

\* The constructor, _initialize_TCP, and what connect() and listen_and_accept() do before
\* they run the event loop.
new_TCPSpongeSocket(config, loss, listen) ==
  LET fresh == new_TCPConnection(config, Filler)
  IN [phase |-> "opening", listen |-> listen, loss |-> loss,
      tcp |-> IF listen THEN fresh ELSE connect(fresh),
      adapter |-> set_listening(new_FdAdapter(Nowhere, IF listen THEN Nowhere ELSE PeerAddress), listen),
      rules |-> Rules, todo |-> <<>>, abort |-> FALSE, eof |-> FALSE,
      inbound_shutdown |-> FALSE, outbound_shutdown |-> FALSE]

\* connect() and listen_and_accept() run the loop themselves, until this is false.
still_opening(s) ==
  state(s.tcp) \in IF s.listen THEN {State.LISTEN, State.SYN_RCVD, State.SYN_SENT} ELSE {State.SYN_SENT}

\* Mutant of has_for_owner: the end is not something to pass on.
has_for_owner_bytes(s) == ~buffer_empty(inbound(s.tcp))

has_for_owner(s) ==
  \/ ~buffer_empty(inbound(s.tcp))
  \/ (eof(inbound(s.tcp)) \/ inbound(s.tcp).error) /\ ~s.inbound_shutdown

interest(s, r) ==
  CASE r = "arrive" -> s.tcp.active
    [] r = "from_owner" -> /\ s.tcp.active /\ ~s.outbound_shutdown
                           /\ remaining_capacity(outbound(s.tcp)) > 0
    [] r = "to_owner" -> has_for_owner(s)
    [] r = "depart" -> s.tcp.segments_out # <<>>

\* Only rule 2 reads a descriptor that can end, and only it does something when cancelled.
dead(s, r) == r = "from_owner" /\ s.eof

end_outbound(s) == [s EXCEPT !.tcp = end_input_stream(@), !.outbound_shutdown = TRUE]

cancel(s, r) == IF r = "from_owner" THEN end_outbound(s) ELSE s

ready(r) ==
  CASE r = "arrive" -> wire.down # <<>>
    [] r = "from_owner" -> readable(pipe.o2t)
    [] r = "to_owner" -> writable(pipe.t2o, PipeCapacity)
    [] r = "depart" -> TRUE

hup(r) == r \in {"from_owner", "to_owner"} /\ pipe.o2t.closed /\ pipe.t2o.closed

\* Mutant of after_wait: the flag is not looked at.
after_wait_deaf(s, ms) ==
  LET ticked == [s EXCEPT !.tcp = saturated(tick(@, ms))]
      now == IF s.tcp.active THEN ticked ELSE s
  IN IF s.phase = "opening" /\ ~still_opening(now) THEN [now EXCEPT !.phase = "thread"] ELSE now

\* The rest of _tcp_loop's body, and its condition: the flag, the clock, and whether the
\* connection is open and the thread can be started.
after_wait(s, ms) ==
  LET ticked == [s EXCEPT !.tcp = saturated(tick(@, ms))]
      now == IF s.tcp.active THEN ticked ELSE s
  IN IF s.abort THEN [s EXCEPT !.phase = "leaving"]
     ELSE IF s.phase = "opening" /\ ~still_opening(now) THEN [now EXCEPT !.phase = "thread"] ELSE now
-----------------------------------------------------------------------------
looping == process = "running" /\ sock.phase \in {"opening", "thread"}

waiting_loop ==
  LET visited[n \in 0 .. Len(sock.rules)] ==
        LET wait == visited[n - 1]
            r == sock.rules[n]
        IN IF n = 0 THEN new_wait(sock)
           ELSE visit(wait, r, dead(wait.local, r), cancel(wait.local, r), interest(wait.local, r))
  IN visited[Len(sock.rules)]

set_up_sock(loop) == [loop.local EXCEPT !.rules = loop.rules]

found_by_poll(loop) == to_serve(loop, {r \in loop.asked : ready(r)}, {r \in loop.asked : hup(r)})

\* Nothing is under way, or about to be: only then does a timer expire.
quiet == wire.up = <<>> /\ (looping => sock.tcp.segments_out = <<>> /\ (sock.tcp.active => wire.down = <<>>))

\* wait_next_event up to the poll that found something.
Poll ==
  LET loop == waiting_loop
      serve == found_by_poll(loop)
  IN /\ looping /\ sock.todo = <<>> /\ serve # <<>>
     /\ sock' = [set_up_sock(loop) EXCEPT !.todo = serve]
     /\ UNCHANGED <<pipe, wire, faults, process>>

\* The poll found nothing to serve.  A hangup of a descriptor nobody is interested in
\* makes it return at once, over and over; the clock is what such turns change.
Idle(ms) ==
  LET loop == waiting_loop
      s == set_up_sock(loop)
      next == after_wait(s, ms)
  IN /\ looping /\ sock.todo = <<>> /\ loop.asked # {}
     /\ found_by_poll(loop) = <<>>
     /\ quiet \/ next.tcp.segments_out = s.tcp.segments_out
     /\ sock' = next
     /\ UNCHANGED <<pipe, wire, faults, process>>

\* Result::Exit: nothing is left to poll.  A thread is started all the same.
Exit ==
  LET loop == waiting_loop
  IN /\ looping /\ sock.todo = <<>> /\ loop.asked = {}
     /\ sock' = [set_up_sock(loop) EXCEPT !.phase = IF @ = "opening" THEN "thread" ELSE "leaving"]
     /\ UNCHANGED <<pipe, wire, faults, process>>

\* The socket after the callback of the first rule to serve has made it s; served says
\* whether the callback read or wrote the descriptor.
Served(s, served) ==
  LET rest == Tail(sock.todo)
  IN IF busy_wait(served, interest(s, Head(sock.todo).rule))
     THEN sock' = s /\ process' = "terminated"
     ELSE /\ sock' = IF rest = <<>> THEN after_wait([s EXCEPT !.todo = rest], 0)
                     ELSE [s EXCEPT !.todo = rest]
          /\ process' = "running"

serving(r) == looping /\ sock.todo # <<>> /\ Head(sock.todo) = [rule |-> r, ready |-> TRUE]

\* Rule 1.
Arrive(dropped, garbage) ==
  LET seg == Head(wire.down)
      read == lossy_read(udp_read(sock.adapter, PeerAddress, seg, seg), dropped)
      tcp == IF read.seg = NoSegment THEN sock.tcp ELSE segment_received(sock.tcp, read.seg, garbage)
  IN /\ serving("arrive")
     /\ dropped => sock.loss.down
     /\ faults + bit(dropped) <= MaxFaults /\ faults' = faults + bit(dropped)
     /\ wire' = [wire EXCEPT !.down = Tail(@)]
     /\ Served([sock EXCEPT !.adapter = read.ad, !.tcp = saturated(tcp)], TRUE)
     /\ UNCHANGED pipe

\* Rule 2.
FromOwner ==
  LET got == fd_read(pipe.o2t, remaining_capacity(outbound(sock.tcp)))
      s == [sock EXCEPT !.tcp = conn_write(@, got.bytes), !.eof = @ \/ got.eof]
  IN /\ serving("from_owner")
     /\ pipe' = [pipe EXCEPT !.o2t = got.rest]
     /\ IF write_count(outbound(sock.tcp), got.bytes) # Len(got.bytes)
        THEN sock' = s /\ process' = "terminated"
        ELSE Served(IF s.eof THEN end_outbound(s) ELSE s, TRUE)
     /\ UNCHANGED <<wire, faults>>

\* Rule 3.
ToOwner ==
  LET bytes == inbound(sock.tcp).buffer
      killed == after_write(pipe.t2o, bytes, PipeCapacity)
      put == fd_write(pipe.t2o, bytes, PipeCapacity)
      stream == pop_output(inbound(sock.tcp), put.written)
      finished == eof(stream) \/ stream.error
  IN /\ serving("to_owner")
     /\ IF killed # "running" THEN process' = killed /\ UNCHANGED <<sock, pipe>>
        ELSE /\ pipe' = [pipe EXCEPT !.t2o = IF finished THEN close_channel(put.rest) ELSE put.rest]
             /\ Served([sock EXCEPT !.tcp.receiver.reassembler.output = stream,
                                    !.inbound_shutdown = @ \/ finished], TRUE)
     /\ UNCHANGED <<wire, faults>>

\* The segments of out that are not lost.
kept(out, lost) == [i \in 1 .. Len(out) - Cardinality(lost) |->
  out[CHOOSE j \in DOMAIN out \ lost : Cardinality((DOMAIN out \ lost) \cap 1 .. j) = i]]

\* Mutant of departing: one segment at a time.
departing_one(tcp) == SubSeq(tcp.segments_out, 1, 1)

departing(tcp) == tcp.segments_out

under_way(datagrams) == SubSeq(datagrams, 1, MinOf(MaxPackets, Len(datagrams)))

\* Rule 4; the lossy adapter does not write the segments it loses.
Depart(lost) ==
  LET out == departing(sock.tcp)
  IN /\ serving("depart") /\ lost \subseteq DOMAIN out
     /\ lost # {} => sock.loss.up
     /\ faults + Cardinality(lost) <= MaxFaults /\ faults' = faults + Cardinality(lost)
     /\ wire' = [wire EXCEPT !.up = under_way(@ \o kept(out, lost))]
     /\ Served([sock EXCEPT !.tcp.segments_out = SubSeq(@, Len(out) + 1, Len(@))], lost # DOMAIN out)
     /\ UNCHANGED pipe

\* Lines 120-127 of eventloop.cc: both directions are closed and there is no room to write.
Hangup ==
  LET r == Head(sock.todo).rule
      rest == Tail(sock.todo)
      s == [cancel(sock, r) EXCEPT !.rules = SelectSeq(@, LAMBDA x : x # r), !.todo = rest]
  IN /\ looping /\ sock.todo # <<>> /\ ~Head(sock.todo).ready
     /\ sock' = IF rest = <<>> THEN after_wait(s, 0) ELSE s
     /\ UNCHANGED <<pipe, wire, faults, process>>

\* The end of _tcp_main: shutdown(SHUT_RDWR), and _tcp.reset(), with what it has queued.
Leave ==
  /\ process = "running" /\ sock.phase = "leaving"
  /\ pipe' = [o2t |-> close_channel(pipe.o2t), t2o |-> close_channel(pipe.t2o)]
  /\ sock' = [sock EXCEPT !.phase = "done", !.tcp = destroy(@)]
  /\ UNCHANGED <<wire, faults, process>>

\* When a step of the thread can change something.
thread_can ==
  LET loop == waiting_loop
      s == set_up_sock(loop)
      idle_matters(ms) ==
        LET next == after_wait(s, ms)
        IN next # sock /\ (quiet \/ next.tcp.segments_out = s.tcp.segments_out)
  IN /\ process = "running"
     /\ \/ sock.phase = "leaving"
        \/ looping /\ \/ sock.todo # <<>> \/ loop.asked = {}
                      \/ \E r \in loop.asked : ready(r) \/ hup(r)
                      \/ \E ms \in Elapsed : idle_matters(ms)

Thread ==
  \/ Poll \/ (\E ms \in Elapsed : Idle(ms)) \/ Exit
  \/ \E dropped \in BOOLEAN, garbage \in found(sock.tcp) : Arrive(dropped, garbage)
  \/ FromOwner \/ ToOwner
  \/ \E lost \in SUBSET DOMAIN sock.tcp.segments_out : Depart(lost)
  \/ Hangup \/ Leave
=============================================================================
