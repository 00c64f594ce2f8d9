--------------------------------- MODULE Program ---------------------------------
(***************************************************************************)
(* The programs that own a socket (apps/tcp_udp.cc, apps/tcp_ipv4.cc,       *)
(* apps/webget.cc, and one that drops its socket), the thread of the        *)
(* socket, and a peer that reads all it gets.  The owner, the thread, the   *)
(* peer and the clocks run independently; datagrams arrive in order or not *)
(* at all.                                                                 *)
(***************************************************************************)
EXTENDS TCPSpongeSocket, StreamCopy

CONSTANTS
  Byte,
  Programs,      \* which programs are run
  CommandLines,  \* the options and the port given to tcp_udp or tcp_ipv4
  number,        \* strtol, strtof
  DefaultConfig, \* TCPConfig{}
  PeerConfig, PeerStream

\* The programs that end in bidirectional_stream_copy.
Copiers == {"tcp_udp", "tcp_ipv4"}

ASSUME ProgramAssumption ==
  /\ Programs \subseteq Copiers \cup {"webget", "abandon"}
  /\ \A argv \in CommandLines : argv # <<>>
  /\ Input \in Seq(Byte) /\ PeerStream \in Seq(Byte) /\ Filler \in Byte

VARIABLES
  owner, \* the owner's thread: which program, where it is, and its data
  peer   \* the TCPConnection of the other side

vars == <<sock, pipe, wire, faults, process, owner, peer>>
-----------------------------------------------------------------------------
\* get_config, one word at a time; wants is the option whose argument comes next.
no_config == [tcp |-> DefaultConfig, loss |-> [up |-> FALSE, down |-> FALSE],
              listen |-> FALSE, wants |-> "", exits |-> FALSE]

\* The options that have an argument.
with_argument(program) ==
  {"-w", "-t", "-Lu", "-Ld"} \cup IF program = "tcp_ipv4" THEN {"-a", "-s", "-d"} ELSE {}

option(program, c, word) ==
  CASE word = "-l" -> [c EXCEPT !.listen = TRUE]
    [] word \in with_argument(program) -> [c EXCEPT !.wants = word]
    [] OTHER -> [c EXCEPT !.exits = TRUE]

\* Addresses and the name of the device (-a, -s, -d) are left out.
argument(c, word) ==
  LET n == number[word]
      taken == [c EXCEPT !.wants = ""]
  IN CASE c.wants = "-w" -> [taken EXCEPT !.tcp.recv_capacity = n]
       [] c.wants = "-t" -> [taken EXCEPT !.tcp.rt_timeout = n]
       [] c.wants = "-Lu" -> [taken EXCEPT !.loss.up = n > 0]
       [] c.wants = "-Ld" -> [taken EXCEPT !.loss.down = n > 0]
       [] OTHER -> taken

\* The last word is the port; only tcp_ipv4 looks whether it can listen there.
get_config(program, argv) ==
  LET word(c, w) == IF c.exits THEN c
                    ELSE IF c.wants = "" THEN option(program, c, w) ELSE argument(c, w)
      read == FoldLeft(word, no_config, Front(argv))
      no_port == program = "tcp_ipv4" /\ read.listen /\ number[Last(argv)] = 0
  IN [read EXCEPT !.exits = @ \/ read.wants # "" \/ no_port]

\* CS144TCPSocket::connect, which webget calls, sets a timeout of its own.
configuration(program, argv) ==
  CASE program \in Copiers -> get_config(program, argv)
    [] program = "webget" -> [no_config EXCEPT !.tcp.rt_timeout = number["100"]]
    [] program = "abandon" -> no_config
-----------------------------------------------------------------------------
Init ==
  /\ \E program \in Programs : \E argv \in IF program \in Copiers THEN CommandLines ELSE {<<>>} :
       owner = [program |-> program, argv |-> argv, pc |-> "main", copy |-> new_copy, sent |-> 0]
  /\ sock = [new_TCPSpongeSocket(DefaultConfig, no_config.loss, TRUE) EXCEPT !.phase = "unborn"]
  /\ pipe = [o2t |-> new_channel, t2o |-> new_channel]
  /\ wire = [up |-> <<>>, down |-> <<>>]
  /\ faults = 0 /\ process = "running"
  /\ peer = new_TCPConnection(PeerConfig, Filler)

at(pc) == process = "running" /\ owner.pc = pc
moves_to(pc) == owner' = [owner EXCEPT !.pc = pc]

\* main, get_URL and CS144TCPSocket::connect, up to the event loop of connect() or
\* listen_and_accept().  The words are not looked at again, and both copying programs go
\* on in the same way: with one peer their adapters let the same segments through.
Main ==
  LET c == configuration(owner.program, owner.argv)
      does == IF owner.program \in Copiers THEN "copy" ELSE owner.program
  IN /\ at("main")
     /\ owner' = [owner EXCEPT !.program = does, !.argv = <<>>,
                               !.pc = IF c.exits THEN "usage" ELSE "opening"]
     /\ sock' = IF c.exits THEN sock ELSE new_TCPSpongeSocket(c.tcp, c.loss, c.listen)
     /\ UNCHANGED <<pipe, wire, faults, process, peer>>

\* connect() or listen_and_accept() has started the thread and returns.
Opened ==
  /\ at("opening") /\ sock.phase # "opening"
  /\ moves_to(CASE owner.program = "copy" -> "copy"
                [] owner.program = "webget" -> "request"
                [] owner.program = "abandon" -> "idle")
  /\ UNCHANGED <<sock, pipe, wire, faults, process, peer>>
-----------------------------------------------------------------------------
copy == owner.copy
copying == at("copy") /\ copy.todo = <<>>
copy_loop ==
  LET visited[n \in 0 .. Len(copy.rules)] ==
        LET wait == visited[n - 1]
            r == copy.rules[n]
        IN IF n = 0 THEN new_wait(copy)
           ELSE visit(wait, r, copy_dead(wait.local, r), copy_cancel(wait.local, r), copy_interest(wait.local, r))
  IN visited[Len(copy.rules)]
copy_set_up(loop) == [loop.local EXCEPT !.rules = loop.rules]

\* The end of a piped input is a hangup, that of a file can be read.
copy_ready(r, piped, typed) ==
  CASE r = "from_input" -> typed > copy.outbound.nwritten + bit(piped /\ typed > Len(Input))
    [] r = "to_socket" -> writable(pipe.o2t, PipeCapacity)
    [] r = "from_socket" -> readable(pipe.t2o)
    [] r = "to_output" -> TRUE

copy_hup(r, piped, typed) ==
  CASE r = "from_input" -> piped /\ typed > Len(Input)
    [] r \in {"to_socket", "from_socket"} -> pipe.o2t.closed /\ pipe.t2o.closed
    [] r = "to_output" -> FALSE

CopyPoll(piped, typed) ==
  LET loop == copy_loop
      serve == to_serve(loop, {r \in loop.asked : copy_ready(r, piped, typed)},
                             {r \in loop.asked : copy_hup(r, piped, typed)})
  IN /\ copying /\ serve # <<>>
     /\ owner' = [owner EXCEPT !.copy = [copy_set_up(loop) EXCEPT !.todo = serve, !.typed = typed]]
     /\ UNCHANGED <<sock, pipe, wire, faults, process, peer>>

\* Result::Exit: bidirectional_stream_copy returns.
CopyExit ==
  LET loop == copy_loop
  IN /\ copying /\ loop.asked = {}
     /\ owner' = [owner EXCEPT !.copy = copy_set_up(loop), !.pc = "closing"]
     /\ UNCHANGED <<sock, pipe, wire, faults, process, peer>>

copy_serving(r) == at("copy") /\ copy.todo # <<>> /\ Head(copy.todo) = [rule |-> r, ready |-> TRUE]

\* Every callback of this loop reads or writes its descriptor: none is a busy wait.
CopyServed(c) == owner' = [owner EXCEPT !.copy = [c EXCEPT !.todo = Tail(@)]]

FromInput ==
  /\ copy_serving("from_input") /\ CopyServed(from_input(copy))
  /\ UNCHANGED <<sock, pipe, wire, faults, process, peer>>

ToSocket ==
  LET killed == after_write(pipe.o2t, copy.outbound.buffer, PipeCapacity)
      put == fd_write(pipe.o2t, copy.outbound.buffer, PipeCapacity)
      c == to_socket(copy, put.written)
  IN /\ copy_serving("to_socket")
     /\ IF killed # "running" THEN process' = killed /\ UNCHANGED <<owner, pipe>>
        ELSE /\ pipe' = [pipe EXCEPT !.o2t = IF eof(c.outbound) THEN close_channel(put.rest) ELSE put.rest]
             /\ CopyServed(c) /\ UNCHANGED process
     /\ UNCHANGED <<sock, wire, faults, peer>>

FromSocket ==
  LET got == fd_read(pipe.t2o, remaining_capacity(copy.inbound))
  IN /\ copy_serving("from_socket")
     /\ pipe' = [pipe EXCEPT !.t2o = got.rest]
     /\ CopyServed(from_socket(copy, got))
     /\ UNCHANGED <<sock, wire, faults, process, peer>>

ToOutput ==
  /\ copy_serving("to_output") /\ CopyServed(to_output(copy))
  /\ UNCHANGED <<sock, pipe, wire, faults, process, peer>>

CopyHangup ==
  LET r == Head(copy.todo).rule
  IN /\ at("copy") /\ copy.todo # <<>> /\ ~Head(copy.todo).ready
     /\ CopyServed([copy_cancel(copy, r) EXCEPT !.rules = SelectSeq(@, LAMBDA x : x # r)])
     /\ UNCHANGED <<sock, pipe, wire, faults, process, peer>>

StreamCopying ==
  \/ \E piped \in BOOLEAN, typed \in copy.typed .. Len(Input) + 1 : CopyPoll(piped, typed)
  \/ CopyExit
  \/ FromInput \/ ToSocket \/ FromSocket \/ ToOutput \/ CopyHangup
-----------------------------------------------------------------------------
\* get_URL: blocking writes of the request, reads until the end, shutdown(SHUT_WR).
Request ==
  LET left == SubSeq(Input, owner.sent + 1, Len(Input))
      put == fd_write(pipe.o2t, left, PipeCapacity)
  IN /\ at("request")
     /\ pipe.o2t.closed \/ writable(pipe.o2t, PipeCapacity)
     /\ IF pipe.o2t.closed THEN process' = "sigpipe" /\ UNCHANGED <<owner, pipe>>
        ELSE /\ pipe' = [pipe EXCEPT !.o2t = put.rest] /\ UNCHANGED process
             /\ owner' = [owner EXCEPT !.sent = @ + put.written,
                                       !.pc = IF put.written = Len(left) THEN "response" ELSE @]
     /\ UNCHANGED <<sock, wire, faults, peer>>

\* What printf("%s") prints: it stops at a zero byte.
c_str(bytes) == SubSeq(bytes, 1, Cardinality({n \in 1 .. Len(bytes) : \A i \in 1 .. n : bytes[i] # 0}))

Response ==
  LET got == fd_read(pipe.t2o, PipeCapacity)
  IN /\ at("response") /\ readable(pipe.t2o)
     /\ pipe' = [o2t |-> IF got.eof THEN close_channel(pipe.o2t) ELSE pipe.o2t, t2o |-> got.rest]
     /\ owner' = [owner EXCEPT !.copy.output = @ \o c_str(got.bytes), !.pc = IF got.eof THEN "closing" ELSE @]
     /\ UNCHANGED <<sock, wire, faults, process, peer>>

\* wait_until_closed, and the destructor of a socket whose thread was not joined.
WaitUntilClosed ==
  /\ at("closing") /\ moves_to("joining")
  /\ pipe' = [o2t |-> close_channel(pipe.o2t), t2o |-> close_channel(pipe.t2o)]
  /\ UNCHANGED <<sock, wire, faults, process, peer>>

Destruct ==
  /\ at("idle") /\ moves_to("joining")
  /\ sock' = [sock EXCEPT !.abort = TRUE]
  /\ UNCHANGED <<pipe, wire, faults, process, peer>>

Join ==
  /\ at("joining") /\ sock.phase = "done" /\ moves_to("exited")
  /\ UNCHANGED <<sock, pipe, wire, faults, process, peer>>

Owner ==
  \/ Main \/ Opened \/ StreamCopying \/ Request \/ Response
  \/ WaitUntilClosed \/ Destruct \/ Join
-----------------------------------------------------------------------------
\* The peer is now c; its application has read what there was.  What it sends is lost
\* when nobody has the socket open, or reads it.
PeerBecomes(c, up) ==
  LET read == [c EXCEPT !.receiver.reassembler.output = pop_output(@, buffer_size(@))]
      heard == process = "running" /\ sock.phase # "done"
  IN /\ peer' = [saturated(read) EXCEPT !.segments_out = <<>>]
     /\ wire' = [up |-> up,
                 down |-> IF heard THEN under_way(wire.down \o c.segments_out) ELSE <<>>]
     /\ UNCHANGED <<sock, pipe, process, owner>>

PeerConnect ==
  /\ sock.phase # "unborn" /\ sock.listen /\ listening(peer) /\ peer.active
  /\ PeerBecomes(connect(peer), wire.up) /\ UNCHANGED faults

PeerReceive(garbage) ==
  /\ wire.up # <<>>
  /\ PeerBecomes(segment_received(peer, Head(wire.up), garbage), Tail(wire.up))
  /\ UNCHANGED faults

peer_open == peer.active /\ state(peer) \notin {State.LISTEN, State.SYN_RCVD, State.SYN_SENT}

PeerWrite ==
  /\ peer_open /\ outbound(peer).nwritten = 0 /\ PeerStream # <<>>
  /\ PeerBecomes(conn_write(peer, PeerStream), wire.up) /\ UNCHANGED faults

PeerEnd ==
  /\ peer_open /\ outbound(peer).nwritten = Len(PeerStream) /\ ~outbound(peer).input_ended
  /\ PeerBecomes(end_input_stream(peer), wire.up) /\ UNCHANGED faults

PeerTick(ms) ==
  LET c == tick(peer, ms)
  IN /\ peer.active
     /\ quiet \/ c.segments_out = <<>>
     /\ PeerBecomes(c, wire.up) /\ UNCHANGED faults

PeerReset ==
  /\ peer_open /\ faults < MaxFaults /\ faults' = faults + 1
  /\ PeerBecomes(destroy(peer), wire.up)

Remote ==
  \/ PeerConnect \/ PeerWrite \/ PeerEnd \/ PeerReset
  \/ \E ms \in Elapsed : PeerTick(ms)

\* The next callback of the copy concerns neither the socket nor the thread.
owner_alone ==
  /\ at("copy") /\ copy.todo # <<>>
  /\ Head(copy.todo).ready => Head(copy.todo).rule \in {"from_input", "to_output"}

\* The peer takes a segment as soon as it is sent, and what only the owner can see
\* happens at once.
anyone == wire.up = <<>> /\ ~owner_alone

Next ==
  \/ \E garbage \in found(peer) : PeerReceive(garbage)
  \/ wire.up = <<>> /\ Owner
  \/ anyone /\ ((Thread /\ UNCHANGED <<owner, peer>>) \/ Remote)

Spec == Init /\ [][Next]_vars

\* When a step of the owner is possible; the input goes on until it ends.
copy_can ==
  LET loop == copy_loop
      ended == Len(Input) + 1
  IN \/ copy.todo # <<>> \/ loop.asked = {}
     \/ \E r \in loop.asked : copy_ready(r, FALSE, ended) \/ copy_hup(r, FALSE, ended)

owner_can ==
  /\ process = "running"
  /\ \/ owner.pc \in {"main", "closing", "idle"}
     \/ owner.pc = "opening" /\ sock.phase # "opening"
     \/ owner.pc = "copy" /\ copy_can
     \/ owner.pc = "request" /\ (pipe.o2t.closed \/ writable(pipe.o2t, PipeCapacity))
     \/ owner.pc = "response" /\ readable(pipe.t2o)
     \/ owner.pc = "joining" /\ sock.phase = "done"

peer_can ==
  \/ sock.phase # "unborn" /\ sock.listen /\ listening(peer) /\ peer.active
  \/ peer_open /\ ~outbound(peer).input_ended

peer_clock_matters ==
  \E ms \in Elapsed :
    LET c == tick(peer, ms)
    IN /\ peer.active
       /\ quiet \/ c.segments_out = <<>>
       /\ saturated(c) # peer

\* Weak fairness of what is sent, of the thread, of the owner, whose input ends, and of a
\* peer that opens, writes, ends and ticks.  The enabling conditions are written out; a
\* step of the thread is told by the change of sock, which others change twice at most.
Fairness ==
  /\ []<>(wire.up = <<>>) \/ []<><<\E garbage \in found(peer) : PeerReceive(garbage)>>_vars
  /\ []<>~(anyone /\ thread_can) \/ []<><<sock' # sock>>_vars
  /\ []<>~(wire.up = <<>> /\ owner_can) \/ []<><<owner' # owner>>_vars
  /\ []<>~(anyone /\ (peer_can \/ peer_clock_matters)) \/ []<><<UNCHANGED <<sock, owner>> /\ Remote>>_vars

FairSpec == Spec /\ Fairness
-----------------------------------------------------------------------------
was_reset == inbound(sock.tcp).error \/ inbound(peer).error

\* End to end: what a program prints is what the peer sent, in order.  A program that
\* ends by itself, with no reset, has printed all of it, and the peer has got all of the
\* input and its end.  webget needs a response without zero bytes.
EndToEnd ==
  (owner.program = "webget" => c_str(PeerStream) = PeerStream) =>
  /\ IsPrefix(copy.output, PeerStream)
  /\ owner.pc = "exited" /\ owner.program # "abandon" /\ ~was_reset =>
       /\ copy.output = PeerStream
       /\ inbound(peer).nread = Len(Input) /\ inbound(peer).input_ended

\* Nobody writes to a local socket the other thread has closed, which is a SIGPIPE, no
\* callback is taken for a busy wait, and a write finds the room it was promised, as long
\* as the connection is not reset.
NotBroken == process # "running" => was_reset

\* The thread, unless it is told to, does not leave before the connection is over, every
\* segment is sent, the RST of a reset included, the end is passed to the owner, and every
\* byte before it; after a reset, bytes for which the owner has no room are given up.
LeavesWhenOver ==
  sock.phase \in {"leaving", "done"} /\ ~sock.abort =>
    /\ ~sock.tcp.active /\ sock.tcp.segments_out = <<>>
    /\ pipe.t2o.closed /\ (~inbound(sock.tcp).error => buffer_empty(inbound(sock.tcp)))

\* The peer is gone and nothing will make the connection notice: it repeats what is in
\* flight against a window it takes for closed, which is not counted, or the RST was lost
\* while nothing was in flight, and TCP here has no keep-alive.
half_open ==
  /\ ~peer.active /\ sock.tcp.active /\ wire.down = <<>>
  /\ IF sock.tcp.sender.bytes_in_flight > 0 THEN sock.tcp.sender.receiver_window_size = 0
     ELSE inbound(peer).error

\* Every program ends: connect() or listen_and_accept() returns, the copy finishes, and
\* the thread that wait_until_closed() and the destructor wait for leaves its loop.  The
\* exception is a connection that cannot learn that its peer is gone.
ProgramEnds == <>[](owner.pc \in {"exited", "usage"} \/ process # "running" \/ half_open)

\* tcp_sponge_socket.hh:73, "When a connected socket is destructed, it will send a RST".
DestructorSendsRst ==
  sock.phase = "done" /\ sock.abort /\ inbound(sock.tcp).error =>
    inbound(peer).error \/ \E i \in 1 .. Len(wire.up) : wire.up[i].rst
=============================================================================
