------------------------------- MODULE TCPPair -------------------------------
(***************************************************************************)
(* Two TCPConnections and the network between them.  The client opens, both *)
(* applications write their stream, end it and read the other's; the       *)
(* network loses, repeats and reorders segments.  The clocks of the two    *)
(* endpoints are independent.                                              *)
(***************************************************************************)
EXTENDS TCPState

CONSTANTS
  Byte, Filler,
  Stream,       \* what each application writes
  Config,       \* the TCPConfig of each endpoint
  Openers,      \* who calls connect()
  Mortals,      \* whose owner may destroy a connection that is still active
  Elapsed,      \* the milliseconds a tick may report
  Rooms,        \* the bounds on the segments under way to each endpoint; more are lost
  MaxFaults     \* bounds the segments lost, repeated or retransmitted, and the early ends

Endpoint == {"client", "server"}
Peer(e) == IF e = "client" THEN "server" ELSE "client"

ASSUME PairAssumption ==
  /\ Stream \in [Endpoint -> Seq(Byte)] /\ Filler \in Byte
  /\ Openers \in SUBSET Endpoint \ {{}} /\ Mortals \subseteq Endpoint
  /\ Elapsed \in SUBSET (Nat \ {0}) /\ Rooms \in SUBSET [Endpoint -> Nat \ {0}] /\ MaxFaults \in Nat
  /\ Config \in [Endpoint -> [send_capacity : Nat, recv_capacity : Nat \ {0},
                              rt_timeout : Nat \ {0}, isn : WrappingInt32]]

VARIABLES
  conn,   \* the TCPConnection of each endpoint
  net,    \* the segments under way to each endpoint
  faults, \* how many of those there were
  room    \* which of Rooms holds; never changes

vars == <<conn, net, faults, room>>

Init ==
  /\ conn = [e \in Endpoint |-> new_TCPConnection(Config[e], Filler)]
  /\ net = [e \in Endpoint |-> {}]
  /\ faults = 0
  /\ room \in Rooms

\* Endpoint e is now c; the owner takes its segments and sends them.  taken says which
\* of the segments under way to e is gone.
Becomes(e, c, taken) ==
  LET sent == {c.segments_out[i] : i \in 1 .. Len(c.segments_out)}
      under_way == net[Peer(e)] \cup sent
  IN /\ conn' = [conn EXCEPT ![e] = [saturated(c) EXCEPT !.segments_out = <<>>]]
     /\ net' = [net EXCEPT ![e] = @ \ taken,
                           ![Peer(e)] = IF Cardinality(under_way) <= room[Peer(e)] THEN under_way
                                        ELSE @]
     /\ UNCHANGED room

can_open(e) == e \in Openers /\ listening(conn[e]) /\ conn[e].active

Connect(e) ==
  /\ can_open(e)
  /\ Becomes(e, connect(conn[e]), {}) /\ UNCHANGED faults

\* connect() returns when the state is no longer SYN_SENT, listen_and_accept() when it
\* is none of LISTEN, SYN_RCVD and SYN_SENT; only then can the application write.
returned(e) ==
  LET c == conn[e]
  IN IF e \in Openers THEN ~listening(c) /\ state(c) # State.SYN_SENT
     ELSE state(c) \notin {State.LISTEN, State.SYN_RCVD, State.SYN_SENT}

\* When the socket reads from the application (rule 2): the connection is active, the
\* stream has not been ended and there is room.
reading(e) ==
  /\ conn[e].active /\ returned(e)
  /\ ~outbound(conn[e]).input_ended /\ remaining_capacity(outbound(conn[e])) > 0

\* It passes on at most what there is room for.
Write(e, len) ==
  LET from == outbound(conn[e]).nwritten
  IN /\ reading(e)
     /\ len <= remaining_capacity(outbound(conn[e])) /\ from + len <= Len(Stream[e])
     /\ Becomes(e, conn_write(conn[e], SubSeq(Stream[e], from + 1, from + len)), {})
     /\ UNCHANGED faults

End(e) ==
  /\ reading(e) /\ outbound(conn[e]).nwritten = Len(Stream[e])
  /\ Becomes(e, end_input_stream(conn[e]), {}) /\ UNCHANGED faults

\* Rule 3: the application takes as much as its own buffer has room for.
Read(e, len) ==
  /\ len <= buffer_size(inbound(conn[e]))
  /\ Becomes(e, [conn[e] EXCEPT !.receiver.reassembler.output = pop_output(@, len)], {})
  /\ UNCHANGED faults

\* A segment arrives and may arrive again.
Deliver(e, seg, again, garbage) ==
  /\ faults + bit(again) <= MaxFaults /\ faults' = faults + bit(again)
  /\ Becomes(e, segment_received(conn[e], seg, garbage), IF again THEN {} ELSE {seg})

Lose(e, seg) ==
  /\ faults < MaxFaults /\ faults' = faults + 1
  /\ net' = [net EXCEPT ![e] = @ \ {seg}]
  /\ UNCHANGED <<conn, room>>

\* Nothing is under way: a segment sent again now is no fault of the clock's.
quiet == \A e \in Endpoint : net[e] = {}

Tick(e, ms) ==
  LET c == tick(conn[e], ms)
      early == IF quiet THEN 0 ELSE Len(c.segments_out)
  IN /\ conn[e].active
     /\ faults + early <= MaxFaults /\ faults' = faults + early
     /\ Becomes(e, c, {})

\* The owner destroys an active connection; the RST this queues goes with it.
Destroy(e) ==
  /\ e \in Mortals /\ conn[e].active
  /\ faults < MaxFaults /\ faults' = faults + 1
  /\ conn' = [conn EXCEPT ![e] = [destroy(@) EXCEPT !.segments_out = <<>>]]
  /\ UNCHANGED <<net, room>>

Next ==
  \E e \in Endpoint :
    \/ Connect(e)
    \/ \E len \in 1 .. Len(Stream[e]) : Write(e, len)
    \/ End(e)
    \/ \E len \in 1 .. Config[e].recv_capacity : Read(e, len)
    \/ \E seg \in net[e], again \in BOOLEAN, garbage \in found(conn[e]) : Deliver(e, seg, again, garbage)
    \/ \E seg \in net[e] : Lose(e, seg)
    \/ \E ms \in Elapsed : Tick(e, ms)
    \/ Destroy(e)

Spec == Init /\ [][Next]_vars

\* The application has more to write; a tick changes something.
has_more(e) == outbound(conn[e]).nwritten < Len(Stream[e])
clock_matters(e) ==
  \E ms \in Elapsed :
    LET c == tick(conn[e], ms)
    IN /\ conn[e].active
       /\ quiet \/ faults + Len(c.segments_out) <= MaxFaults
       /\ saturated(c) # conn[e]

\* Weak fairness of the applications and of the network, which loses or repeats MaxFaults
\* segments and delivers the others: []<>~(ENABLED A) \/ []<><<A>>_vars, with the enabling
\* condition written out.  The event loop of an endpoint ticks for ever, whatever the other
\* does; only MaxFaults makes a tick wait until nothing is under way, so its fairness is strong.
Fairness ==
  \A e \in Endpoint :
    /\ []<>~can_open(e) \/ []<><<Connect(e)>>_vars
    /\ []<>~(reading(e) /\ has_more(e)) \/ []<><<\E len \in 1 .. Len(Stream[e]) : Write(e, len)>>_vars
    /\ []<>~(reading(e) /\ ~has_more(e)) \/ []<><<End(e)>>_vars
    /\ \/ []<>buffer_empty(inbound(conn[e]))
       \/ []<><<\E len \in 1 .. Config[e].recv_capacity : Read(e, len)>>_vars
    /\ \/ []<>(net[e] = {})
       \/ []<><<\E seg \in net[e], garbage \in found(conn[e]) : Deliver(e, seg, FALSE, garbage)>>_vars
    /\ <>[]~clock_matters(e) \/ []<><<\E ms \in Elapsed : Tick(e, ms)>>_vars

FairSpec == Spec /\ Fairness
-----------------------------------------------------------------------------
\* The connections and the network are well formed.
TypeOK ==
  \A e \in Endpoint :
    /\ inbound(conn[e]) \in ByteStreams(Byte) /\ outbound(conn[e]) \in ByteStreams(Byte)
    /\ conn[e].active \in BOOLEAN /\ conn[e].segments_out = <<>>
    /\ \A seg \in net[e] : seg.seqno \in WrappingInt32 /\ seg.ackno \in WrappingInt32
                           /\ seg.win \in 0 .. WIN_MOD - 1

AtClient == INSTANCE InOrderDelivery WITH
  Stream <- Stream["server"], Capacity <- Config["client"].recv_capacity,
  waiting <- inbound(conn["client"]).buffer, delivered <- inbound(conn["client"]).nwritten,
  taken <- inbound(conn["client"]).nread, ended <- inbound(conn["client"]).input_ended

AtServer == INSTANCE InOrderDelivery WITH
  Stream <- Stream["client"], Capacity <- Config["server"].recv_capacity,
  waiting <- inbound(conn["server"]).buffer, delivered <- inbound(conn["server"]).nwritten,
  taken <- inbound(conn["server"]).nread, ended <- inbound(conn["server"]).input_ended

\* Each reader sees in-order delivery of what the other application wrote, whatever the
\* network does and however the connection ends.
BothDeliver == AtClient!Spec /\ AtServer!Spec

\* The first number an endpoint still keeps for retransmission.
una(c) == c.sender.next_seqno - c.sender.bytes_in_flight

\* What a sender takes for acknowledged has been accepted by the other side's receiver.
AckedIsReceived ==
  \A e \in Endpoint :
    una(conn[e]) > 0 =>
      has_ackno(conn[Peer(e)].receiver) /\ una(conn[e]) <= abs_ackno(conn[Peer(e)].receiver)

failed(c) == inbound(c).error

\* A connection that ended cleanly has delivered its whole stream and received the whole
\* of the other: both readers have, or can still get, every byte and the end.
CleanMeansComplete ==
  \A e \in Endpoint :
    ~conn[e].active /\ ~failed(conn[e]) =>
      \A f \in Endpoint : inbound(conn[f]).input_ended /\ inbound(conn[f]).nwritten = Len(Stream[Peer(f)])

\* An active connection has not exhausted its retransmissions, so a tick that finds them
\* exhausted has just queued the segment unclean_shutdown needs: tcp_connection.cc:216,
\* "When this being called, _sender.stream_out() should not be empty."
NotExhausted ==
  \A e \in Endpoint :
    conn[e].active => conn[e].sender.consecutive_retransmissions <= MAX_RETX_ATTEMPTS

gave_up(c) == c.sender.consecutive_retransmissions > MAX_RETX_ATTEMPTS

\* A connection fails only while it is active and only for a cause: its retransmissions are
\* exhausted (tcp_connection.cc:149), its owner destroys it (line 181), or a RST arrives (lines
\* 84 and 108), and then the other side has failed before.  So no segment, lost, repeated or
\* late, makes the first of two connections fail, and a clean end is never turned into a failure.
FailsForCause ==
  [][\A e \in Endpoint :
       failed(conn'[e]) /\ ~failed(conn[e]) =>
         /\ conn[e].active
         /\ gave_up(conn'[e]) \/ failed(conn[Peer(e)]) \/ Destroy(e)]_vars

\* How far a connection has come; a summary that no state of RFC 793 has, such as that
\* of a sender whose SYN is acknowledged before the peer's SYN arrives, is passed through.
rank == [
  CLOSED |-> 0, SYN_SENT |-> 1, SYN_ACKED |-> 2, FIN_SENT |-> 3, FIN_ACKED |-> 4,
  LISTEN |-> 0, SYN_RECV |-> 1, FIN_RECV |-> 2, error |-> 5]

advances(then, now) ==
  /\ rank[then.sender] <= rank[now.sender] /\ rank[then.receiver] <= rank[now.receiver]
  /\ now.active => then.active
  /\ now.linger => then.linger

\* No step takes an endpoint back in the diagram of RFC 793, whatever segments arrive, old
\* or new, and one that is over stays over and takes no more from the network.
StatesAdvance ==
  [][\A e \in Endpoint :
       /\ conn'[e] # conn[e] => advances(state(conn[e]), state(conn'[e]))
       /\ ~conn[e].active => inbound(conn'[e]).nwritten = inbound(conn[e]).nwritten]_vars

\* Whatever the network does with finitely many segments, both readers get the whole
\* stream of the other side and its end, unless an endpoint exhausts its retransmissions
\* or a connection that may be destroyed is.
Completes ==
  [](\A e \in Endpoint : ~gave_up(conn[e]) /\ (e \in Mortals => ~inbound(conn[e]).error)) =>
    <>[](\A e \in Endpoint :
           eof(inbound(conn[e])) /\ inbound(conn[e]).nread = Len(Stream[Peer(e)]))

\* The peer of e is gone and nothing will make e notice: it repeats what is in flight
\* against a window it takes for closed, which is not counted (tcp_sender.cc:186), or the
\* RST was lost while nothing was in flight, and TCP here has no keep-alive.
half_open(e) ==
  /\ ~conn[Peer(e)].active /\ net[e] = {}
  /\ IF conn[e].sender.bytes_in_flight > 0 THEN conn[e].sender.receiver_window_size = 0
     ELSE inbound(conn[Peer(e)]).error

\* And both connections end: neither waits for the other for ever, unless it cannot learn
\* that the other is gone.
Ends == <>[](\A e \in Endpoint : ~conn[e].active \/ half_open(e))
=============================================================================
