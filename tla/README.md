# Sponge TCP in TLA+

A verification development for the user-space TCP of this repository (`src/libsponge`) and
for the programs that use it (`src/apps`). It models an endpoint from the byte stream to
the program that owns its socket, the formats on the wire, and two endpoints over an
unreliable network. TLC checks the models on small instances; TLAPS proves, for every
instance, the safety of sequence numbers, reassembly, the receiver and the sender, and of two
connections over the network.

## The system

| part | source | state | operations that change it |
|---|---|---|---|
| Wrapping integers | `wrapping_integers.cc/.hh` | none | `wrap`, `unwrap` (pure) |
| ByteStream | `byte_stream.cc/.hh` | bounded FIFO, two counters, ended, error | `write`, `pop_output`, `read`, `end_input`, `set_error` |
| StreamReassembler | `stream_reassembler.cc/.hh` | ring of slots with a bit each, left edge, count, end index, output | `push_substring` |
| TCPReceiver | `tcp_receiver.cc/.hh` | reassembler, ISN, number after the FIN | `segment_received` |
| TCPSender | `tcp_sender.cc/.hh` | stream, outstanding segments, peer window, timer | `fill_window`, `ack_received`, `tick`, `send_empty_segment` |
| TCPConnection | `tcp_connection.cc/.hh` | sender, receiver, outgoing queue, linger flag, active | `connect`, `write`, `end_input_stream`, `segment_received`, `tick`, destructor |
| TCPState | `tcp_helpers/tcp_state` | none | summaries of a connection |
| TCP and IPv4 formats | `tcp_helpers/tcp_header`, `tcp_segment`, `ipv4_*`, `util/parser`, `util/util` | a cursor over bytes, an error | `parse`, `serialize`, checksum |
| Adapters | `tcp_helpers/fd_adapter`, `tcp_over_ip`, `lossy_fd_adapter`, `tuntap_adapter` | listening, source, destination | `read`, `write` |
| EventLoop | `util/eventloop`, `util/file_descriptor`, `util/socket` | rules, what poll found | `add_rule`, `wait_next_event`, `read`, `write`, `shutdown` |
| TCPSpongeSocket | `tcp_helpers/tcp_sponge_socket` | connection, adapter, socket pair, four rules, flags, a thread | `connect`, `listen_and_accept`, the rules, `wait_until_closed`, destructor |
| Stream copy | `apps/bidirectional_stream_copy.cc` | two byte streams, four rules | the rules |
| Programs | `apps/tcp_udp.cc`, `tcp_ipv4.cc`, `webget.cc` | where `main` is | argument parsing, opening, the exchange, the end |

An application talks to a `TCPSpongeSocket`. Its TCP thread runs an event loop that hands
datagrams to the connection, moves bytes between the application and the connection's two
byte streams, sends the connection's segments and ticks its clock. The connection gives
each segment to its receiver, gives the acknowledgment in it to its sender, and stamps what
the sender wants to send with the receiver's acknowledgment and window. An adapter turns
segments into datagrams and back.

## Modules

A C++ object is a record and a method an operator from record to record, so that
components compose as the classes do. A `...Spec` module adds the variables, the actions
of an environment and the properties; an `MC...` module gives the constants their values.

| module | models |
|---|---|
| `WrappingIntegers`, `WrappingSpec` | `wrap`, `unwrap`; a stream that advances and the contract of `unwrap` at each position |
| `ByteStream` | `ByteStream` |
| `StreamReassembler` | `StreamReassembler`: `push_substring` is `store`, `flush`, `finish` in the order of the code |
| `ReassembledStream` | what it means for a reassembler to hold part of a given stream |
| `InOrderDelivery` | the abstract specification of the receiving side: what a reader may see |
| `ReassemblerSpec` | substrings in any order, a reader, the refinement of `InOrderDelivery` |
| `TCPSegment` | the header fields the endpoint reads, the payload |
| `TCPReceiver`, `ReceiverSpec` | `TCPReceiver`; segments of one stream, lost, repeated, reordered |
| `TCPSender`, `SenderSpec` | `TCPSender`; an application, a peer with a bounded receiver, late acknowledgments |
| `TCPConnection` | `TCPConnection`, including the end of a connection, clean or not |
| `TCPState` | the summaries of `tcp_state.cc` and the states of RFC 793 |
| `TCPPair` | two connections, the network, their owners and clocks |
| `NetParser`, `WireFormats` | numbers in network order, the checksum; TCP and IPv4 headers, segments and datagrams as bytes |
| `FdAdapter`, `AdapterSpec` | which segments the adapters let through; hosts, datagrams and damage to them |
| `EventLoop` | one wait of the event loop; the local stream sockets it polls |
| `TCPSpongeSocket` | the thread: the four rules, the loop, opening and leaving |
| `StreamCopy` | `bidirectional_stream_copy` |
| `Program` | `tcp_udp`, `tcp_ipv4`, `webget` and an owner that drops its socket, with the thread, a lossy network and a peer |
| `ReceiverLemmas`, `SenderLemmas` | lemmas: what the operations of a reassembler, a receiver and a sender preserve, whoever calls them |
| `WrappingIntegersProofs`, `WrappingProofs`, `ReassemblerProofs`, `ReceiverProofs`, `SenderProofs`, `PairProofs` | the theorems, one module per specification |

Conventions:

- Bytes are members of a small set; a stream has distinct bytes, so that a byte in the
  wrong place shows. In `NetParser`, `WireFormats` and `AdapterSpec` they are 0..255. Loops
  are written in closed form (the set of slots a substring fills, the sequence of segments
  a burst sends, a fold over the words of a command line).
- `SEQ_MOD` (2^32) and `WIN_MOD` (2^16) are constants; every 32-bit and 16-bit
  computation is taken modulo them. The 64-bit counters are unbounded. In the wire formats
  a 32-bit number is a pair of 16-bit words.
- `_ack_valid` reads `front()` of a queue that may be empty (`tcp_sender.cc:214`). That is
  undefined; a build without checks reads old memory, so the outcome of the test is a
  nondeterministic Boolean, the parameter `garbage`.
- The name `write` belongs to `ByteStream`; `TCPConnection::write` is `conn_write`,
  `TCPReceiver::segment_received` is `receive`, `TCPSender::tick` is `sender_tick`.
- A wait of the event loop is a `visit` of each rule (cancel the dead ones, collect the
  interested ones), a poll, and one step per callback: the poll is a snapshot, and the owner, the
  thread and the network may act between two callbacks. An exception that ends the process
  is `process' = "terminated"`, a write to a closed socket `"sigpipe"`.
- The kernel is modelled from how the code uses it: one direction of the local socket pair
  is a bounded channel with a closed flag, a shutdown at either end closes it for both, and
  what is in it can still be read.
- Operators marked *Mutant* are wrong variants of the definition that follows. Each
  property has one that breaks it; they show that the property depends on the code.

## Runs

| run | question | bounds |
|---|---|---|
| `wrapping` | does `unwrap` give the closest number at every position? | modulus 8, nearly four times around, every ISN |
| `reassembler` | do substrings in any order come out as the stream? | 7 bytes, capacity 3: the ring goes around twice, a slot is reused, the output fills up |
| `reassembler_memory` | is `capacity` a limit on all bytes held? (violated) | the same |
| `receiver` | right indices, acknowledgments and window; is the next byte ever refused? | 7 bytes, capacity 3, modulus 8, ISN 6: nine numbers, more than the sequence space |
| `sender` | does the sender keep, resend and forget the right segments, and stay in the window when acknowledgments come in order? | 4 bytes in segments of at most 2, capacities 3, modulus 16, ISN 14; a network that keeps acknowledgments in order and one that holds any 3 and repeats them |
| `sender_stale_ack` | is the window respected if they do not? (violated) | capacities 2 |
| `pair` | do two endpoints agree on what was received, and is a clean end complete? | one byte each way, capacity 1 (so that the window closes), 2 segments under way one way and 1 the other, 2 faults |
| `pair_simultaneous` | when both open at once, does all arrive and do both end? | two bytes of the server against a window of one, 2 segments under way to the server and 1 to the client, 1 fault, 4 retransmissions |
| `pair_no_ack_flag` | the same as `pair` when 0 is among the numbers in flight (violated) | server ISN 14, modulus 16 |
| `adapter` | is what an adapter hands on what its peer wrote? | two hosts, three segments, three IP headers; each byte changed by 1 or -1, each end cut off |
| `program` | do whole programs print what was sent, survive, and end? | one byte of input, two of the peer, every buffer of one or two bytes, 1 fault |
| `socket_rst` | does the destructor send a RST? (violated) | no fault |

A *fault* (`MaxFaults`) is a segment lost, repeated or retransmitted early, or a connection
destroyed. Two faults cover a loss and its retransmission, two timeouts in a row (which
exhaust `MAX_RETX_ATTEMPTS` = 1), and a duplicate that meets a retransmission. A segment
that finds its direction full (`Rooms`, `MaxPackets`) is lost; in `pair` two segments are
under way to either endpoint, one to the other, so that each direction reorders. A retransmission while nothing is under way is
no fault, so that lost segments can always be repaired. The linger time is kept up to ten
timeouts, all the code distinguishes, and only after the peer's stream ended: the segment
that ends it sets the time to 0.

In `adapter` the header fields of the segments are chosen so that the sums of the checksum
carry, a payload has odd length and ends in a zero byte (which a sum does not see), one IP
header has options, one datagram is of another protocol, and one is for another port. That
every changed byte is noticed holds at these addresses and ports: the result of the IP
header's parser is ignored (`ipv4_datagram.cc:13`), and a 16-bit sum cannot tell every change
apart, so at other ports a header length that is off by one may pass.

In `program` the two threads, the peer and the clocks interleave with these exceptions: the
peer takes a segment as soon as it is sent, a callback that only the owner can see happens
at once, datagrams stay in order or are lost, timers that resend expire only when nothing
is under way, and a turn of the loop that serves a rule takes no time. Reordering and early
timers are the subject of `pair`. The buffers of the local socket and of the copy hold one
byte, so that every partial write and every wait for room happens. The command lines have a
server with a lossy adapter, a refused port, a missing argument and a question for help.

Runs with `CHECK_DEADLOCK FALSE` are those in which everything may be said and done: the
sequence position at its bound, a sender whose stream is acknowledged, two connections that
are over, a program that has exited. That none of them stops too early is what `NeverStuck`,
`NeverIdle`, `Completes`, `Ends` and `ProgramEnds` say.

### What the properties say

- `UnwrapsToClosest`, `RoundTrip`: `unwrap` gives the number closest to the checkpoint
  that exists, and inverts `wrap` within half the space.
- `HoldsStream`: the output holds the stretch of the stream not yet read, a set bit means
  the slot holds its byte of the stream, the output is ended exactly when the end is known
  and all is written. `UnassembledCount`, `ArrivedBytesStay`, `PushDeliversAll`: the count
  is right, nothing stored is dropped, nothing deliverable stays behind.
- `ImplementsDelivery`, `BothDeliver`: the reassembler, the receiver and each side of a
  pair implement `InOrderDelivery`.
- `ReceiverHolds`, `AcksOnlyArrived`, `FinAckedIffEnded`, `WindowNeverShrinks`: numbers
  become the right indices across wraps; nothing is acknowledged that did not arrive; the
  FIN is acknowledged exactly when the output has ended; no window is taken back.
- `NeverStuck`: in every state the receiver either takes the next number or has something
  for the reader to take. `NeverIdle`: whenever the sender has something to say a timer
  runs.
- `OutstandingTiles`, `SentIsRead`, `ForgetsOnlyAcked`: the queue of outstanding segments
  is exactly what is sent and unacknowledged, with the right bytes and flags.
- `WindowRespectedInOrder`, `Backoff`: flow control, as long as no acknowledgment overtakes
  another, and the timeout.
- `AckedIsReceived`, `CleanMeansComplete`, `NotExhausted`: what two endpoints know of each
  other, and how a connection ends. `FailsForCause`: it fails only while it is active, and
  only because it has retransmitted too often, its owner destroys it, or it hears a RST of a
  peer that has failed; so no segment, however old, makes the first of the two fail.
  `StatesAdvance`: no segment takes an endpoint back in the diagram of RFC 793.
- `Completes`, `Ends`: under fairness both readers get everything, unless an endpoint gives
  up, and both connections end. In `pair_simultaneous` the second byte of the server waits
  for the window while the client's FIN arrives, so that the answer to the FIN has to wait
  for a data segment (`tcp_connection.cc:104`).
- `DeliversOnlySent`, `IntactArrives`, `HeaderDamageReported`, `BoundForGood`: damage is
  noticed (at the addresses and ports of the instance), what is undamaged gets through, and a
  listening adapter binds to one peer, once.
- `EndToEnd`, `NotBroken`, `LeavesWhenOver`, `ProgramEnds`: what a program prints is what
  the peer sent; neither thread is killed or taken for a busy wait; the thread leaves only
  when all has been passed on; every program ends.

### Fairness

Liveness is checked under weak fairness of each party, but for the clocks of the pair, stated
with the enabling conditions written out (`ENABLED` of these actions is expensive to evaluate).

- `TCPPair`: an application that can open, write, end or read does so; each event loop
  ticks, since `poll` has a timeout of 10 ms (`tcp_sponge_socket.cc`), as long as a tick
  changes anything; the network loses and repeats finitely many segments and delivers one
  of those under way, over and over. The ticks are strongly fair: a tick that would resend
  while something is under way counts as a fault, so `MaxFaults` switches it on and off with
  the traffic of both sides, while the loop of the code ticks whatever the traffic.
- `Program`: the peer takes what was sent; the thread makes a step whenever one would change
  its state; the owner makes a step whenever it is not blocked, and its input ends; the
  peer opens, writes, ends and ticks. These are what the scheduler of the operating system
  gives a runnable thread, and a peer that runs the same code. Nothing is assumed of the
  order in which callbacks become ready.

### Where code and documentation disagree

1. `stream_reassembler.hh:38-39` says the capacity limits the bytes reassembled and not
   yet reassembled together. The ring takes a full capacity beyond the output
   (`stream_reassembler.cc:25`), so twice as much may be held. `TCPReceiver` never asks
   for more than the window, which hides this.
2. `tcp_sender.cc:156-158`: when an acknowledgment arrives after a newer one whose window
   reached further, the free space is negative, is cast to `uint16_t`, and the sender
   sends beyond the window. Nothing is lost, the receiver drops the excess and the
   sender retransmits it (the other invariants of `sender` hold), but flow control fails.
3. `tcp_connection.cc:100` hands `ackno` to the sender without looking at the ACK flag. A
   SYN without acknowledgment has `ackno` 0. If 0 is among the numbers the server has in
   flight, a repeated SYN makes it forget bytes the client never received. The ISN is
   random, so this needs an ISN just below 2^32. The passing runs with connections use ISNs
   with which no endpoint uses number 0; this is an assumption about those runs, not about
   the code.
4. `tcp_sponge_socket.hh:73` says a connected socket that is destructed sends a RST. The
   thread leaves its loop, and the RST that the connection's destructor queues is destroyed
   with the connection (`tcp_sponge_socket.cc:265`); the peer has to time out.

Other behaviour the models brought out, stated in the properties as exceptions:

- A sender that last saw a closed window does not count its retransmissions
  (`tcp_sender.cc:186`). If its peer is gone it goes on for ever. `tcp_config.hh:17` calls
  the limit "Maximum re-transmit attempts before giving up".
- A RST is sent once. If it is lost and the other endpoint has nothing in flight, that
  endpoint waits for ever, and so does its program: there is no keep-alive. This and the
  closed window are `half_open`, the exception of `Ends` and `ProgramEnds`. In
  `pair_simultaneous` the server may be destroyed, which loses its RST; in `program` the
  RST of the peer is lost only when the network is full (it is with `MaxPackets` = 2, with
  which the run passes too, in more time).
- After a reset, rule 3 may write only part of what is left and shuts the local socket down
  all the same; the rest is dropped, or the next write is a SIGPIPE. An owner with bytes
  still to write gets a SIGPIPE too. `NotBroken` and `LeavesWhenOver` except a reset.
- `poll` returns at once for a hangup of a descriptor no rule is interested in, so a thread
  that waits for its peer after the owner has gone spins. Nothing but the clock changes.
- In a simultaneous open an endpoint passes through summaries that no state of RFC 793 has,
  and with outbound data of its own it answers a repeated SYN only by its next segment.

## Proofs

Proved by TLAPS for all values of the constants, from the named assumptions on them (an even
modulus, capacities that are not 0, a window below `WIN_MOD`, streams of bytes, ISNs in
range, a timeout that is not 0). The lemmas take the stream, the capacity and the ISN as
parameters, so that the same lemma serves a component alone and inside a connection. The
theorems about one component follow; each names the run's property it states.

**Sequence numbers.** `UnwrapClosest`, `UnwrapWrap` (and `AlwaysClosest`, `AlwaysRoundTrip` as
invariants): the difference modulo `SEQ_MOD` and the checkpoint determine the number up to a
multiple of the modulus; the case distinction of the code picks the nearest.

**The reassembler.** `HoldsStream` is inductive: the proof follows `push_substring` through its
three parts. `StoreHolds` shows that the ring still holds the stream after the copy:
`SlotInjective` says that two indices of the window never share a slot. `AvailEnd` and
`WriteHolds` show that what is handed to the output is the next stretch of the stream.
`FlushHolds` moves the window; the slots that leave it must be clear, because they stand for
bytes a capacity further on, which is where clearing exactly the written slots matters.
`FinishHolds` handles the end. The same lemmas say which indices a reassembler knows
afterwards (`Known`): none but those it knew and those pushed, and all of those it knew, which
gives `ArrivedBytesStay` and `PushDeliversAll`. `UnassembledCount` is proved by the
cardinality of the occupied slots (`StoreExact`, `FlushExact`). `DeliveryRefined`: each push is
a `Deliver` or a stutter, each read a `Take`.

**The receiver.** The inductive invariant is `ReceiverHolds`, the shape of the record, and
`AllArrived`: every index the reassembler knows, the SYN and the FIN have been carried by some
segment. `CutSpec` says which bytes a segment carries; `UnwrapWrap` turns its number into the
right index, which is where the assumption on the age of segments is needed; `PushHolds` does
the rest. A segment without payload past the end of the stream is the one case outside
`PushHolds`: it stores nothing wherever it is said to start (`EmptyPush`). The end is marked
exactly when a FIN was accepted whole (`PushEof`). From the invariant follow all invariants of
the run and, with what one step does to the counters (`Advances`, `WindowEdges`),
`WindowCorrect` and `DeliveryRefined`. `NeverStuckCorrect` assumes `SEQ_MOD > 2`: with two
numbers the next one is already half the space away and `unwrap` may take it for the last.

**The sender.** `SenderHolds` is what `fill_window`, `ack_received`, `tick` and
`send_empty_segment` preserve whatever they are called with: the outstanding segments are
consecutive pieces of SYN, stream and FIN that end at `next_seqno` and number `bytes_in_flight`
(`Tiled`), `next_seqno` counts what was read (`Counted`), the timeout is the one the
retransmissions give (`Timed`), the timer runs exactly while something is outstanding
(`Armed`), and something is while anything is left to say (`Busy`). That `sizes`, the sum over
a queue, is what it should be for a queue of any length is proved by least counterexamples
(`LeastNat`, `UpTo`), since no induction over data is available. `SendWindow` cuts the stream
into the segments of one burst; `PopAcked` shows that the queue is cut exactly between two of
its pieces. `SentIsRead`, `NeverIdle`, `Backoff` and `TypeOK` follow without any assumption
about the peer or the network. (`Backoff` uses `2 ^ n`, whose recursion the provers do not
know: `BackoffHolds` counts subsets instead.)

What the peer knows is `Linked`: it has acknowledged nothing unsent, the sender still keeps
everything it has not acknowledged, and, over a network that keeps acknowledgments in order,
the free space computed by the sender ends inside the peer's window (`InWindow`). An
acknowledgment is a 32-bit number, so this needs the number to be unambiguous:
`OutstandingTilesHolds`, `ForgetsOnlyAckedHolds` and `WindowRespectedHolds` have the condition
`Unambiguous`. Either the stream with its SYN and FIN takes at most half the sequence numbers,
and then acknowledgments may be lost, repeated and reordered for ever; or acknowledgments keep
their order and two windows fit in half the numbers, and then the stream may have any length.
The code has 2^16 and 2^32, so the second holds of every stream, and the first of streams up
to 2 GiB. The constants of the run satisfy the first.

**Two connections.** `PairProofs` follows each operation of `TCPConnection` in `TCPPair`.
`Sound(e, c)`: the sender of `c` holds the stream of its own application, its receiver holds
the peer's, everything queued is a piece of the own stream whose acknowledgment number is 0 or
one the receiver has reached, and a RST only if `c` has failed (`Posted`), whoever has heard something has said something
(`Answered`), both streams have an error or neither, an endpoint with an error is over, and one
that is over without an error has nothing left to send or to hear (`Done`). `PairInv` says that
both connections are sound, that neither is active with its retransmissions exhausted
(`Patient`), that the network carries only what its senders may have posted, and that no sender
takes for acknowledged (`oldest`) more than its peer has accepted (`heard`). It is inductive:
`SegmentLeads`, `TickLeads`, `WriteLeads`, `EndLeads`, `ConnectLeads`, `DestroyLeads` and
`ReadLeads` show for each handler, whatever it does inside (a reset, a shutdown, an empty reply,
the pass of every queued segment through `send_sender_segments`), that a sound connection stays
sound and what it never takes back (`Grows`, `Leads`). Losing, repeating and delivering are then
the same for all of them (`Moved`, `StepInv`). `TypeCorrect` and `NotExhaustedHolds` read off
`PairInv`. `FailsForCauseHolds` looks at each handler once more: all but `tick` and the
destructor leave the error flags alone unless a RST arrives (`CallsKeep`, `SegmentKeeps`), a tick
sets them only when the retransmissions are exhausted (`TickKeeps`), and a RST under way, however
old, is one its sender may have posted, so its sender has failed. `StatesAdvanceHolds` turns the order of `Grows` into the
order of the states of RFC 793 (`SenderRank`, `SettledLeads`, `RanksAdvance`).
`BothDeliverHolds` shows that every step of the pair is, for the reader at either end, a
`Deliver`, a `Take` or a stutter of `InOrderDelivery` (`StepDelivers`).

`AckedIsReceivedHolds` needs the last two conjuncts of `PairInv` together. What a sender takes
for acknowledged is bounded by what its peer has heard only if every acknowledgment under way
is, however old; and such an acknowledgment stays within what the peer has heard because that
never shrinks (`PostedMore`). When the segment arrives, its 32-bit number is unwrapped near
`next_seqno` and cannot be taken for a later one (`Confirms`, with `StreamsFit`).
`CleanMeansCompleteHolds` follows: `clean_shutdown` ends a connection only when it is `Done`, so
its whole stream with the FIN is acknowledged (`AllAcked`), so the peer has heard all of it
(`HeardCounts`). It covers both ways to end, lingering and not.

The theorems about the pair assume `StreamsFit`: each stream with its SYN and FIN is shorter
than half the sequence space. The network of the model keeps a segment for any time, so without
it an old segment could be taken for a new one; in the real network the lifetime of a segment
does what `StreamsFit` does here. `AckedIsReceivedHolds` and `CleanMeansCompleteHolds` also
assume `ZeroUnused`: 0 is not the number of anything an endpoint sends after its SYN. It cannot
be dropped: `segment_received` believes the number of a segment without the ACK flag, which is
0, and without `ZeroUnused` the property is false (`pair_no_ack_flag`, item 3 above). The
instances of `pair` and `pair_simultaneous` satisfy both assumptions, that of
`pair_no_ack_flag` the first.

**A note on the lemmas.** Those on the count of the reassembler take the facts on the cardinality
of finite sets as a hypothesis, `Counting`; `ReassemblerProofs` and `ReceiverProofs` discharge it
from the library's theorems (`CountingHolds`). So no theorem depends on it, and the modules that
are not about the count need not load that library.

Only model-checked:

- `Completes`, `Ends`, `ProgramEnds`: liveness under fairness, and `ENABLED`, are out of the
  prover's reach.
- The adapters and the programs. The formats are folds over bytes, and what a fold computes
  needs induction over data, which this prover cannot do. The safety of the programs is that
  of the pair through two more event loops; no invariant of theirs has been worked out.

## Not modelled

- Printing (`summary`, `to_string`, `name`), hex dumps, the error categories of
  `util.cc`, random seeds and the clock; names and name resolution in `address.cc`. An
  address is a value.
- The set-up of kernel sockets and of a TUN device: options, `bind`, `accept`,
  non-blocking mode. They are system calls without state of their own here. A signal that
  interrupts `poll` is left out, since no program catches one.
- `tcp_native` copies over the kernel's TCP; its copy loop is that of `StreamCopy`.
  `tcp_benchmark` runs one schedule of the connections `TCPPair` explores. `udp_tcpdump` and
  `tun` print packets.
- The unsynchronised counters of the descriptor that the thread shuts down while the owner
  uses it: they only feed the owner's own busy-wait test.
- Receive capacities of 2^16 and more, whose advertised window is cut to 16 bits. The
  configurations stay below `WIN_MOD`, as `TCPConfig::DEFAULT_CAPACITY` does.
- `_time_elapsed`, `_rto` and the counters are unbounded numbers: their overflow takes more
  retransmissions than `MAX_RETX_ATTEMPTS` allows.
