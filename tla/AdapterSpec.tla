------------------------------ MODULE AdapterSpec ------------------------------
(***************************************************************************)
(* An adapter and the datagrams that reach it: segments of several hosts,  *)
(* as bytes, some damaged or cut short on the way.  Each host writes       *)
(* through an adapter of its own.                                          *)
(***************************************************************************)
EXTENDS FdAdapter, WireFormats

CONSTANTS
  Us, Hosts,   \* addresses: ip and port
  Elsewhere,   \* where a host may send that is not our address
  Segments,    \* header and payload of what hosts send
  Templates,   \* IP headers hosts may start from: with options, of another protocol
  Change       \* what may be added, modulo 256, to a byte on the way

AnyIp == <<0, 0>>

ASSUME AdapterAssumption ==
  /\ Us \notin Hosts /\ Change \subseteq 1 .. 255
  /\ \A seg \in Segments : Len(seg.payload) \in Nat /\ seg.header.doff >= 5
  /\ \A ip \in Templates : ip.hlen >= 5

VARIABLES
  layer,    \* "udp" or "ip"; never changes
  adapter,
  wire      \* the datagram that has arrived: who sent what where, its bytes as sent and as they are

vars == <<layer, adapter, wire>>

NoDatagram == [nothing |-> TRUE]

Init ==
  /\ layer \in {"udp", "ip"}
  /\ \/ adapter \in {new_FdAdapter(Us, host) : host \in Hosts}
     \/ LET bound == IF layer = "ip" THEN [Us EXCEPT !.ip = AnyIp] ELSE Us
        IN adapter = set_listening(new_FdAdapter(bound, [ip |-> AnyIp, port |-> 0]), TRUE)
  /\ wire = NoDatagram

\* Both adapters set the ports before they write.
addressed(ad, header) ==
  [header EXCEPT !.sport = ad.source.port, !.dport = ad.destination.port]

\* wrap_tcp_in_ip; ip is the header of a new datagram.
wrap_tcp_in_ip(ad, seg, ip) ==
  LET header == addressed(ad, seg.header)
      out == [ip EXCEPT !.src = ad.source.ip, !.dst = ad.destination.ip,
                        !.len = 4 * ip.hlen + 4 * header.doff + Len(seg.payload)]
  IN [header |-> out, payload |-> serialize_TCPSegment(header, seg.payload, pseudo_cksum(out))]

\* The bytes of write(): a UDP payload or an IP datagram.
written(ad, seg, ip) ==
  IF layer = "udp" THEN serialize_TCPSegment(addressed(ad, seg.header), seg.payload, 0)
  ELSE LET dgram == wrap_tcp_in_ip(ad, seg, ip)
       IN serialize_IPv4Datagram(dgram.header, dgram.payload)

segment_of(parsed) ==
  IF parsed.result = NoError THEN [header |-> parsed.header, payload |-> parsed.payload]
  ELSE NoSegment

\* read() of either adapter, of a datagram from host.
read(ad, host, bytes) ==
  LET udp == parse_TCPSegment(bytes, 0)
      dgram == parse_IPv4Datagram(bytes)
      ip == parse_TCPSegment(dgram.payload, pseudo_cksum(dgram.header))
  IN IF layer = "udp" THEN udp_read(ad, host, segment_of(udp), udp.header)
     ELSE IF dgram.result # NoError THEN outcome(ad, NoSegment)
     ELSE ip_read(ad, dgram.header, PROTO_TCP, segment_of(ip), ip.header)

\* What may become of bytes under way: nothing, one byte changed, the end cut off.  The
\* kernel delivers no part of a UDP payload, and UDPSocket::recv refuses one.
carried(bytes) ==
  {bytes} \cup {[bytes EXCEPT ![i] = (@ + d) % 256] : i \in 1 .. Len(bytes), d \in Change}
    \cup {SubSeq(bytes, 1, n) : n \in IF layer = "ip" THEN 0 .. Len(bytes) - 1 ELSE {}}

\* A host's segment arrives, as it was sent or not.  Only over IP can a segment for
\* somebody else arrive, and the IP header matters.
Arrive(host, to, seg, ip) ==
  LET sent == written(new_FdAdapter(host, to), seg, ip)
  IN /\ wire = NoDatagram
     /\ layer = "udp" => to = Us /\ ip = new_IPv4Header
     /\ \E bytes \in carried(sent) :
          wire' = [from |-> host, to |-> to, seg |-> seg, ip |-> ip, sent |-> sent, bytes |-> bytes]
     /\ UNCHANGED <<layer, adapter>>

\* The adapter reads it; a lossy adapter may then drop what it has read.
Read(dropped) ==
  /\ wire # NoDatagram
  /\ adapter' = lossy_read(read(adapter, wire.from, wire.bytes), dropped).ad
  /\ wire' = NoDatagram
  /\ UNCHANGED layer

Next ==
  \/ \E host \in Hosts, to \in {Us} \cup Elsewhere, seg \in Segments, ip \in Templates :
       Arrive(host, to, seg, ip)
  \/ \E dropped \in BOOLEAN : Read(dropped)

Spec == Init /\ [][Next]_vars
-----------------------------------------------------------------------------
\* What the connection is handed if the adapter reads now and nothing is dropped, and
\* the adapter afterwards.
result == read(adapter, wire.from, wire.bytes)

\* At the addresses and ports of the instance, one changed byte or a missing end never changes
\* what a connection is handed: every segment that comes out of read() is the one its sender
\* wrote, field by field, and it was sent to us by the peer (TCPSegment::parse,
\* IPv4Datagram::parse, unwrap_tcp_in_ip).  The checksum is a sum, and the parsers ignore the
\* result for the header, so there are ports for which a changed header length goes unnoticed.
DeliversOnlySent ==
  wire # NoDatagram /\ result.seg # NoSegment =>
    /\ wire.from = result.ad.destination /\ wire.to = Us
    /\ result.seg.payload = wire.seg.payload
    /\ [result.seg.header EXCEPT !.cksum = 0] =
         addressed(new_FdAdapter(wire.from, wire.to), wire.seg.header)

\* What the peer sends over a network that does no harm comes out of read(), and so does
\* the SYN that ends the listening; after a SYN that a lossy adapter dropped this holds
\* for its repetition.
IntactArrives ==
  /\ wire # NoDatagram /\ wire.bytes = wire.sent /\ wire.to = Us /\ wire.ip.proto = PROTO_TCP
  /\ IF adapter.listening THEN opens(wire.seg.header) ELSE wire.from = adapter.destination
  => result.seg # NoSegment

\* IPv4Header::parse accepts the header as it was sent and reports every header with one
\* changed byte, as ipv4_header.cc:13-22 asks; a changed header length, which makes the sum run
\* over other bytes, is noticed at the ports of the instance.
HeaderDamageReported ==
  wire # NoDatagram /\ layer = "ip" /\ Len(wire.bytes) = Len(wire.sent) =>
    LET size == 4 * wire.ip.hlen
    IN parse_IPv4Header(new_NetParser(wire.bytes)).result = NoError
         <=> SubSeq(wire.bytes, 1, size) = SubSeq(wire.sent, 1, size)

\* Listening ends with a SYN and for good: the adapter then has a peer, the sender of
\* that SYN, and keeps it, even if the SYN itself was dropped.
BoundForGood ==
  [][/\ ~adapter.listening => adapter' = adapter
     /\ adapter.listening /\ ~adapter'.listening =>
          opens(wire.seg.header) /\ adapter'.destination = wire.from /\ adapter'.source = Us]_vars
=============================================================================
