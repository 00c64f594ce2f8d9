------------------------------- MODULE FdAdapter -------------------------------
(***************************************************************************)
(* Which segments an adapter lets through (libsponge/tcp_helpers/          *)
(* fd_adapter.cc, tcp_over_ip.cc, lossy_fd_adapter.hh).  A listening       *)
(* adapter takes the source of the first SYN for its peer and hears nobody *)
(* else from then on.  Parsing is done by whoever calls: parsed says       *)
(* whether there is a segment, and which.                                  *)
(***************************************************************************)

\* What a read that yields no segment returns: an empty optional.
NoSegment == [nothing |-> TRUE]

new_FdAdapter(source, destination) ==
  [source |-> source, destination |-> destination, listening |-> FALSE]

set_listening(ad, l) == [ad EXCEPT !.listening = l]

opens(header) == header.syn /\ ~header.rst

outcome(ad, seg) == [ad |-> ad, seg |-> seg]

\* Mutant of udp_read: any segment ends the listening.
udp_read_hasty(ad, source_address, parsed, header) ==
  IF (~ad.listening /\ source_address # ad.destination) \/ parsed = NoSegment
  THEN outcome(ad, NoSegment)
  ELSE outcome([ad EXCEPT !.destination = source_address, !.listening = FALSE], parsed)

\* TCPOverUDPSocketAdapter::read.
udp_read(ad, source_address, parsed, header) ==
  IF \/ ~ad.listening /\ source_address # ad.destination
     \/ parsed = NoSegment
     \/ ad.listening /\ ~opens(header)
  THEN outcome(ad, NoSegment)
  ELSE IF ad.listening
       THEN outcome([ad EXCEPT !.destination = source_address, !.listening = FALSE], parsed)
       ELSE outcome(ad, parsed)

\* A listening adapter may be bound to any address; else both addresses must be ours.
ip_for_us(ad, ip) ==
  ad.listening \/ (ip.dst = ad.source.ip /\ ip.src = ad.destination.ip)

\* unwrap_tcp_in_ip; proto is the protocol number of TCP.
ip_read(ad, ip, proto, parsed, header) ==
  LET bound == IF ad.listening
               THEN [source |-> [ip |-> ip.dst, port |-> ad.source.port],
                     destination |-> [ip |-> ip.src, port |-> header.sport], listening |-> FALSE]
               ELSE ad
  IN IF \/ ~ip_for_us(ad, ip) \/ ip.proto # proto \/ parsed = NoSegment
        \/ header.dport # ad.source.port
        \/ ad.listening /\ ~opens(header)
     THEN outcome(ad, NoSegment)
     ELSE outcome(bound, IF header.sport = bound.destination.port THEN parsed ELSE NoSegment)

\* LossyFdAdapter::read: the adapter has read the datagram before it is dropped.
lossy_read(read, dropped) == IF dropped THEN [read EXCEPT !.seg = NoSegment] ELSE read
=============================================================================
