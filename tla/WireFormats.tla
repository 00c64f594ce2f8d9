------------------------------ MODULE WireFormats ------------------------------
(***************************************************************************)
(* Headers and packets as bytes (libsponge/tcp_helpers/ipv4_header.cc,     *)
(* ipv4_datagram.cc, tcp_header.cc, tcp_segment.cc).  Each parser returns  *)
(* what it filled in and a ParseResult.                                    *)
(***************************************************************************)
EXTENDS NetParser

LENGTH == 20    \* of either header, without options
PROTO_TCP == 6

flag(number, mask) == (number \div mask) % 2 = 1
mask_if(set, mask) == IF set THEN mask ELSE 0

new_TCPHeader ==
  [sport |-> 0, dport |-> 0, seqno |-> <<0, 0>>, ackno |-> <<0, 0>>, doff |-> 5,
   urg |-> FALSE, ack |-> FALSE, psh |-> FALSE, rst |-> FALSE, syn |-> FALSE, fin |-> FALSE,
   win |-> 0, cksum |-> 0, uptr |-> 0]

\* The fields of a TCP header, from what is read off a parser.
tcp_fields(v) ==
  [sport |-> v[1], dport |-> v[2], seqno |-> v[3], ackno |-> v[4], doff |-> v[5] \div 16,
   urg |-> flag(v[6], 32), ack |-> flag(v[6], 16), psh |-> flag(v[6], 8),
   rst |-> flag(v[6], 4), syn |-> flag(v[6], 2), fin |-> flag(v[6], 1),
   win |-> v[7], cksum |-> v[8], uptr |-> v[9]]

\* The options are skipped, unless the header claims to be shorter than its fields.
skip_tcp_options(h, parser) ==
  LET p == IF h.doff < 5 THEN parser ELSE remove_prefix(parser, h.doff * 4 - LENGTH)
  IN [header |-> h, p |-> p, result |-> IF h.doff < 5 THEN "HeaderTooShort" ELSE p.error]

\* The fields first, whatever is missing.
parse_TCPHeader(parser) ==
  LET read == parse_ints(parser, <<2, 2, 4, 4, 1, 1, 2, 2, 2>>)
  IN skip_tcp_options(tcp_fields(read.vals), read.p)

serialize_TCPHeader(h) ==
  resize(u16(h.sport) \o u16(h.dport) \o u32(h.seqno) \o u32(h.ackno) \o u8(h.doff * 16)
           \o u8(mask_if(h.urg, 32) + mask_if(h.ack, 16) + mask_if(h.psh, 8)
                   + mask_if(h.rst, 4) + mask_if(h.syn, 2) + mask_if(h.fin, 1))
           \o u16(h.win) \o u16(h.cksum) \o u16(h.uptr),
         4 * h.doff)

\* A parsed header and all that follows it.  The result of the header's parser is not
\* looked at, only the error of the NetParser.
packet(parsed) ==
  [header |-> parsed.header, payload |-> parsed.p.buffer, result |-> parsed.p.error]

parse_TCPSegment(buffer, datagram_layer_checksum) ==
  IF checksum_value(checksum_add(new_InternetChecksum(datagram_layer_checksum), buffer)) # 0
  THEN [header |-> new_TCPHeader, payload |-> <<>>, result |-> "BadChecksum"]
  ELSE packet(parse_TCPHeader(new_NetParser(buffer)))

serialize_TCPSegment(header, payload, datagram_layer_checksum) ==
  LET zeroed == serialize_TCPHeader([header EXCEPT !.cksum = 0])
      check == checksum_add(checksum_add(new_InternetChecksum(datagram_layer_checksum), zeroed), payload)
  IN serialize_TCPHeader([header EXCEPT !.cksum = checksum_value(check)]) \o payload
-----------------------------------------------------------------------------
new_IPv4Header ==
  [ver |-> 4, hlen |-> 5, tos |-> 0, len |-> 0, id |-> 0, df |-> TRUE, mf |-> FALSE,
   offset |-> 0, ttl |-> 128, proto |-> PROTO_TCP, cksum |-> 0, src |-> <<0, 0>>, dst |-> <<0, 0>>]

\* A 16-bit difference.
payload_length(h) == (h.len - 4 * h.hlen) % 65536

\* What the TCP checksum takes from the IP header.
pseudo_cksum(h) == h.src[1] + h.src[2] + h.dst[1] + h.dst[2] + h.proto + payload_length(h)

\* The fields of an IP header, from what is read off a parser.
ip_fields(v) ==
  [ver |-> v[1] \div 16, hlen |-> v[1] % 16, tos |-> v[2], len |-> v[3], id |-> v[4],
   df |-> flag(v[5], 16384), mf |-> flag(v[5], 8192), offset |-> v[5] % 8192,
   ttl |-> v[6], proto |-> v[7], cksum |-> v[8], src |-> v[9], dst |-> v[10]]

\* The tests between the fields and the options, in their order.
ip_refusal(h, data_size) ==
  IF data_size < 4 * h.hlen THEN "PacketTooShort"
  ELSE IF h.ver # 4 THEN "WrongIPVersion"
  ELSE IF h.hlen < 5 THEN "HeaderTooShort"
  ELSE IF data_size # h.len THEN "TruncatedPacket" ELSE NoError

\* Mutant of ip_checksum_error: the checksum is taken without the options.
ip_checksum_error_short(bytes, h) ==
  checksum_value(checksum_add(new_InternetChecksum(0), SubSeq(bytes, 1, LENGTH))) # 0

ip_checksum_error(bytes, h) ==
  checksum_value(checksum_add(new_InternetChecksum(0), SubSeq(bytes, 1, 4 * h.hlen))) # 0

\* The options are skipped, and the checksum taken, only if all before was right.
check_ip_header(bytes, h, p) ==
  LET refusal == ip_refusal(h, Len(bytes))
      skipped == remove_prefix(p, h.hlen * 4 - LENGTH)
  IN IF refusal # NoError THEN [header |-> h, p |-> p, result |-> refusal]
     ELSE [header |-> h, p |-> skipped,
           result |-> IF skipped.error # NoError THEN skipped.error
                      ELSE IF ip_checksum_error(bytes, h) THEN "BadChecksum" ELSE NoError]

parse_IPv4Header(parser) ==
  IF Len(parser.buffer) < LENGTH
  THEN [header |-> new_IPv4Header, p |-> parser, result |-> "PacketTooShort"]
  ELSE LET read == parse_ints(parser, <<1, 1, 2, 2, 2, 1, 1, 2, 4, 4>>)
       IN check_ip_header(parser.buffer, ip_fields(read.vals), read.p)

serialize_IPv4Header(h) ==
  resize(u8(h.ver * 16 + (h.hlen % 16)) \o u8(h.tos) \o u16(h.len) \o u16(h.id)
           \o u16(mask_if(h.df, 16384) + mask_if(h.mf, 8192) + (h.offset % 8192))
           \o u8(h.ttl) \o u8(h.proto) \o u16(h.cksum) \o u32(h.src) \o u32(h.dst),
         4 * h.hlen)

\* Mutant of check_length: the length is not compared.
check_length_never(dgram) == dgram

\* Here too the header's own result is not looked at: the length is.
check_length(dgram) ==
  IF Len(dgram.payload) # payload_length(dgram.header)
  THEN [dgram EXCEPT !.result = "PacketTooShort"] ELSE dgram

parse_IPv4Datagram(buffer) == check_length(packet(parse_IPv4Header(new_NetParser(buffer))))

\* A datagram whose payload has not the length its header says is not sent (an exception).
serialize_IPv4Datagram(header, payload) ==
  LET zeroed == serialize_IPv4Header([header EXCEPT !.cksum = 0])
      check == checksum_add(new_InternetChecksum(0), zeroed)
  IN serialize_IPv4Header([header EXCEPT !.cksum = checksum_value(check)]) \o payload
=============================================================================
