------------------------------- MODULE MCAdapter -------------------------------
EXTENDS AdapterSpec

\* Two hosts that differ in their address only, with numbers whose sums carry.
MCUs == [ip |-> <<2560, 1>>, port |-> 80]
MCHosts == {[ip |-> <<2560, 2>>, port |-> 65535], [ip |-> <<65279, 65533>>, port |-> 65535]}
MCElsewhere == {[MCUs EXCEPT !.port = 81]}

\* A SYN with options, a SYN that also resets, and data of odd length that ends in a zero.
MCSegments == {
  [header |-> [new_TCPHeader EXCEPT !.seqno = <<65535, 65535>>, !.syn = TRUE, !.doff = 6], payload |-> <<>>],
  [header |-> [new_TCPHeader EXCEPT !.syn = TRUE, !.rst = TRUE], payload |-> <<>>],
  [header |-> [new_TCPHeader EXCEPT !.seqno = <<1, 2>>, !.ackno = <<3, 65280>>, !.ack = TRUE,
                 !.psh = TRUE, !.fin = TRUE, !.win = 65535, !.uptr = 7], payload |-> <<255, 9, 0>>]}

MCTemplates == {new_IPv4Header, [new_IPv4Header EXCEPT !.hlen = 6, !.df = FALSE, !.offset = 1],
                [new_IPv4Header EXCEPT !.proto = 17]}
=============================================================================
