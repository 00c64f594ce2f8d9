-------------------------------- MODULE MCPair --------------------------------
EXTENDS TCPPair

MCByte == 0 .. 3

\* Both applications have a byte to send.
MCStream == [e \in Endpoint |-> IF e = "client" THEN <<1>> ELSE <<3>>]

\* Only the server has, one more than the client's window takes: the second waits behind
\* the first while the client's FIN wants an answer.
MCServerTwo == [e \in Endpoint |-> IF e = "client" THEN <<>> ELSE <<3, 2>>]

WithIsns(client, server) == [e \in Endpoint |->
  [send_capacity |-> 2, recv_capacity |-> 1, rt_timeout |-> 1,
   isn |-> IF e = "client" THEN client ELSE server]]

\* No endpoint uses sequence number 0.
MCConfig == WithIsns(5, 9)

\* Two segments under way to both endpoints, to the server, or to either one.
MCRoom(client, server) == [e \in Endpoint |-> IF e = "client" THEN client ELSE server]
MCBothTwo == {MCRoom(2, 2)}
MCToServerTwo == {MCRoom(1, 2)}
MCEitherTwo == {MCRoom(2, 1), MCRoom(1, 2)}

\* The server's numbers cross the end of the sequence space.
MCWrapConfig == WithIsns(5, 14)
=============================================================================
