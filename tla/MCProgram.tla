-------------------------------- MODULE MCProgram --------------------------------
EXTENDS Program

MCByte == 0 .. 4
MCInput == <<1>>
MCPeerStream == <<3, 4>>

\* A server over a lossy network; a port nobody can listen on, after an option only
\* tcp_ipv4 has; a missing argument; a question.
MCCommandLines == {<<"-l", "-Lu", "0.5", "-Ld", "0.5", "-w", "2", "1440">>,
                   <<"-l", "-a", "local", "0">>, <<"-t", "1440">>, <<"-h", "1440">>}
MCNumber == [n \in {"0", "0.5", "2", "100", "1440"} |->
  CASE n = "0" -> 0 [] n = "2" -> 2 [] n = "1440" -> 1440 [] OTHER -> 1]

MCDefaultConfig == [send_capacity |-> 1, recv_capacity |-> 2, rt_timeout |-> 1, isn |-> 5]
MCPeerConfig == [send_capacity |-> 2, recv_capacity |-> 1, rt_timeout |-> 1, isn |-> 9]
=============================================================================
