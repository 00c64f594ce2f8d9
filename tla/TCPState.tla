-------------------------------- MODULE TCPState --------------------------------
(***************************************************************************)
(* The state of a connection as the rest of the program sees it             *)
(* (libsponge/tcp_helpers/tcp_state.cc): a summary of the sender, one of the *)
(* receiver and two flags, compared with the states of RFC 793.            *)
(***************************************************************************)
EXTENDS TCPConnection

receiver_summary(r) ==
  CASE stream_out(r).error -> "error"
    [] ~stream_out(r).error /\ ~has_ackno(r) -> "LISTEN"
    [] ~stream_out(r).error /\ has_ackno(r) ->
         IF stream_out(r).input_ended THEN "FIN_RECV" ELSE "SYN_RECV"

sender_summary(s) ==
  CASE s.stream.error -> "error"
    [] ~s.stream.error /\ s.next_seqno = 0 -> "CLOSED"
    [] ~s.stream.error /\ s.next_seqno > 0 /\ s.next_seqno = s.bytes_in_flight -> "SYN_SENT"
    [] OTHER -> IF ~eof(s.stream) \/ s.next_seqno < s.stream.nwritten + 2 THEN "SYN_ACKED"
                ELSE IF s.bytes_in_flight > 0 THEN "FIN_SENT" ELSE "FIN_ACKED"

state(c) ==
  [receiver |-> receiver_summary(c.receiver), sender |-> sender_summary(c.sender),
   active |-> c.active, linger |-> c.active /\ c.linger_after_streams_finish]

open_state(receiver, sender, linger) ==
  [receiver |-> receiver, sender |-> sender, active |-> TRUE, linger |-> linger]

over_state(receiver, sender) ==
  [receiver |-> receiver, sender |-> sender, active |-> FALSE, linger |-> FALSE]

\* The constructor from a State: what each state of RFC 793 is made of.
State == [
  LISTEN      |-> open_state("LISTEN", "CLOSED", TRUE),
  SYN_RCVD    |-> open_state("SYN_RECV", "SYN_SENT", TRUE),
  SYN_SENT    |-> open_state("LISTEN", "SYN_SENT", TRUE),
  ESTABLISHED |-> open_state("SYN_RECV", "SYN_ACKED", TRUE),
  CLOSE_WAIT  |-> open_state("FIN_RECV", "SYN_ACKED", FALSE),
  LAST_ACK    |-> open_state("FIN_RECV", "FIN_SENT", FALSE),
  CLOSING     |-> open_state("FIN_RECV", "FIN_SENT", TRUE),
  FIN_WAIT_1  |-> open_state("SYN_RECV", "FIN_SENT", TRUE),
  FIN_WAIT_2  |-> open_state("SYN_RECV", "FIN_ACKED", TRUE),
  TIME_WAIT   |-> open_state("FIN_RECV", "FIN_ACKED", TRUE),
  RESET       |-> over_state("error", "error"),
  CLOSED      |-> over_state("FIN_RECV", "FIN_ACKED")]
=============================================================================
