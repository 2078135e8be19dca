------------------------------ MODULE TCPState ------------------------------
(***************************************************************************)
(* libsponge/tcp_helpers/tcp_state.{hh,cc}: an endpoint in the words of    *)
(* RFC 793, "to test that Sponge follows the TCP spec".                    *)
(***************************************************************************)
EXTENDS TCPConnection

receiver_summary(r) ==
  IF stream_out(r).error THEN "ERROR"
  ELSE IF ~has_ackno(r) THEN "LISTEN"
  ELSE IF input_ended(stream_out(r)) THEN "FIN_RECV"
  ELSE "SYN_RECV"

sender_summary(s) ==
  IF s.stream.error THEN "ERROR"
  ELSE IF s.next_seqno = 0 THEN "CLOSED"
  ELSE IF s.next_seqno = s.bytes_in_flight THEN "SYN_SENT"
  ELSE IF ~eof(s.stream) \/ s.next_seqno < s.stream.write_count + 2 THEN "SYN_ACKED"
  ELSE IF s.bytes_in_flight # 0 THEN "FIN_SENT"
  ELSE "FIN_ACKED"

\* TCPState(sender, receiver, active, linger)
state(c) ==
  [sender |-> sender_summary(c.sender), receiver |-> receiver_summary(c.receiver),
   active |-> c.active, linger |-> c.active /\ c.linger_after_streams_finish]

\* TCPState(state): what the official names stand for.
Official ==
  LET is(receiver, sender, active, linger) ==
        [sender |-> sender, receiver |-> receiver, active |-> active, linger |-> linger]
  IN  [LISTEN      |-> is("LISTEN", "CLOSED", TRUE, TRUE),
       SYN_RCVD    |-> is("SYN_RECV", "SYN_SENT", TRUE, TRUE),
       SYN_SENT    |-> is("LISTEN", "SYN_SENT", TRUE, TRUE),
       ESTABLISHED |-> is("SYN_RECV", "SYN_ACKED", TRUE, TRUE),
       CLOSE_WAIT  |-> is("FIN_RECV", "SYN_ACKED", TRUE, FALSE),
       LAST_ACK    |-> is("FIN_RECV", "FIN_SENT", TRUE, FALSE),
       CLOSING     |-> is("FIN_RECV", "FIN_SENT", TRUE, TRUE),
       FIN_WAIT_1  |-> is("SYN_RECV", "FIN_SENT", TRUE, TRUE),
       FIN_WAIT_2  |-> is("SYN_RECV", "FIN_ACKED", TRUE, TRUE),
       TIME_WAIT   |-> is("FIN_RECV", "FIN_ACKED", TRUE, TRUE),
       RESET       |-> is("ERROR", "ERROR", FALSE, FALSE),
       CLOSED      |-> is("FIN_RECV", "FIN_ACKED", FALSE, FALSE)]
=============================================================================
