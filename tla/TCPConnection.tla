--------------------------- MODULE TCPConnection ---------------------------
(***************************************************************************)
(* libsponge/tcp_connection.{hh,cc}: one endpoint, made of a TCPSender and *)
(* a TCPReceiver that see the same segments, with the rules for opening,   *)
(* answering, giving up, lingering and closing.                            *)
(***************************************************************************)
EXTENDS TCPReceiver, TCPSender

CONSTANTS
  WinMod,              \* the number of uint16_t values, 2^16 in the code
  MAX_RETX_ATTEMPTS    \* TCPConfig::MAX_RETX_ATTEMPTS

ASSUME ConnectionAssumption ==
  WinMod \in Nat \ {0} /\ MAX_RETX_ATTEMPTS \in Nat

LingerTime == 10 * RtTimeout

\* TCPConnection(cfg)
NewConnection(recv_capacity, send_capacity, isn) ==
  [receiver |-> NewReceiver(recv_capacity), sender |-> NewSender(send_capacity, isn),
   segments_out |-> <<>>, linger_after_streams_finish |-> TRUE,
   time_since_last_segment_received |-> 0, active |-> TRUE, need_send_rst |-> FALSE]

inbound_stream(c) == stream_out(c.receiver)

\* Slips: no time of grace for the peer's retransmissions, or one without end.
Done_at_once(c) == c.sender.bytes_in_flight = 0
Done_never(c) == c.sender.bytes_in_flight = 0 /\ ~c.linger_after_streams_finish

\* All is acknowledged, and lingering is over or not needed.
Done(c) ==
  /\ c.sender.bytes_in_flight = 0
  /\ \/ ~c.linger_after_streams_finish
     \/ c.time_since_last_segment_received >= LingerTime

\* Slip: does not wait for the peer's stream to end.
clean_shutdown_half_open(c) ==
  IF c.sender.fin /\ Done(c) THEN [c EXCEPT !.active = FALSE] ELSE c

\* clean_shutdown(): nothing while the peer's stream is open.  An end that has
\* not sent its own FIN yet will not linger; one whose FIN is acknowledged is
\* done, at once or when it has lingered long enough.
clean_shutdown(c) ==
  IF ~input_ended(inbound_stream(c)) THEN c
  ELSE IF ~c.sender.fin THEN [c EXCEPT !.linger_after_streams_finish = FALSE]
  ELSE IF Done(c) THEN [c EXCEPT !.active = FALSE]
  ELSE c

\* Once there is an ackno, every segment says so.  The window is 16 bits wide.
WithAck(c, seg) ==
  IF ~has_ackno(c.receiver) THEN seg
  ELSE [seg EXCEPT !.ack = TRUE, !.ackno = c.receiver.ackno,
                   !.win = window_size(c.receiver) % WinMod]

\* send_sender_segments(): all that the sender has queued goes out, the first
\* with the RST if one is due, and the connection may close.
send_sender_segments(c) ==
  LET sender == IF c.sender.segments_out = <<>> /\ c.need_send_rst
                THEN send_empty_segment(c.sender) ELSE c.sender
      sent == [i \in 1 .. Len(sender.segments_out) |->
                 [WithAck(c, sender.segments_out[i]) EXCEPT
                    !.rst = @ \/ (i = 1 /\ c.need_send_rst)]]
  IN  clean_shutdown([c EXCEPT !.sender = [sender EXCEPT !.segments_out = <<>>],
                               !.segments_out = @ \o sent,
                               !.need_send_rst = FALSE])

unclean_shutdown(c, rst) ==
  send_sender_segments([c EXCEPT !.sender.stream = set_error(@),
                                 !.receiver.reassembler.output = set_error(@),
                                 !.active = FALSE, !.need_send_rst = rst])

connect(c) == send_sender_segments([c EXCEPT !.sender = fill_window(@)])

\* write(data).  Like end_input_stream(), it does not ask whether the
\* connection is still active.
connection_write(c, data) ==
  IF data = <<>> THEN c
  ELSE connect([c EXCEPT !.sender.stream = write(@, data)])

end_input_stream(c) == connect([c EXCEPT !.sender.stream = end_input(@)])

\* Nothing was sent or received yet.
Listening(c) == c.sender.next_seqno = 0 /\ ~has_ackno(c.receiver)

\* The SYN was sent and not even that is acknowledged.
SynUnacked(c) ==
  c.sender.next_seqno > 0 /\ c.sender.bytes_in_flight = c.sender.next_seqno

\* The peer's ackno and window go to the sender; a segment that takes sequence
\* numbers is answered at least by an empty one.
Answer(c, seg) ==
  LET sender == ack_received(c.sender, seg.ackno, seg.win)
      owes == length_in_sequence_space(seg) > 0 /\ sender.segments_out = <<>>
  IN  send_sender_segments(
        [c EXCEPT !.sender = IF owes THEN send_empty_segment(sender) ELSE sender])

\* segment_received(seg)
segment_received(c, seg) ==
  LET awake == [c EXCEPT !.time_since_last_segment_received = 0]
      got == [awake EXCEPT !.receiver = receive(@, seg)]
  IN  IF ~c.active THEN c
      ELSE IF Listening(c) THEN
        IF seg.syn /\ ~seg.rst THEN connect(got) ELSE awake
      ELSE IF seg.rst THEN unclean_shutdown(awake, FALSE)
      ELSE IF SynUnacked(c) /\ (seg.payload # <<>> \/ ~(seg.ack \/ seg.syn)) THEN awake
      ELSE IF seg.ack THEN Answer(got, seg)
      ELSE IF SynUnacked(c) THEN    \* both ends open at the same time
        send_sender_segments([got EXCEPT !.sender = send_empty_segment(@)])
      ELSE got

\* tick(ms).  The time since the last segment stops at LingerTime, the only
\* value it is compared with.
connection_tick(c, ms) ==
  LET ticked == [c EXCEPT !.time_since_last_segment_received =
                            AtMost(@ + ms, LingerTime),
                          !.sender = sender_tick(@, ms)]
      gives_up == ticked.sender.consecutive_retransmissions > MAX_RETX_ATTEMPTS
  IN  IF ~c.active THEN c
      ELSE send_sender_segments(IF gives_up THEN unclean_shutdown(ticked, TRUE)
                                ELSE ticked)

\* ~TCPConnection()
destroy(c) == IF c.active THEN unclean_shutdown(c, TRUE) ELSE c
=============================================================================
