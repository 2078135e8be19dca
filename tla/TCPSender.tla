----------------------------- MODULE TCPSender -----------------------------
(***************************************************************************)
(* libsponge/tcp_sender.{hh,cc}: cuts the outgoing stream into segments    *)
(* that fit the peer's window, keeps the ones not acknowledged, and sends  *)
(* the oldest again when the retransmission timer expires.                 *)
(***************************************************************************)
EXTENDS ByteStream, WrappingInt32, TCPSegment

CONSTANTS
  MAX_PAYLOAD_SIZE,    \* TCPConfig::MAX_PAYLOAD_SIZE
  RtTimeout            \* TCPConfig::rt_timeout, the first retransmission timeout

ASSUME SenderAssumption ==
  /\ MAX_PAYLOAD_SIZE \in Nat \ {0}
  /\ RtTimeout \in Nat \ {0}

\* TCPSender(capacity, retx_timeout, isn)
NewSender(capacity, isn) ==
  [isn |-> isn, segments_out |-> <<>>, stream |-> NewByteStream(capacity),
   next_seqno |-> 0, segments_outstanding |-> <<>>, bytes_in_flight |-> 0,
   receiver_window_size |-> 1, consecutive_retransmissions |-> 0, rto |-> 0,
   tick |-> 0, timer_running |-> FALSE, syn |-> FALSE, fin |-> FALSE]

StartTimer(s) ==
  IF s.timer_running THEN s
  ELSE [s EXCEPT !.timer_running = TRUE, !.rto = RtTimeout, !.tick = 0]

\* New segments go out, stay outstanding, and take len sequence numbers.
Emit(s, segs, len) ==
  StartTimer([s EXCEPT !.segments_out = @ \o segs,
                       !.segments_outstanding = @ \o segs,
                       !.next_seqno = @ + len, !.bytes_in_flight = @ + len])

\* Slip: a window of zero is taken at its word.
Remain_no_probe(s) == (s.receiver_window_size - s.bytes_in_flight) % SizeMod

\* Slip: what is in flight is not taken off the window.
Remain_whole_window(s) ==
  s.receiver_window_size + (IF s.receiver_window_size = 0 THEN 1 ELSE 0)

\* remain: the room left in the window.  A window of zero counts as one; the
\* subtraction is unsigned.
Remain(s) ==
  (s.receiver_window_size - s.bytes_in_flight
     + (IF s.receiver_window_size = 0 THEN 1 ELSE 0)) % SizeMod

\* After n bytes were taken the stream is at its end and the window has room
\* for the FIN.  A segment with the last bytes gets it whenever that is so; a
\* segment of its own only once.
FinFits(s, remain, n) ==
  /\ input_ended(s.stream) /\ buffer_size(s.stream) = n
  /\ remain - n >= 1
  /\ n > 0 \/ ~s.fin

\* The bytes that go out before the i-th segment of a call.
Before(i) == (i - 1) * MAX_PAYLOAD_SIZE

\* Slips: a segment is as long as its maximum though the window is not, or each
\* takes its bytes from the front.
Chunk_beyond_window(buffer, n, i) ==
  SubSeq(buffer, Before(i) + 1, AtMost(Before(i) + MAX_PAYLOAD_SIZE, Len(buffer)))
Chunk_from_front(buffer, n, i) ==
  SubSeq(buffer, 1, AtMost(MAX_PAYLOAD_SIZE, n - Before(i)))

\* The bytes of the i-th segment.
Chunk(buffer, n, i) ==
  SubSeq(buffer, Before(i) + 1, AtMost(Before(i) + MAX_PAYLOAD_SIZE, n))

\* The first n bytes of the buffer in segments of at most MAX_PAYLOAD_SIZE, the
\* last of which has the FIN.  With no byte to send, the FIN is on its own.
Packetize(s, n, fin) ==
  LET count == IF n = 0 /\ fin THEN 1
               ELSE (n + MAX_PAYLOAD_SIZE - 1) \div MAX_PAYLOAD_SIZE
  IN  [i \in 1 .. count |->
        [Segment EXCEPT
           !.seqno = wrap(s.next_seqno + Before(i), s.isn),
           !.payload = Chunk(s.stream.buffer, n, i),
           !.fin = fin /\ i = count]]

\* fill_window(): the SYN, and nothing else, the first time; then as many bytes
\* as the window has room for.
fill_window(s) ==
  LET remain == Remain(s)
      n == AtMost(buffer_size(s.stream), remain)
      fin == FinFits(s, remain, n)
  IN  IF ~s.syn THEN
        Emit([s EXCEPT !.syn = TRUE],
             <<[Segment EXCEPT !.seqno = s.isn, !.syn = TRUE]>>, 1)
      ELSE IF n = 0 /\ ~fin THEN s
      ELSE Emit([s EXCEPT !.stream = pop_output(@, n), !.fin = @ \/ fin],
                Packetize(s, n, fin), n + (IF fin THEN 1 ELSE 0))

\* The absolute sequence number after a segment of ours.
EndOf(s, seg) ==
  unwrap(seg.seqno, s.isn, s.next_seqno) + length_in_sequence_space(seg)

\* An acknowledgment of something never sent, or one whose window does not even
\* reach past the oldest outstanding segment.
Unacceptable(s, ack, window_size) ==
  \/ ack > s.next_seqno
  \/ ack + window_size - (IF window_size = 0 THEN 0 ELSE 1)
       < EndOf(s, Head(s.segments_outstanding))

\* Slip: off by one, drops a segment whose last byte is still missing.
Acknowledged_off_by_one(s, ack) ==
  CHOOSE k \in 0 .. Len(s.segments_outstanding) :
    \A i \in 1 .. Len(s.segments_outstanding) :
      i <= k <=> EndOf(s, s.segments_outstanding[i]) - 1 <= ack

\* How many of the outstanding segments, oldest first, are acknowledged in full.
Acknowledged(s, ack) ==
  CHOOSE k \in 0 .. Len(s.segments_outstanding) :
    /\ \A i \in 1 .. k : EndOf(s, s.segments_outstanding[i]) - 1 < ack
    /\ k < Len(s.segments_outstanding) =>
         EndOf(s, s.segments_outstanding[k + 1]) - 1 >= ack

TotalLength(segs) ==
  LET upTo[k \in 0 .. Len(segs)] ==
        IF k = 0 THEN 0 ELSE upTo[k - 1] + length_in_sequence_space(segs[k])
  IN  upTo[Len(segs)]

\* Slip: the backoff is not undone when new data is acknowledged.
Pop_keeps_backoff(s, k) ==
  IF k = 0 THEN s
  ELSE [s EXCEPT
         !.segments_outstanding = SubSeq(@, k + 1, Len(@)),
         !.bytes_in_flight = @ - TotalLength(SubSeq(s.segments_outstanding, 1, k)),
         !.tick = 0, !.consecutive_retransmissions = 0]

\* Drops the k oldest outstanding segments and resets the backoff.
Pop(s, k) ==
  IF k = 0 THEN s
  ELSE [s EXCEPT
         !.segments_outstanding = SubSeq(@, k + 1, Len(@)),
         !.bytes_in_flight = @ - TotalLength(SubSeq(s.segments_outstanding, 1, k)),
         !.tick = 0, !.rto = RtTimeout, !.consecutive_retransmissions = 0]

StopTimer(s) ==
  IF s.bytes_in_flight = 0 THEN [s EXCEPT !.timer_running = FALSE] ELSE s

\* Slip: new room in the window is left unused.
ack_received_without_refill(s, ackno, window_size) ==
  LET ack == unwrap(ackno, s.isn, s.next_seqno)
      window_set == [s EXCEPT !.receiver_window_size = window_size]
  IN  IF s.segments_outstanding = <<>> \/ Unacceptable(s, ack, window_size)
      THEN IF ack = s.next_seqno THEN window_set ELSE s
      ELSE StopTimer(Pop(window_set, Acknowledged(s, ack)))

\* ack_received(ackno, window_size): an acknowledgment of everything sent sets
\* the window even when it is otherwise refused.
ack_received(s, ackno, window_size) ==
  LET ack == unwrap(ackno, s.isn, s.next_seqno)
      window_set == [s EXCEPT !.receiver_window_size = window_size]
  IN  IF s.segments_outstanding = <<>> \/ Unacceptable(s, ack, window_size)
      THEN IF ack = s.next_seqno THEN window_set ELSE s
      ELSE fill_window(StopTimer(Pop(window_set, Acknowledged(s, ack))))

\* tick(ms): on expiry the oldest segment goes out again; the timeout doubles
\* unless this is a probe of a closed window.  The count stops at the timeout:
\* it is only ever compared with it, and starts again whenever it changes.
sender_tick(s, ms) ==
  LET expired == s.tick + ms >= s.rto /\ s.segments_outstanding # <<>>
      oldest == Head(s.segments_outstanding)
      backoff == s.receiver_window_size # 0 \/ oldest.syn
  IN  IF ~expired THEN [s EXCEPT !.tick = AtMost(@ + ms, s.rto)]
      ELSE [s EXCEPT
             !.segments_out = Append(@, oldest),
             !.consecutive_retransmissions = IF backoff THEN @ + 1 ELSE @,
             !.rto = IF backoff THEN 2 * @ ELSE @,
             !.tick = 0]

\* send_empty_segment(): a segment that takes no sequence number.
send_empty_segment(s) ==
  [s EXCEPT !.segments_out =
     Append(@, [Segment EXCEPT !.seqno = wrap(s.next_seqno, s.isn)])]
=============================================================================
