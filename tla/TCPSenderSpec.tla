--------------------------- MODULE TCPSenderSpec ---------------------------
(***************************************************************************)
(* A TCPSender driven the way TCPConnection drives it: each call on the    *)
(* stream is followed by fill_window(), and the segments of one call have  *)
(* been taken from segments_out before the next.  Any ackno and any window *)
(* may come back, in any order: what is stated here does not depend on the *)
(* peer.                                                                   *)
(***************************************************************************)
EXTENDS TCPSender

CONSTANTS
  Stream,       \* the bytes the owner writes
  Capacity,     \* TCPConfig::send_capacity
  Isns,         \* the initial sequence numbers that are tried
  MaxWindow,    \* the largest window a peer announces
  MAX_RETX_ATTEMPTS    \* TCPConfig::MAX_RETX_ATTEMPTS, where the connection gives up

ASSUME SenderSpecAssumption ==
  /\ Stream \in Seq({Stream[i] : i \in DOMAIN Stream})
  /\ Capacity \in Nat \ {0}
  /\ MaxWindow \in Nat \ {0} /\ MaxWindow < SizeMod    \* a uint16_t, taken off a uint64_t
  /\ MAX_RETX_ATTEMPTS \in Nat
  /\ Isns \subseteq SeqNos
  /\ 2 * (Len(Stream) + 2) < SeqMod    \* all in flight at once stays unambiguous
  /\ Len(Stream) + 2 < SizeMod

N == Len(Stream)

VARIABLE sender

Init == \E isn \in Isns : sender = NewSender(Capacity, isn)

\* The sender with the segments of the last call taken away by its owner.
Taken == [sender EXCEPT !.segments_out = <<>>]

Connect ==
  /\ ~sender.syn
  /\ sender' = fill_window(Taken)

\* The owner offers the next len bytes and keeps what is not accepted.
Write(len) ==
  LET at == sender.stream.write_count
  IN  /\ ~input_ended(sender.stream)
      /\ at + len <= N
      /\ sender' = fill_window([Taken EXCEPT !.stream =
                     write(@, SubSeq(Stream, at + 1, at + len))])

EndInput ==
  /\ sender.stream.write_count = N
  /\ sender' = fill_window([Taken EXCEPT !.stream = end_input(@)])

AckReceived(ackno, window_size) ==
  sender' = ack_received(Taken, ackno, window_size)

\* Time passes in units of a tick until the connection gives up.
Tick ==
  /\ sender.consecutive_retransmissions <= MAX_RETX_ATTEMPTS
  /\ sender' = sender_tick(Taken, 1)

Next ==
  \/ Connect
  \/ \E len \in 1 .. N : Write(len)
  \/ EndInput
  \/ \E ackno \in SeqNos, window_size \in 0 .. MaxWindow :
       AckReceived(ackno, window_size)
  \/ Tick

Spec == Init /\ [][Next]_sender

-----------------------------------------------------------------------------
StartOf(seg) == EndOf(sender, seg) - length_in_sequence_space(seg)

\* "How many sequence numbers are occupied by segments sent but not yet
\* acknowledged" (tcp_sender.hh:82): the outstanding segments follow one
\* another without gap or overlap up to next_seqno, and bytes_in_flight, which
\* is kept apart from them, is their total length whatever was acknowledged.
InFlightIsOutstanding ==
  LET segs == sender.segments_outstanding
  IN  /\ sender.bytes_in_flight = TotalLength(segs)
      /\ \A i \in 1 .. Len(segs) :
           StartOf(segs[i]) + TotalLength(SubSeq(segs, i, Len(segs)))
             = sender.next_seqno

\* A segment, new or sent again, carries the owner's bytes for its sequence
\* numbers; the SYN comes before them all and the FIN after the last.
SegmentsCarryStream ==
  \A segs \in {sender.segments_out, sender.segments_outstanding} :
    \A i \in 1 .. Len(segs) :
      LET seg == segs[i]
      IN  /\ seg.syn <=> StartOf(seg) = 0
          /\ ~seg.syn => seg.payload
               = SubSeq(Stream, StartOf(seg), StartOf(seg) + Len(seg.payload) - 1)
          /\ seg.fin <=> EndOf(sender, seg) = N + 2

\* The first timeout, doubled n times.
BackedOff(n) ==
  LET timeout[k \in 0 .. n] == IF k = 0 THEN RtTimeout ELSE 2 * timeout[k - 1]
  IN  timeout[n]

\* The timer runs exactly while something is outstanding, so that a lost
\* segment is sent again; its timeout has doubled once per retransmission in a
\* row and starts afresh after an acknowledgment of new data.
TimerGuardsOutstanding ==
  /\ sender.timer_running <=> sender.segments_outstanding # <<>>
  /\ sender.timer_running =>
       sender.rto = BackedOff(sender.consecutive_retransmissions)

\* Nobody waits for nothing: once the SYN is out, unsent bytes or an unsent FIN
\* mean that a segment is outstanding, whose acknowledgment or timeout calls
\* the sender again.  A window that closes, or opens by an acknowledgment that
\* is otherwise refused, does not stop the stream.
NeverStalls ==
  sender.syn /\ (~buffer_empty(sender.stream)
                 \/ (input_ended(sender.stream) /\ ~sender.fin))
    => sender.segments_outstanding # <<>>
=============================================================================
