-------------------------- MODULE TCPReceiverSpec --------------------------
(***************************************************************************)
(* A TCPReceiver and a peer whose SYN, data and FIN arrive late, twice, in *)
(* any order and cut anywhere, with keep-alives between them, over a       *)
(* sequence space that wraps around while the stream is under way.  As TCP *)
(* requires, no segment outlives half of the sequence space.               *)
(***************************************************************************)
EXTENDS TCPReceiver, PeerStream

\* The room is less than half of the sequence space (64000 bytes of 2^32 in
\* the code), so that no two numbers in the window have one wire form.
ASSUME ReceiverAssumption == 2 * Capacity < SeqMod

VARIABLES
  peer_isn,     \* the peer's initial sequence number
  receiver,
  delivered     \* every byte the owner has read

vars == <<peer_isn, receiver, delivered>>

Init ==
  /\ peer_isn \in SeqNos
  /\ receiver = NewReceiver(Capacity)
  /\ delivered = <<>>

SegmentReceived(seg) ==
  /\ receiver' = receive(receiver, seg)
  /\ UNCHANGED <<peer_isn, delivered>>

\* No segment is older, or further ahead, than half of the sequence space.
Timely(index) ==
  LET due == receiver.reassembler.first_unassembled
  IN  index - due < SeqMod \div 2 /\ due - index < SeqMod \div 2

SynSegment == [Segment EXCEPT !.seqno = peer_isn, !.syn = TRUE]

Syn == SegmentReceived(SynSegment)

Piece(index, len, fin) ==
  [Segment EXCEPT !.seqno = wrap(index + 1, peer_isn), !.fin = fin,
                  !.payload = SubSeq(Stream, index + 1, index + len)]

\* The len bytes of the stream that start at index, perhaps with the FIN.  A
\* FIN without bytes does not come before all of them have: the receiver takes
\* an earlier one for the end of what it has, which is the subject of the
\* lost-data run of TCPPairSpec.
Data(index, len, fin) ==
  /\ Timely(index) /\ Timely(index + len)
  /\ fin => index + len = N /\ (len > 0 \/ stream_out(receiver).write_count = N)
  /\ SegmentReceived(Piece(index, len, fin))

\* A keep-alive (tcp_sender.cc:150) has no bytes and the number before the one
\* that is due, which at first is the SYN's.
KeepAlive ==
  /\ has_ackno(receiver)
  /\ SegmentReceived([Segment EXCEPT !.seqno = Plus(receiver.ackno, SeqMod - 1)])

\* The owner reads from stream_out().
Read(len) ==
  /\ delivered' = delivered \o peek_output(stream_out(receiver), len)
  /\ receiver' = [receiver EXCEPT !.reassembler.output = pop_output(@, len)]
  /\ UNCHANGED peer_isn

Next ==
  \/ Syn
  \/ KeepAlive
  \/ \E index \in 0 .. N : \E len \in 0 .. N - index : \E fin \in BOOLEAN :
       Data(index, len, fin)
  \/ \E len \in 1 .. Capacity : Read(len)

Spec == Init /\ [][Next]_vars

\* The peer's retransmission of the first byte that is not acknowledged, or of
\* the last byte with the FIN.
DueSegment ==
  LET index == AtMost(receiver.reassembler.first_unassembled, N - 1)
  IN  Piece(index, 1, index = N - 1)

Retransmit == SegmentReceived(DueSegment)

Changes(seg) == receive(receiver, seg) # receiver

\* The peer retransmits what is not acknowledged; the owner keeps reading.
\* This is weak fairness of the SYN, of Retransmit and of Read(1) with their
\* enabling conditions spelled out, which TLC evaluates faster than ENABLED.
Fairness ==
  /\ []<>(~Changes(SynSegment)) \/ []<><<Syn>>_vars
  /\ []<>(~Changes(DueSegment)) \/ []<><<Retransmit>>_vars
  /\ []<>(buffer_empty(stream_out(receiver))) \/ []<><<Read(1)>>_vars

FairSpec == Spec /\ Fairness

\* The receiver seen by its reassembler.
Reassembling ==
  INSTANCE StreamReassemblerSpec WITH reassembler <- receiver.reassembler,
                                      read <- delivered

-----------------------------------------------------------------------------
\* Whatever arrives, in whatever order, and however often the sequence
\* numbers wrapped, the owner sees the peer's bytes in order, and the end of
\* the stream only behind the last of them, though a FIN may be ahead of bytes
\* that are missing or beyond the capacity.
DeliveredInOrder ==
  LET out == stream_out(receiver)
  IN  /\ delivered \o out.buffer = SubSeq(Stream, 1, out.write_count)
      /\ input_ended(out) => out.write_count = N

\* The ackno is "the sequence number of the first byte in the stream that the
\* receiver hasn't received" (tcp_receiver.hh:41): it counts the SYN, the
\* bytes received without a gap and, once all N are there, an accepted FIN.
AckIsFirstMissing ==
  has_ackno(receiver) =>
    LET got == stream_out(receiver).write_count
        fin == IF got = N /\ receiver.fin THEN 1 ELSE 0
    IN  receiver.ackno = wrap(1 + got + fin, peer_isn)

\* "the first byte that falls after the window (and will not be accepted by
\* the receiver)" (tcp_receiver.hh:52): a byte is written or stored exactly up
\* to that edge, so the peer may fill the window it was shown.
WindowIsWhatIsAccepted ==
  Limit(receiver.reassembler)
    = receiver.reassembler.first_unassembled + window_size(receiver)

\* In the end the FIN is acknowledged and all bytes have been read.
FinEventuallyAcked ==
  <>(delivered = Stream /\ receiver.ackno = wrap(N + 2, peer_isn))
=============================================================================
