---------------------------- MODULE TCPReceiver ----------------------------
(***************************************************************************)
(* libsponge/tcp_receiver.{hh,cc}: turns segments into pushes to the       *)
(* reassembler, and the reassembler's progress into the ackno and window   *)
(* that go back to the peer.                                               *)
(***************************************************************************)
EXTENDS StreamReassembler, WrappingInt32, TCPSegment

\* TCPReceiver(capacity)
NewReceiver(capacity) ==
  [reassembler |-> NewReassembler(capacity), syn |-> FALSE, fin |-> FALSE,
   isn |-> 0, ackno |-> 0, checkpoint |-> 0]

stream_out(r) == r.reassembler.output
has_ackno(r) == r.syn

\* Slip: bytes stored out of order take room in the window.
window_size_minus_stored(r) ==
  remaining_capacity(stream_out(r)) - unassembled_bytes(r.reassembler)

window_size(r) == remaining_capacity(stream_out(r))

\* Segments before the SYN, and after all of the stream was read, are ignored.
Ignored(r, seg) ==
  \/ ~seg.syn /\ ~r.syn
  \/ eof(stream_out(r)) /\ r.fin

\* Slip: takes a segment for the one that is due.
SeqStart_as_arrived(r, seg) == r.checkpoint + 1

\* seq_start: the absolute sequence number of the first byte of payload.
SeqStart(r, seg) ==
  LET isn == IF r.syn THEN r.isn ELSE seg.seqno
  IN  unwrap(Plus(seg.seqno, IF seg.syn THEN 1 ELSE 0), isn, r.checkpoint)

\* fin_flag: sticky, and set only by a FIN whose last byte was not discarded.
FinAccepted(r, seg, reassembler) == r.fin \/ (seg.fin /\ reassembler.eof)

\* Slips: the FIN is acknowledged while bytes are still missing, or never.
NextSeqno_eager_fin(reassembler, fin) ==
  reassembler.first_unassembled + (IF fin THEN 2 ELSE 1)
NextSeqno_no_fin(reassembler, fin) == reassembler.first_unassembled + 1

\* The absolute sequence number acknowledged: one for the SYN, one for the FIN
\* once it was accepted and nothing is waiting to be assembled.
NextSeqno(reassembler, fin) ==
  reassembler.first_unassembled + (IF empty(reassembler) /\ fin THEN 2 ELSE 1)

\* The payload is pushed at seq_start - 1.  For a segment that has the SYN's own
\* number this is the greatest size_t: the for loop of push_substring() stops
\* before the first byte, and index + len comes round to the payload's end.
Pushed(r, seg) ==
  LET index == SeqStart(r, seg) - 1
  IN  IF index >= 0 THEN push_substring(r.reassembler, seg.payload, index, seg.fin)
      ELSE push_substring(r.reassembler, <<>>,
                          (index + Len(seg.payload)) % SizeMod, seg.fin)

\* TCPReceiver::segment_received
receive(r, seg) ==
  LET isn == IF r.syn THEN r.isn ELSE seg.seqno
      After(reassembler) ==
        LET fin == FinAccepted(r, seg, reassembler)
        IN  [reassembler |-> reassembler, syn |-> TRUE, fin |-> fin, isn |-> isn,
             ackno |-> wrap(NextSeqno(reassembler, fin), isn),
             checkpoint |-> reassembler.first_unassembled]
  IN  IF Ignored(r, seg) THEN r
      ELSE After(Pushed(r, seg))
=============================================================================
