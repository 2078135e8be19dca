------------------------- MODULE TCPReceiver_proofs -------------------------
(***************************************************************************)
(* A TCPReceiver delivers the peer's stream in order, acknowledges the     *)
(* first byte it misses and shows the window it accepts, for every stream, *)
(* capacity, initial sequence number and (even) sequence space.            *)
(***************************************************************************)
EXTENDS TCPReceiverSpec, StreamReassembler_proofs, WrappingInt32_lemmas

\* The inductive invariant.  The checkpoint is what makes unwrap() find the
\* index of a timely segment; that the FIN is accepted only with its last byte
\* marked is what makes "nothing stored" mean "nothing missing".
IInv ==
  /\ peer_isn \in SeqNos
  /\ DOMAIN receiver = {"reassembler", "syn", "fin", "isn", "ackno", "checkpoint"}
  /\ receiver.syn \in BOOLEAN /\ receiver.fin \in BOOLEAN
  /\ Assembled(receiver.reassembler, delivered)
  /\ Ended(receiver.reassembler)
  /\ receiver.checkpoint = receiver.reassembler.first_unassembled
  /\ receiver.fin => receiver.reassembler.eof
  /\ receiver.syn =>
       /\ receiver.isn = peer_isn
       /\ receiver.ackno = wrap(NextSeqno(receiver.reassembler, receiver.fin), peer_isn)

\* A new receiver has nothing assembled.
LEMMA InitHolds == Init => IInv
  <1>. SUFFICES ASSUME Init PROVE IInv
    OBVIOUS
  <1>1. /\ receiver = [reassembler |-> NewReassembler(Capacity), syn |-> FALSE,
                       fin |-> FALSE, isn |-> 0, ackno |-> 0, checkpoint |-> 0]
        /\ peer_isn \in SeqNos /\ delivered = <<>>
    BY DEF Init, NewReceiver
  <1>2. Assembled(NewReassembler(Capacity), <<>>)
    BY NewAssembled
  <1>3. Ended(NewReassembler(Capacity)) /\ NewReassembler(Capacity).first_unassembled = 0
    BY DEF Ended, NewReassembler, NewByteStream
  <1>. QED  BY <1>1, <1>2, <1>3 DEF IInv

\* What is left of the invariant once the reassembler was dealt with.
LEMMA ReceiveKeeps ==
  ASSUME IInv, NEW seg, seg.fin \in BOOLEAN, ~ Ignored(receiver, seg),
         NEW nr, nr = Pushed(receiver, seg),
         receiver' = receive(receiver, seg), UNCHANGED <<peer_isn, delivered>>,
         ~ receiver.syn => seg.seqno = peer_isn,
         Assembled(nr, delivered), Ended(nr), receiver.reassembler.eof => nr.eof
  PROVE  IInv'
  <1> DEFINE fin == FinAccepted(receiver, seg, nr)
  <1>1. receiver' = [reassembler |-> nr, syn |-> TRUE, fin |-> fin, isn |-> peer_isn,
                     ackno |-> wrap(NextSeqno(nr, fin), peer_isn),
                     checkpoint |-> nr.first_unassembled]
    BY DEF receive, IInv
  <1>2. fin \in BOOLEAN /\ (fin => nr.eof)
    BY DEF FinAccepted, IInv, Assembled, ReassemblerType
  <1>. HIDE DEF fin
  <1>. QED  BY <1>1, <1>2 DEF IInv

\* unwrap() gives a segment of the connection some absolute number.
LEMMA SeqStartIsNat ==
  ASSUME IInv, NEW seg, seg.seqno \in SeqNos, seg.syn \in BOOLEAN,
         receiver.syn \/ seg.seqno = peer_isn
  PROVE  SeqStart(receiver, seg) \in Nat
  <1> DEFINE x == Plus(seg.seqno, IF seg.syn THEN 1 ELSE 0)
  <1>1. x \in SeqNos
    BY DivMod, SeqModAssumption, SMT DEF Plus, SeqNos
  <1>2. receiver.checkpoint \in Nat
    BY StateFacts, SMT DEF IInv
  <1>3. SeqStart(receiver, seg) = unwrap(x, peer_isn, receiver.checkpoint)
    BY DEF SeqStart, IInv
  <1>4. peer_isn \in SeqNos
    BY DEF IInv
  <1>. HIDE DEF x
  <1>. QED  BY <1>1, <1>2, <1>3, <1>4, UnwrapNearest

\* Without bytes and FIN it changes nothing, wherever unwrap() puts it.
LEMMA EmptyPushed ==
  ASSUME IInv, NEW seg, seg.payload = <<>>, seg.fin = FALSE,
         SeqStart(receiver, seg) \in Nat
  PROVE  Pushed(receiver, seg) = receiver.reassembler
  <1> DEFINE index == SeqStart(receiver, seg) - 1
             wrapped == (index + Len(seg.payload)) % SizeMod
  <1>1. index \in Int /\ Len(seg.payload) = 0
    BY SMT
  <1>2. wrapped \in Int
    BY <1>1, SizeModAssumption, SMT
  <1>3. \A i \in Int : push_substring(receiver.reassembler, <<>>, i, FALSE) = receiver.reassembler
    BY EmptyPush DEF IInv
  <1>4. Pushed(receiver, seg) =
          IF index >= 0 THEN push_substring(receiver.reassembler, <<>>, index, FALSE)
          ELSE push_substring(receiver.reassembler, <<>>, wrapped, FALSE)
    BY DEF Pushed
  <1>. HIDE DEF index, wrapped
  <1>. QED  BY <1>1, <1>2, <1>3, <1>4

\* A segment without bytes and FIN, the SYN for one, keeps the invariant and the
\* reassembler.
LEMMA EmptyStep ==
  ASSUME IInv, NEW seg, seg.payload = <<>>, seg.fin = FALSE, seg.syn \in BOOLEAN,
         seg.seqno \in SeqNos, receiver.syn \/ seg.seqno = peer_isn, SegmentReceived(seg)
  PROVE  IInv' /\ receiver'.reassembler = receiver.reassembler /\ delivered' = delivered
  <1> DEFINE r == receiver.reassembler
  <1>1. receiver' = receive(receiver, seg) /\ UNCHANGED <<peer_isn, delivered>>
    BY DEF SegmentReceived
  <1>2. CASE Ignored(receiver, seg)
    <2>1. receiver' = receiver
      BY <1>1, <1>2 DEF receive
    <2>. QED  BY <2>1, <1>1 DEF IInv
  <1>3. CASE ~ Ignored(receiver, seg)
    <2>1. r = Pushed(receiver, seg)
      BY SeqStartIsNat, EmptyPushed
    <2>2. Assembled(r, delivered) /\ Ended(r) /\ seg.fin \in BOOLEAN
      BY DEF IInv
    <2>3. receiver'.reassembler = r
      BY <2>1, <1>1, <1>3 DEF receive
    <2>4. IInv'
      BY <2>1, <2>2, <1>1, <1>3, ReceiveKeeps
    <2>. QED  BY <2>3, <2>4, <1>1
  <1>. QED  BY <1>2, <1>3

\* The SYN, and its duplicates, store nothing.
LEMMA SynStep ==
  ASSUME IInv, Syn
  PROVE  IInv' /\ receiver'.reassembler = receiver.reassembler /\ delivered' = delivered
  <1> DEFINE seg == SynSegment
  <1>1. /\ seg.seqno = peer_isn /\ seg.payload = <<>> /\ seg.fin = FALSE /\ seg.syn = TRUE
        /\ peer_isn \in SeqNos /\ SegmentReceived(seg)
    BY DEF SynSegment, Segment, IInv, Syn
  <1>. HIDE DEF seg
  <1>. QED  BY <1>1, EmptyStep

\* Neither do keep-alives, one with the SYN's own number included.
LEMMA KeepAliveStep ==
  ASSUME IInv, KeepAlive
  PROVE  IInv' /\ receiver'.reassembler = receiver.reassembler /\ delivered' = delivered
  <1> DEFINE seg == [Segment EXCEPT !.seqno = Plus(receiver.ackno, SeqMod - 1)]
             x == NextSeqno(receiver.reassembler, receiver.fin)
  <1>1. receiver.syn /\ SegmentReceived(seg)
    BY DEF KeepAlive, has_ackno
  <1>2. /\ seg.payload = <<>> /\ seg.fin = FALSE /\ seg.syn = FALSE
        /\ seg.seqno = Plus(receiver.ackno, SeqMod - 1)
    BY DEF Segment
  <1>3. x \in Int
    BY StateFacts, SMT DEF IInv, NextSeqno
  <1>4. receiver.ackno = wrap(x, peer_isn) /\ peer_isn \in Int
    BY <1>1, SMT DEF IInv, SeqNos
  <1>. HIDE DEF x
  <1>5. receiver.ackno \in Int
    BY <1>3, <1>4, WrapType, SMT DEF SeqNos
  <1>6. Plus(receiver.ackno, SeqMod - 1) \in SeqNos
    BY <1>5, DivMod, SeqModAssumption, SMT DEF Plus, SeqNos
  <1>. HIDE DEF seg
  <1>. QED  BY <1>1, <1>2, <1>6, EmptyStep

\* A timely segment that has something to say is put where it belongs.
LEMMA IndexFound ==
  ASSUME IInv, NEW index \in 0 .. N, NEW len \in 0 .. N - index, NEW fin \in BOOLEAN,
         Timely(index), Timely(index + len), receiver.syn,
         len > 0 \/ index = receiver.reassembler.first_unassembled
  PROVE  SeqStart(receiver, Piece(index, len, fin)) = index + 1
  <1> DEFINE seg == Piece(index, len, fin)
             fu == receiver.reassembler.first_unassembled
             half == SeqMod \div 2
  <1>1. seg.seqno = wrap(index + 1, peer_isn) /\ seg.syn = FALSE
    BY DEF Piece, Segment
  <1>. HIDE DEF seg
  <1>2. N \in Nat /\ fu \in Nat /\ peer_isn \in SeqNos /\ peer_isn \in Int
    BY StateFacts, SMT DEF IInv, SeqNos
  <1>3. index + 1 \in Nat
    BY <1>2, SMT
  <1>4. wrap(index + 1, peer_isn) \in SeqNos
    BY <1>2, <1>3, WrapType, SMT
  <1>5. \A x \in SeqNos : Plus(x, 0) = x
    <2>1. \A x \in SeqNos : x \in 0 .. SeqMod - 1 /\ SeqMod * 0 + x = x + 0
      BY SeqModAssumption, SMT DEF SeqNos
    <2>. QED  BY <2>1, SeqModAssumption, ModUnique DEF Plus
  <1>6. SeqStart(receiver, seg) = unwrap(wrap(index + 1, peer_isn), peer_isn, fu)
    BY <1>1, <1>4, <1>5 DEF SeqStart, IInv
  <1>7. half \in Nat /\ half >= 2
    BY SeqModAssumption, PeerStreamAssumption, ReceiverAssumption, SMT
  <1>8. Distance(index + 1, fu) < half
    <2>1. index - fu < half /\ fu - index < half /\ (index + len) - fu < half
      BY DEF Timely
    <2>. HIDE DEF half
    <2>. QED  BY <2>1, <1>2, <1>7, SMT DEF Distance
  <1>. QED  BY <1>2, <1>3, <1>6, <1>8, NearSurvives DEF seg

\* An empty segment without FIN changes nothing wherever unwrap() puts it, so
\* what is pushed is always the piece of the stream at its index.
LEMMA PushedInPlace ==
  ASSUME IInv, NEW index \in 0 .. N, NEW len \in 0 .. N - index, NEW fin \in BOOLEAN,
         Data(index, len, fin), receiver.syn,
         NEW seg, seg = Piece(index, len, fin), NEW r, r = receiver.reassembler
  PROVE  Pushed(receiver, seg) = push_substring(r, Bytes(index, len), index, fin)
  <1>1. /\ seg.payload = Bytes(index, len) /\ seg.fin = fin /\ seg.syn = FALSE
        /\ seg.seqno = wrap(index + 1, peer_isn)
    BY DEF Piece, Segment, Bytes
  <1>2. /\ Timely(index) /\ Timely(index + len)
        /\ fin => index + len = N /\ (len > 0 \/ r.output.write_count = N)
    BY DEF Data, stream_out
  <1>3. /\ Assembled(r, delivered) /\ Ended(r) /\ N \in Nat
        /\ r.output.write_count = r.first_unassembled
    BY StreamProperties DEF IInv, Assembled
  <1>4. CASE len > 0 \/ fin
    <2>1. len > 0 \/ index = r.first_unassembled
      <3>. SUFFICES ASSUME fin, ~ (len > 0)
                    PROVE  index = r.first_unassembled
        BY <1>4
      <3>1. index + len = N /\ r.first_unassembled = N
        BY <1>2, <1>3
      <3>2. len = 0 /\ index + 0 = index
        BY <1>3, SMT
      <3>. QED  BY <3>1, <3>2
    <2>2. SeqStart(receiver, seg) = index + 1
      BY <2>1, <1>2, IndexFound
    <2>3. index + 1 - 1 = index /\ index >= 0
      BY <1>3, SMT
    <2>. QED  BY <2>2, <2>3, <1>1 DEF Pushed
  <1>5. CASE ~ (len > 0) /\ ~ fin
    <2>1. len = 0
      BY <1>3, <1>5, SMT
    <2>2. Bytes(index, len) = <<>> /\ index \in Int
      BY <2>1, PieceProperties, EmptySeq, SMT
    <2>3. peer_isn \in Int /\ index + 1 \in Int
      BY <1>3, SMT DEF IInv, SeqNos
    <2>4. seg.seqno \in SeqNos
      BY <2>3, <1>1, WrapType
    <2>5. Pushed(receiver, seg) = r
      BY <2>2, <2>4, <1>1, <1>5, SeqStartIsNat, EmptyPushed
    <2>6. push_substring(r, <<>>, index, FALSE) = r
      BY <2>2, <1>3, EmptyPush
    <2>. QED  BY <2>2, <2>5, <2>6, <1>1, <1>5
  <1>. QED  BY <1>4, <1>5

\* Data, in any order, late or twice.
LEMMA DataStep ==
  ASSUME IInv, NEW index \in 0 .. N, NEW len \in 0 .. N - index, NEW fin \in BOOLEAN,
         Data(index, len, fin)
  PROVE  /\ IInv'
         /\ \/ receiver' = receiver
            \/ receiver'.reassembler
                 = push_substring(receiver.reassembler, Bytes(index, len), index, fin)
  <1> DEFINE seg == Piece(index, len, fin)
             r == receiver.reassembler
             nr == push_substring(r, Bytes(index, len), index, fin)
  <1>1. seg.fin = fin /\ seg.syn = FALSE
    BY DEF Piece, Segment
  <1>2. /\ receiver' = receive(receiver, seg) /\ UNCHANGED <<peer_isn, delivered>>
        /\ fin => index + len = N /\ (len > 0 \/ r.output.write_count = N)
    BY DEF Data, SegmentReceived, stream_out
  <1>3. /\ Assembled(r, delivered) /\ Ended(r)
        /\ r.output.write_count = r.first_unassembled
    BY DEF IInv, Assembled
  <1>4. CASE Ignored(receiver, seg)
    <2>1. receiver' = receiver
      BY <1>2, <1>4 DEF receive
    <2>. QED  BY <2>1, <1>2 DEF IInv
  <1>5. CASE ~ Ignored(receiver, seg)
    <2>1. receiver.syn
      BY <1>1, <1>5 DEF Ignored
    <2>2. nr = Pushed(receiver, seg)
      BY <2>1, PushedInPlace
    <2>3. receiver'.reassembler = nr
      BY <2>2, <1>2, <1>5 DEF receive
    <2>4. Assembled(nr, delivered) /\ Ended(nr) /\ (r.eof => nr.eof)
      <3>1. nr = push_substring(r, Bytes(index, len), index, fin)
        OBVIOUS
      <3>. HIDE DEF nr, r
      <3>2. /\ Assembled(nr, delivered)
            /\ nr.eof = Eof(r, Bytes(index, len), index, fin)
        BY <3>1, <1>3, PushKeeps
      <3>3. Ended(nr)
        BY <3>1, <1>2, <1>3, PushEnds
      <3>. QED  BY <3>2, <3>3 DEF Eof
    <2>5. seg.fin \in BOOLEAN
      BY <1>1
    <2>. HIDE DEF seg, nr
    <2>6. IInv'
      BY <2>1, <2>2, <2>4, <2>5, <1>2, <1>5, ReceiveKeeps
    <2>. QED  BY <2>3, <2>6 DEF nr
  <1>. QED  BY <1>4, <1>5

\* The owner reads: the acknowledgment and the checkpoint stay what they are.
LEMMA ReadStep ==
  ASSUME IInv, NEW len \in 1 .. Capacity, Read(len)
  PROVE  IInv'
  <1> DEFINE r == receiver.reassembler
             nr == [r EXCEPT !.output = pop_output(r.output, len)]
             got == delivered \o peek_output(r.output, len)
  <1>1. /\ receiver' = [receiver EXCEPT !.reassembler = nr]
        /\ delivered' = got /\ peer_isn' = peer_isn
    BY DEF Read, stream_out
  <1>2. nr.first_unassembled = r.first_unassembled /\ nr.unassembled = r.unassembled
        /\ nr.eof = r.eof
    BY DEF IInv, Assembled, ReassemblerType
  <1>3. Assembled(nr, got)
    BY ReadKeeps DEF IInv
  <1>4. Ended(nr)
    BY ReadEnds DEF IInv
  <1>5. \A fin : NextSeqno(nr, fin) = NextSeqno(r, fin)
    BY <1>2 DEF NextSeqno, empty, unassembled_bytes
  <1>. HIDE DEF nr, got
  <1>. QED  BY <1>1, <1>2, <1>3, <1>4, <1>5 DEF IInv

\* Every segment and every read preserves the inductive invariant.
LEMMA StepHolds == IInv /\ [Next]_vars => IInv'
  <1>. SUFFICES ASSUME IInv, [Next]_vars PROVE IInv'
    OBVIOUS
  <1>1. CASE Syn
    BY <1>1, SynStep
  <1>2. ASSUME NEW index \in 0 .. N, NEW len \in 0 .. N - index, NEW fin \in BOOLEAN,
               Data(index, len, fin)
        PROVE  IInv'
    BY <1>2, DataStep
  <1>3. ASSUME NEW len \in 1 .. Capacity, Read(len) PROVE IInv'
    BY <1>3, ReadStep
  <1>4. CASE KeepAlive
    BY <1>4, KeepAliveStep
  <1>5. CASE UNCHANGED vars
    BY <1>5 DEF vars, IInv
  <1>. QED  BY <1>1, <1>2, <1>3, <1>4, <1>5 DEF Next

\* Whatever arrives, in whatever order, and however often the sequence numbers
\* wrapped, the owner of a TCPReceiver reads the peer's bytes in order, and the
\* end of the stream only behind the last of them (segment_received()).
THEOREM DeliveredInOrderHolds == Spec => []DeliveredInOrder
  <1>1. IInv => DeliveredInOrder
    <2>. SUFFICES ASSUME IInv PROVE DeliveredInOrder
      OBVIOUS
    <2> DEFINE r == receiver.reassembler
    <2>1. /\ Assembled(r, delivered) /\ Ended(r)
          /\ delivered \o r.output.buffer = SubSeq(Stream, 1, r.first_unassembled)
          /\ r.output.write_count = r.first_unassembled
      BY DEF IInv, Assembled
    <2>. HIDE DEF r
    <2>2. r.output.input_ended => r.first_unassembled = N
      BY <2>1, AllThere DEF Ended
    <2>. QED  BY <2>1, <2>2 DEF DeliveredInOrder, stream_out, input_ended, r
  <1>. QED  BY <1>1, InitHolds, StepHolds, PTL DEF Spec

\* ackno() is the first byte not received: the SYN, the bytes without a gap,
\* and an accepted FIN once nothing is missing before it.
THEOREM AckIsFirstMissingHolds == Spec => []AckIsFirstMissing
  <1>1. IInv => AckIsFirstMissing
    <2>. SUFFICES ASSUME IInv, receiver.syn
                  PROVE  LET got == stream_out(receiver).write_count
                             fin == IF got = N /\ receiver.fin THEN 1 ELSE 0
                         IN  receiver.ackno = wrap(1 + got + fin, peer_isn)
      BY DEF AckIsFirstMissing, has_ackno
    <2> DEFINE r == receiver.reassembler
               fu == r.first_unassembled
               one == IF fu = N /\ receiver.fin THEN 1 ELSE 0
    <2>1. /\ Assembled(r, delivered) /\ Ended(r)
          /\ receiver.fin => r.eof
          /\ r.output.write_count = fu
          /\ receiver.ackno = wrap(NextSeqno(r, receiver.fin), peer_isn)
      BY DEF IInv, Assembled
    <2>2. fu \in Nat
      BY <2>1, StateFacts, SMT
    <2>3. receiver.fin => (r.unassembled = 0 <=> fu = N)
      BY <2>1, AllThere DEF Ended
    <2>4. NextSeqno(r, receiver.fin) = 1 + fu + one
      <3>1. NextSeqno(r, receiver.fin) = fu + (IF fu = N /\ receiver.fin THEN 2 ELSE 1)
        BY <2>3 DEF NextSeqno, empty, unassembled_bytes
      <3>. HIDE DEF fu
      <3>. QED  BY <3>1, <2>2, SMT
    <2>. QED  BY <2>1, <2>4 DEF stream_out
  <1>. QED  BY <1>1, InitHolds, StepHolds, PTL DEF Spec

\* The window shown by window_size() ends where push_substring() begins to
\* discard.
THEOREM WindowIsWhatIsAcceptedHolds == Spec => []WindowIsWhatIsAccepted
  <1>1. IInv => WindowIsWhatIsAccepted
    <2>. SUFFICES ASSUME IInv PROVE WindowIsWhatIsAccepted
      OBVIOUS
    <2> DEFINE r == receiver.reassembler
    <2>1. /\ r.output.read_count \in Nat /\ r.capacity = Capacity /\ r.output.capacity = Capacity
          /\ r.output.buffer \in Seq(Byte)
          /\ r.output.read_count + Len(r.output.buffer) = r.first_unassembled
      BY DEF IInv, Assembled, ReassemblerType, OutputType
    <2>2. Len(r.output.buffer) \in Nat /\ Capacity \in Nat
      BY <2>1, LenProperties, PeerStreamAssumption
    <2>3. WindowIsWhatIsAccepted <=>
            r.output.read_count + r.capacity
              = r.first_unassembled + (r.output.capacity - Len(r.output.buffer))
      BY DEF WindowIsWhatIsAccepted, window_size, stream_out, remaining_capacity,
             buffer_size, Limit
    <2>4. \A a, b, cap \in Nat : a + cap = (a + b) + (cap - b)
      BY SMT
    <2>. HIDE DEF r
    <2>. QED  BY <2>1, <2>2, <2>3, <2>4
  <1>. QED  BY <1>1, InitHolds, StepHolds, PTL DEF Spec

\* The instance's operators are this module's.
LEMMA SameOperators ==
  /\ Reassembling!N = N
  /\ Reassembling!NewReassembler(Capacity) = NewReassembler(Capacity)
  /\ \A r, data, index, is_eof : Reassembling!push_substring(r, data, index, is_eof)
                                   = push_substring(r, data, index, is_eof)
  /\ \A s, len : /\ Reassembling!pop_output(s, len) = pop_output(s, len)
                 /\ Reassembling!peek_output(s, len) = peek_output(s, len)
  <1>1. Reassembling!N = N
    BY DEF Reassembling!N, N
  <1>2. Reassembling!NewReassembler(Capacity) = NewReassembler(Capacity)
    BY DEF Reassembling!NewReassembler, NewReassembler, Reassembling!NewByteStream,
           NewByteStream
  <1>3. ASSUME NEW r, NEW data, NEW index, NEW is_eof
        PROVE  Reassembling!push_substring(r, data, index, is_eof)
                 = push_substring(r, data, index, is_eof)
    BY DEF Reassembling!push_substring, push_substring, Reassembling!Stored, Stored,
           Reassembling!Cardinality, Cardinality, Reassembling!IsFiniteSet, IsFiniteSet,
           Reassembling!Span, Span, Reassembling!Reached, Reached, Reassembling!Limit, Limit,
           Reassembling!AtMost, AtMost, Reassembling!write, write, Reassembling!ToWrite,
           ToWrite, Reassembling!ByteAt, ByteAt, Reassembling!Drained, Drained,
           Reassembling!RunEnd, RunEnd, Reassembling!Unassembled, Unassembled,
           Reassembling!Eof, Eof, Reassembling!end_input, end_input,
           Reassembling!remaining_capacity, remaining_capacity, Reassembling!buffer_size,
           buffer_size
  <1>4. ASSUME NEW s, NEW len
        PROVE  /\ Reassembling!pop_output(s, len) = pop_output(s, len)
               /\ Reassembling!peek_output(s, len) = peek_output(s, len)
    BY DEF Reassembling!pop_output, pop_output, Reassembling!peek_output, peek_output,
           Reassembling!AtMost, AtMost, Reassembling!buffer_size, buffer_size
  <1>. QED  BY <1>1, <1>2, <1>3, <1>4

\* segment_received() hands its reassembler nothing but pieces of the peer's
\* stream, each at its own index: with the wrapping numbers, the SYN, the FIN
\* and the duplicates taken away, a TCPReceiver is a StreamReassembler.
THEOREM ImplementsReassembler == Spec => Reassembling!ReassemblerSpec
  <1>1. Init => Reassembling!ReassemblerInit
    BY SameOperators DEF Init, NewReceiver, Reassembling!ReassemblerInit
  <1>2. IInv /\ [Next]_vars => [Reassembling!ReassemblerNext]_(Reassembling!reassembler_vars)
    <2>. SUFFICES ASSUME IInv, [Next]_vars
                  PROVE  [Reassembling!ReassemblerNext]_(Reassembling!reassembler_vars)
      OBVIOUS
    <2>1. CASE Syn
      BY <2>1, SynStep DEF Reassembling!reassembler_vars
    <2>2. ASSUME NEW index \in 0 .. N, NEW len \in 0 .. N - index, NEW fin \in BOOLEAN,
                 Data(index, len, fin)
          PROVE  [Reassembling!ReassemblerNext]_(Reassembling!reassembler_vars)
      <3>1. /\ fin => index + len = N
            /\ UNCHANGED delivered
        BY <2>2 DEF Data, SegmentReceived
      <3>2. \/ receiver' = receiver
            \/ receiver'.reassembler
                 = push_substring(receiver.reassembler, Bytes(index, len), index, fin)
        BY <2>2, DataStep
      <3>3. CASE receiver' = receiver
        BY <3>1, <3>3 DEF Reassembling!reassembler_vars
      <3>4. CASE receiver'.reassembler
                   = push_substring(receiver.reassembler, Bytes(index, len), index, fin)
        <4>1. Reassembling!Push(index, len, fin)
          BY <3>1, <3>4, SameOperators DEF Reassembling!Push, Bytes
        <4>. QED  BY <4>1, SameOperators DEF Reassembling!ReassemblerNext
      <3>. QED  BY <3>2, <3>3, <3>4
    <2>3. ASSUME NEW len \in 1 .. Capacity, Read(len)
          PROVE  [Reassembling!ReassemblerNext]_(Reassembling!reassembler_vars)
      <3>1. Reassembling!ReadOutput(len)
        <4>1. receiver'.reassembler = [receiver.reassembler EXCEPT
                                         !.output = pop_output(@, len)]
          BY <2>3 DEF IInv, Read
        <4>2. delivered' = delivered \o peek_output(receiver.reassembler.output, len)
          BY <2>3 DEF Read, stream_out
        <4>. QED  BY <4>1, <4>2, SameOperators DEF Reassembling!ReadOutput
      <3>. QED  BY <3>1 DEF Reassembling!ReassemblerNext
    <2>4. CASE KeepAlive
      BY <2>4, KeepAliveStep DEF Reassembling!reassembler_vars
    <2>5. CASE UNCHANGED vars
      BY <2>5 DEF vars, Reassembling!reassembler_vars
    <2>. QED  BY <2>1, <2>2, <2>3, <2>4, <2>5 DEF Next
  <1>. QED  BY <1>1, <1>2, InitHolds, StepHolds, PTL DEF Spec, Reassembling!ReassemblerSpec
=============================================================================
