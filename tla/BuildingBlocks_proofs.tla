------------------------ MODULE BuildingBlocks_proofs ------------------------
(***************************************************************************)
(* Theorems about the parts the others are built from, for every value of  *)
(* the constants.  A ByteStream is a bounded first-in first-out queue with *)
(* exact counters; a wrapping number near the checkpoint survives the wire *)
(* format, and unwrap() returns the nearest one; a BufferList holds the    *)
(* bytes of its stream however they are cut into buffers.                  *)
(***************************************************************************)
EXTENDS BufferList, WrappingInt32Spec, WrappingInt32_lemmas, SequenceTheorems,
        WellFoundedInduction

StreamType == [buffer : Seq(Byte), capacity : {Capacity},
               read_count : Nat, write_count : Nat,
               input_ended : BOOLEAN, error : BOOLEAN]

\* The buffer bound is what makes remaining_capacity() a natural number, so
\* that the truncation in write() yields a prefix of its argument.
IInv ==
  /\ TypeOK
  /\ InOrder
  /\ Accounting
  /\ buffer_size(stream) <= Capacity

\* The clamp of write(), peek_output() and pop_output().
LEMMA AtMostProperties ==
  ASSUME NEW len \in Nat, NEW limit \in Nat
  PROVE  /\ AtMost(len, limit) \in 0 .. len
         /\ AtMost(len, limit) \in 0 .. limit
  BY DEF AtMost

\* A prefix of a sequence is a sequence of the prefix's length.
LEMMA PrefixProperties ==
  ASSUME NEW S, NEW s \in Seq(S), NEW k \in 0 .. Len(s)
  PROVE  SubSeq(s, 1, k) \in Seq(S) /\ Len(SubSeq(s, 1, k)) = k
  <1>1. \A i \in 1 .. k : s[i] \in S
    BY ElementOfSeq
  <1>. QED  BY <1>1, SubSeqProperties, LenProperties

\* What is left when a prefix is removed.
LEMMA SuffixProperties ==
  ASSUME NEW S, NEW s \in Seq(S), NEW k \in 0 .. Len(s)
  PROVE  SubSeq(s, k + 1, Len(s)) \in Seq(S)
         /\ Len(SubSeq(s, k + 1, Len(s))) = Len(s) - k
  <1>1. Len(s) \in Nat
    BY LenProperties
  <1>2. \A i \in k + 1 .. Len(s) : s[i] \in S
    BY <1>1, ElementOfSeq
  <1>. QED  BY <1>1, <1>2, SubSeqProperties

\* A prefix and what is left make up the whole.
LEMMA PrefixSuffix ==
  ASSUME NEW S, NEW s \in Seq(S), NEW k \in 0 .. Len(s)
  PROVE  SubSeq(s, 1, k) \o SubSeq(s, k + 1, Len(s)) = s
  <1>1. Len(s) \in Nat
    BY LenProperties
  <1>2. 1 \in 1 .. Len(s) + 1 /\ k \in 1 - 1 .. Len(s) /\ Len(s) \in k .. Len(s)
    BY <1>1
  <1>3. SubSeq(s, 1, k) \o SubSeq(s, k + 1, Len(s)) = SubSeq(s, 1, Len(s))
    BY <1>2, ConcatAdjacentSubSeq
  <1>. QED  BY <1>3, SubSeqFull

\* Concatenation is associative, over the bytes of this stream.
LEMMA Associative ==
  \A s, t, u \in Seq(Byte) : (s \o t) \o u = s \o (t \o u)
  BY ConcatAssociative

\* A call of write() preserves the inductive invariant.
LEMMA WriteStep ==
  ASSUME IInv, NEW data \in Seq(Byte), Write(data)
  PROVE  IInv'
  <1> DEFINE len == AtMost(Len(data), remaining_capacity(stream))
             taken == SubSeq(data, 1, len)
  <1>1. /\ stream.buffer \in Seq(Byte) /\ stream.capacity = Capacity
        /\ stream.write_count \in Nat /\ stream.read_count \in Nat
        /\ accepted \in Seq(Byte) /\ delivered \in Seq(Byte)
        /\ stream \in StreamType
    BY DEF IInv, TypeOK, StreamType
  <1>2. /\ Len(stream.buffer) \in Nat /\ Len(data) \in Nat
        /\ Len(accepted) \in Nat /\ Len(delivered) \in Nat
    BY <1>1, LenProperties
  <1>3. len \in 0 .. Len(data) /\ len <= Capacity - Len(stream.buffer)
    <2>1. Len(stream.buffer) <= Capacity
      BY DEF IInv, buffer_size
    <2>2. remaining_capacity(stream) = Capacity - Len(stream.buffer)
      BY <1>1 DEF remaining_capacity, buffer_size
    <2>3. remaining_capacity(stream) \in Nat
      BY <1>2, <2>1, <2>2, StreamAssumption
    <2>4. /\ len \in 0 .. Len(data)
          /\ len \in 0 .. remaining_capacity(stream)
      BY <1>2, <2>3, AtMostProperties
    <2>. HIDE DEF len
    <2>. QED  BY <1>2, <2>2, <2>3, <2>4
  <1>4. taken \in Seq(Byte) /\ Len(taken) = len
    BY <1>3, PrefixProperties
  <1>5. /\ stream' = [stream EXCEPT !.buffer = stream.buffer \o taken,
                                    !.write_count = stream.write_count + len]
        /\ accepted' = accepted \o taken
        /\ delivered' = delivered
    BY DEF Write, write, Taken
  <1>. HIDE DEF len, taken
  <1>6. /\ stream.buffer \o taken \in Seq(Byte)
        /\ Len(stream.buffer \o taken) = Len(stream.buffer) + len
        /\ accepted \o taken \in Seq(Byte)
        /\ Len(accepted \o taken) = Len(accepted) + len
    BY <1>1, <1>4, ConcatProperties
  <1>7. /\ stream' \in StreamType
        /\ stream'.buffer = stream.buffer \o taken
        /\ stream'.write_count = stream.write_count + len
        /\ stream'.read_count = stream.read_count
        /\ stream'.capacity = Capacity
    <2>1. stream.write_count + len \in Nat
      BY <1>1, <1>2, <1>3
    <2>. QED  BY <2>1, <1>1, <1>5, <1>6 DEF StreamType
  <1>8. InOrder'
    <2>1. (delivered \o stream.buffer) \o taken
            = delivered \o (stream.buffer \o taken)
      <3>1. delivered \in Seq(Byte) /\ stream.buffer \in Seq(Byte) /\ taken \in Seq(Byte)
        BY <1>1, <1>4
      <3>2. \A u \in Seq(Byte) : (delivered \o stream.buffer) \o u
                                   = delivered \o (stream.buffer \o u)
        BY <3>1, Associative
      <3>. QED  BY <3>1, <3>2
    <2>. QED  BY <2>1, <1>5, <1>7 DEF IInv, InOrder
  <1>9. Accounting' /\ buffer_size(stream)' <= Capacity
    BY <1>1, <1>2, <1>3, <1>5, <1>6, <1>7, StreamAssumption, SMTT(30)
       DEF IInv, Accounting, buffer_size
  <1>10. remaining_capacity(stream') \in Nat
    <2>1. stream'.buffer \in Seq(Byte)
      BY <1>7 DEF StreamType
    <2>2. Len(stream'.buffer) \in Nat
      BY <2>1, LenProperties
    <2>. QED
      BY <2>2, <1>7, <1>9, StreamAssumption DEF remaining_capacity, buffer_size
  <1>11. TypeOK'
    BY <1>1, <1>5, <1>6, <1>7, <1>10 DEF TypeOK, StreamType
  <1>. QED  BY <1>8, <1>9, <1>11 DEF IInv

\* A call of read() preserves the inductive invariant.
LEMMA ReadStep ==
  ASSUME IInv, NEW count \in Nat, Read(count)
  PROVE  IInv'
  <1> DEFINE k == AtMost(count, buffer_size(stream))
             taken == SubSeq(stream.buffer, 1, k)
             left == SubSeq(stream.buffer, k + 1, Len(stream.buffer))
  <1>1. /\ stream.buffer \in Seq(Byte) /\ stream.capacity = Capacity
        /\ stream.write_count \in Nat /\ stream.read_count \in Nat
        /\ accepted \in Seq(Byte) /\ delivered \in Seq(Byte)
        /\ stream \in StreamType
    BY DEF IInv, TypeOK, StreamType
  <1>2. /\ Len(stream.buffer) \in Nat
        /\ Len(accepted) \in Nat /\ Len(delivered) \in Nat
    BY <1>1, LenProperties
  <1>3. k \in 0 .. Len(stream.buffer)
    BY <1>2 DEF AtMost, buffer_size
  <1>4. /\ taken \in Seq(Byte) /\ Len(taken) = k
        /\ left \in Seq(Byte) /\ Len(left) = Len(stream.buffer) - k
        /\ taken \o left = stream.buffer
    BY <1>1, <1>3, PrefixProperties, SuffixProperties, PrefixSuffix, ZenonT(30)
  <1>5. /\ stream' = [stream EXCEPT !.buffer = left,
                                    !.read_count = stream.read_count + k]
        /\ delivered' = delivered \o taken
        /\ accepted' = accepted
    BY DEF Read, pop_output, peek_output
  <1>. HIDE DEF k, taken, left
  <1>6. /\ delivered \o taken \in Seq(Byte)
        /\ Len(delivered \o taken) = Len(delivered) + k
    BY <1>1, <1>4, ConcatProperties
  <1>7. /\ stream' \in StreamType
        /\ stream'.buffer = left
        /\ stream'.read_count = stream.read_count + k
        /\ stream'.write_count = stream.write_count
        /\ stream'.capacity = Capacity
    <2>1. stream.read_count + k \in Nat
      BY <1>1, <1>2, <1>3
    <2>. QED  BY <2>1, <1>1, <1>4, <1>5 DEF StreamType
  <1>8. InOrder'
    <2>1. (delivered \o taken) \o left = delivered \o (taken \o left)
      BY <1>1, <1>4, Associative
    <2>. QED  BY <2>1, <1>4, <1>5, <1>7 DEF IInv, InOrder
  <1>9. Accounting' /\ buffer_size(stream)' <= Capacity
    <2>1. /\ stream.write_count = Len(accepted)
          /\ stream.read_count = Len(delivered)
          /\ Len(stream.buffer) <= Capacity
      BY DEF IInv, Accounting, buffer_size
    <2>2. Len(stream'.buffer) = Len(stream.buffer) - k
      BY <1>4, <1>7
    <2>3. Len(delivered') = Len(delivered) + k /\ Len(accepted') = Len(accepted)
      BY <1>5, <1>6
    <2>. QED
      BY <2>1, <2>2, <2>3, <1>2, <1>3, <1>7, StreamAssumption
         DEF Accounting, buffer_size
  <1>10. remaining_capacity(stream') \in Nat
    <2>1. stream'.buffer \in Seq(Byte)
      BY <1>7 DEF StreamType
    <2>2. Len(stream'.buffer) \in Nat
      BY <2>1, LenProperties
    <2>. QED
      BY <2>2, <1>7, <1>9, StreamAssumption DEF remaining_capacity, buffer_size
  <1>11. TypeOK'
    BY <1>1, <1>5, <1>6, <1>7, <1>10 DEF TypeOK, StreamType
  <1>. QED  BY <1>8, <1>9, <1>11 DEF IInv

\* A new stream is empty.
LEMMA InitHolds == Init => IInv
  <1>. SUFFICES ASSUME Init PROVE IInv
    OBVIOUS
  <1>1. <<>> \in Seq(Byte) /\ Len(<<>>) = 0 /\ <<>> \o <<>> = <<>>
    BY EmptySeq, ConcatEmptySeq
  <1>. QED
    BY <1>1, StreamAssumption
       DEF Init, IInv, TypeOK, InOrder, Accounting, NewByteStream,
           remaining_capacity, buffer_size

\* The data of a write is a string.
LEMMA DataIsString ==
  ASSUME NEW count \in 0 .. MaxWrite, NEW data \in [1 .. count -> Byte]
  PROVE  data \in Seq(Byte)
  BY StreamAssumption, SeqDef

\* Every call preserves the inductive invariant.
LEMMA NextKeeps == IInv /\ [Next]_vars => IInv'
  <1>. SUFFICES ASSUME IInv, [Next]_vars PROVE IInv'
    OBVIOUS
  <1>1. ASSUME NEW count \in 0 .. MaxWrite, NEW data \in [1 .. count -> Byte],
               Write(data)
        PROVE  IInv'
    BY <1>1, DataIsString, WriteStep
  <1>2. ASSUME NEW count \in 0 .. MaxWrite, Read(count) PROVE IInv'
    BY <1>2, ReadStep, StreamAssumption
  <1>3. CASE EndInput \/ SetError
    <2>1. /\ stream'.buffer = stream.buffer
          /\ stream'.capacity = stream.capacity
          /\ stream'.read_count = stream.read_count
          /\ stream'.write_count = stream.write_count
          /\ accepted' = accepted /\ delivered' = delivered
          /\ stream' \in StreamType
      BY <1>3 DEF EndInput, SetError, end_input, set_error, IInv, TypeOK,
                  StreamType
    <2>. QED
      BY <2>1 DEF IInv, TypeOK, StreamType, InOrder, Accounting,
                  remaining_capacity, buffer_size
  <1>4. CASE UNCHANGED vars
    BY <1>4 DEF vars, IInv, TypeOK, InOrder, Accounting,
                remaining_capacity, buffer_size
  <1>. QED  BY <1>1, <1>2, <1>3, <1>4 DEF Next

\* The inductive invariant holds of every reachable state.
THEOREM Invariance == Spec => []IInv
  BY InitHolds, NextKeeps, PTL DEF Spec

\* Every byte comes out once, in the order write() accepted it.
THEOREM InOrderHolds == Spec => []InOrder
  <1>1. IInv => InOrder
    BY DEF IInv
  <1>. QED  BY <1>1, Invariance, PTL

\* bytes_written() and bytes_read() are exact.
THEOREM AccountingHolds == Spec => []Accounting
  <1>1. IInv => Accounting
    BY DEF IInv
  <1>. QED  BY <1>1, Invariance, PTL

\* Type correctness; in particular remaining_capacity() never underflows.
THEOREM TypeCorrect == Spec => []TypeOK
  <1>1. IInv => TypeOK
    BY DEF IInv
  <1>. QED  BY <1>1, Invariance, PTL

\* A concatenation extends its first part.
LEMMA ConcatExtends ==
  ASSUME NEW s \in Seq(Byte), NEW t \in Seq(Byte)
  PROVE  Reliable!Extends(s \o t, s)
  <1>1. /\ s \o t \in Seq(Byte) /\ Len(s \o t) = Len(s) + Len(t)
        /\ \A i \in 1 .. Len(s) : (s \o t)[i] = s[i]
        /\ Len(s) \in Nat /\ Len(t) \in Nat
    BY ConcatProperties, LenProperties
  <1>2. Len(s) \in 0 .. Len(s \o t)
    BY <1>1
  <1> DEFINE p == SubSeq(s \o t, 1, Len(s))
  <1>3. p \in Seq(Byte) /\ Len(p) = Len(s)
    BY <1>1, <1>2, PrefixProperties
  <1>4. \A i \in 1 .. Len(s) : p[i] = s[i]
    BY <1>1, <1>2, SubSeqProperties
  <1>5. p = s
    BY <1>3, <1>4, SeqEqual
  <1>. QED  BY <1>1, <1>2, <1>5 DEF Reliable!Extends

\* The reader is at eof() only when it has read all that was accepted.
LEMMA EofIsAll ==
  ASSUME NEW s, s.buffer \in Seq(Byte), eof(s),
         NEW read \in Seq(Byte), NEW taken, read \o s.buffer = taken
  PROVE  s.buffer = <<>> /\ read = taken /\ input_ended(s)
  <1>1. s.buffer = <<>>
    BY EmptySeq DEF eof, buffer_empty, buffer_size
  <1>. QED  BY <1>1, ConcatEmptySeq DEF eof

\* A read hands the reader the next bytes, and with the last of them the end.
LEMMA ReadDelivers ==
  ASSUME IInv, IInv', NEW len \in Nat, Read(len)
  PROVE  Reliable!Deliver \/ UNCHANGED Reliable!vars
  <1> DEFINE p == peek_output(stream, len)
  <1>1. /\ accepted' = accepted /\ delivered' = delivered \o p
        /\ stream'.input_ended = stream.input_ended
        /\ stream'.buffer = SubSeq(stream.buffer, AtMost(len, buffer_size(stream)) + 1,
                                   Len(stream.buffer))
    BY DEF Read, pop_output, IInv, TypeOK
  <1>2. /\ stream.buffer \in Seq(Byte) /\ Len(stream.buffer) \in Nat
        /\ delivered \in Seq(Byte)
        /\ delivered' \in Seq(Byte) /\ stream'.buffer \in Seq(Byte)
    BY LenProperties DEF IInv, TypeOK
  <1>3. p \in Seq(Byte)
    BY <1>2, AtMostProperties, PrefixProperties DEF peek_output, buffer_size
  <1>4. Reliable!Extends(delivered', delivered)
    BY <1>1, <1>2, <1>3, ConcatExtends
  <1>5. Reliable!Extends(accepted, delivered')
    <2>1. accepted = delivered' \o stream'.buffer
      BY <1>1 DEF IInv, InOrder
    <2>. QED  BY <2>1, <1>2, ConcatExtends
  <1>6. eof(stream') => input_ended(stream') /\ delivered' = accepted'
    <2>1. delivered' \o stream'.buffer = accepted'
      BY DEF IInv, InOrder
    <2>2. ASSUME eof(stream') PROVE  stream'.buffer = <<>> /\ stream'.input_ended
      BY <2>2, <1>2, EmptySeq DEF eof, buffer_empty, buffer_size, input_ended
    <2>. QED  BY <2>1, <2>2, <1>2, ConcatEmptySeq DEF input_ended
  <1>7. CASE ~eof(stream)
    BY <1>1, <1>4, <1>5, <1>6, <1>7
       DEF Reliable!Deliver, Reliable!AtEnd, input_ended
  <1>8. CASE eof(stream)
    <2>1. stream.buffer = <<>> /\ Len(stream.buffer) = 0
      BY <1>2, <1>8, EofIsAll, EmptySeq DEF IInv, InOrder
    <2>2. AtMost(len, buffer_size(stream)) = 0
      <3>1. buffer_size(stream) = 0
        BY <2>1 DEF buffer_size
      <3>2. AtMost(len, 0) = 0
        BY DEF AtMost
      <3>. QED  BY <3>1, <3>2
    <2>3. p = <<>> /\ stream'.buffer = <<>>
      <3>1. SubSeq(stream.buffer, 1, 0) = <<>> /\ SubSeq(stream.buffer, 1, Len(stream.buffer)) = <<>>
        BY <2>1, <1>2, SubSeqFull
      <3>. QED  BY <3>1, <2>2, <1>1 DEF peek_output
    <2>4. delivered' = delivered
      BY <2>3, <1>1, <1>2, ConcatEmptySeq
    <2>. QED
      BY <1>1, <2>1, <2>3, <2>4 DEF Reliable!vars, eof, buffer_empty, buffer_size, input_ended
  <1>. QED  BY <1>7, <1>8

\* Bytes are only accepted while the stream has not ended.
LEMMA WriteExtends ==
  ASSUME IInv, NEW data \in Seq(Byte), Write(data), ~input_ended(stream)
  PROVE  Reliable!Write
  <1>1. /\ delivered' = delivered /\ accepted' = accepted \o Taken(data)
        /\ stream'.input_ended = stream.input_ended
    BY DEF Write, write, IInv, TypeOK
  <1>2. remaining_capacity(stream) \in Nat /\ Len(data) \in Nat /\ accepted \in Seq(Byte)
    BY LenProperties DEF IInv, TypeOK
  <1>3. Taken(data) \in Seq(Byte)
    BY <1>2, AtMostProperties, PrefixProperties DEF Taken
  <1>4. Reliable!Extends(accepted', accepted)
    BY <1>1, <1>2, <1>3, ConcatExtends
  <1>. QED  BY <1>1, <1>4 DEF Reliable!Write, eof, input_ended

\* ReliableStream is what a ByteStream promises, for every capacity, while its
\* writer does not write after it has ended the stream.
THEOREM ReliableIfWriterStopsHolds == Spec => ReliableIfWriterStops
  <1> DEFINE Stops == input_ended(stream) => accepted' = accepted
             Step == Stops => Reliable!Next \/ UNCHANGED Reliable!vars
  <1>1. Init => Reliable!Init
    BY DEF Init, Reliable!Init, NewByteStream, input_ended, eof
  <1>2. IInv /\ IInv' /\ [Next]_vars => [Step]_vars
    <2>. SUFFICES ASSUME IInv, IInv', Next, Stops
                  PROVE  Reliable!Next \/ UNCHANGED Reliable!vars
      OBVIOUS
    <2>0. /\ delivered \in Seq(Byte) /\ stream.buffer \in Seq(Byte)
          /\ delivered' \in Seq(Byte) /\ stream'.buffer \in Seq(Byte)
      BY DEF IInv, TypeOK
    <2>1. ASSUME NEW count \in 0 .. MaxWrite, NEW data \in [1 .. count -> Byte], Write(data)
          PROVE  Reliable!Next \/ UNCHANGED Reliable!vars
      <3>1. data \in Seq(Byte)
        BY StreamAssumption, SeqDef
      <3>2. CASE ~input_ended(stream)
        BY <3>1, <3>2, <2>1, WriteExtends DEF Reliable!Next
      <3>3. CASE input_ended(stream)
        <4>1. accepted' = accepted /\ delivered' = delivered
          BY <3>3, <2>1 DEF Write
        <4>2. delivered \o stream'.buffer = delivered \o stream.buffer
          BY <4>1 DEF IInv, InOrder
        <4>3. Len(delivered) + Len(stream'.buffer) = Len(delivered) + Len(stream.buffer)
          BY <4>2, <2>0, ConcatProperties
        <4>4. Len(stream'.buffer) = Len(stream.buffer)
          BY <4>3, <2>0, LenProperties
        <4>5. stream'.input_ended = stream.input_ended
          BY <2>1 DEF Write, write, IInv, TypeOK
        <4>. QED
          BY <4>1, <4>4, <4>5
             DEF Reliable!vars, eof, buffer_empty, buffer_size, input_ended
      <3>. QED  BY <3>2, <3>3
    <2>2. ASSUME NEW count \in 0 .. MaxWrite, Read(count)
          PROVE  Reliable!Next \/ UNCHANGED Reliable!vars
      <3>1. count \in Nat
        BY StreamAssumption
      <3>. QED  BY <3>1, <2>2, ReadDelivers DEF Reliable!Next
    <2>3. CASE EndInput
      <3>1. /\ accepted' = accepted /\ delivered' = delivered
            /\ stream'.input_ended
        BY <2>3 DEF EndInput, end_input, IInv, TypeOK
      <3>2. delivered' \o stream'.buffer = accepted'
        BY DEF IInv, InOrder
      <3>3. eof(stream') => delivered' = accepted'
        <4>1. ASSUME eof(stream') PROVE  stream'.buffer = <<>>
          BY <4>1, <2>0, EmptySeq DEF eof, buffer_empty, buffer_size
        <4>. QED  BY <4>1, <3>2, <2>0, ConcatEmptySeq
      <3>. QED
        BY <3>1, <3>3 DEF Reliable!Next, Reliable!End, Reliable!AtEnd, input_ended
    <2>4. CASE SetError
      <3>1. /\ accepted' = accepted /\ delivered' = delivered
            /\ stream'.input_ended = stream.input_ended
            /\ stream'.buffer = stream.buffer
        BY <2>4 DEF SetError, set_error, IInv, TypeOK
      <3>. QED
        BY <3>1 DEF Reliable!vars, eof, buffer_empty, buffer_size, input_ended
    <2>. QED  BY <2>1, <2>2, <2>3, <2>4 DEF Next
  <1>. QED  BY <1>1, <1>2, Invariance, PTL DEF Spec, ReliableIfWriterStops

-----------------------------------------------------------------------------
\* The numbers of the sweep keep their types.
WrapInv == n \in SeqNos /\ isn \in SeqNos /\ checkpoint \in Nat

\* The three numbers of unwrap() stay numbers.
LEMMA WrapInvHolds == WrapSpec => []WrapInv
  <1>1. WrapInit => WrapInv
    BY DEF WrapInit, WrapInv
  <1>2. WrapInv /\ [Sweep]_wrap_vars => WrapInv'
    <2>1. ASSUME WrapInv, Sweep PROVE checkpoint' \in Nat
      BY <2>1, DivMod, MaxCheckpointAssumption DEF Sweep, WrapInv
    <2>. QED  BY <2>1 DEF Sweep, wrap_vars, WrapInv
  <1>. QED  BY <1>1, <1>2, PTL DEF WrapSpec

\* On every behaviour of the sweep, unwrap() returns the preimage nearest to
\* the checkpoint: the promise of wrapping_integers.cc:26.
THEOREM UnwrapClosestHolds == WrapSpec => []UnwrapClosest
  <1>1. WrapInv => UnwrapClosest
    <2>. SUFFICES ASSUME WrapInv PROVE UnwrapClosest
      OBVIOUS
    <2>1. 0 .. MaxCheckpoint + 2 * SeqMod \subseteq Nat
      OBVIOUS
    <2>. QED  BY <2>1, UnwrapNearest DEF UnwrapClosest, WrapInv
  <1>. QED  BY <1>1, WrapInvHolds, PTL

\* A number less than half a turn from the checkpoint survives the trip
\* through the wire format, whatever the modulus and the checkpoint.
THEOREM RoundTripHolds == WrapSpec => []RoundTrip
  <1>1. WrapInv => RoundTrip
    <2>. SUFFICES ASSUME WrapInv PROVE RoundTrip
      OBVIOUS
    <2>1. 0 .. MaxCheckpoint + SeqMod \subseteq Nat
      OBVIOUS
    <2>. QED  BY <2>1, NearSurvives DEF RoundTrip, WrapInv
  <1>. QED  BY <1>1, WrapInvHolds, PTL
-----------------------------------------------------------------------------
\* A set of naturals that is not empty has a least member.
LEMMA LeastMember ==
  ASSUME NEW T, T \subseteq Nat, T # {}
  PROVE  \E x \in T : \A y \in T : x <= y
  <1>1. PICK x \in T : \A y \in T : ~ (<<y, x>> \in OpToRel(<, Nat))
    BY NatLessThanWellFounded, WFMin, Zenon
  <1>2. \A y \in T : y < x => <<y, x>> \in OpToRel(<, Nat)
    BY Zenon DEF OpToRel
  <1>3. \A y \in T : ~ (y < x)
    BY <1>1, <1>2
  <1>. QED  BY <1>3

\* A set that has 0, and k + 1 whenever it has k, has every number.
LEMMA AllNumbers ==
  ASSUME NEW T, 0 \in T, \A k \in Nat : k \in T => k + 1 \in T
  PROVE  \A k \in Nat : k \in T
  <1> DEFINE bad == {k \in Nat : k \notin T}
  <1>1. SUFFICES ASSUME bad # {} PROVE FALSE
    OBVIOUS
  <1>2. bad \subseteq Nat
    OBVIOUS
  <1>3. PICK x \in bad : \A y \in bad : x <= y
    BY <1>1, <1>2, LeastMember
  <1>4. x \in Nat /\ x \notin T /\ x # 0
    BY <1>3
  <1>5. x - 1 \in Nat /\ (x - 1) + 1 = x /\ ~(x <= x - 1)
    BY <1>4
  <1>6. x - 1 \in T
    BY <1>3, <1>5
  <1>. QED  BY <1>4, <1>5, <1>6

\* A loop over S that starts with first and makes count turns, and what it has
\* after each of them.
Loops(S, first, step, count) ==
  first \in S /\ count \in Nat /\ step \in [1 .. count -> [S -> S]]

Runs(f, S, first, step, count) ==
  /\ f \in [0 .. count -> S] /\ f[0] = first
  /\ \A i \in 1 .. count : f[i] = step[i][f[i - 1]]

\* A loop of that many turns can be run.
LEMMA Recursion ==
  ASSUME NEW S, NEW first, NEW step, NEW count, Loops(S, first, step, count)
  PROVE  \E f : Runs(f, S, first, step, count)
  <1>. USE DEF Loops, Runs
  <1> DEFINE Turns(f, k) == /\ f \in [0 .. k -> S] /\ f[0] = first
                            /\ \A i \in 1 .. k : f[i] = step[i][f[i - 1]]
             T == {k \in Nat : k <= count => \E f : Turns(f, k)}
  <1>1. 0 \in T
    <2> DEFINE g == [i \in 0 .. 0 |-> first]
    <2>1. 0 \in 0 .. 0 /\ \A i \in 1 .. 0 : FALSE
      OBVIOUS
    <2>2. Turns(g, 0)
      BY <2>1
    <2>. QED  BY <2>2
  <1>2. ASSUME NEW k \in Nat, k \in T PROVE k + 1 \in T
    <2>1. k + 1 \in Nat
      OBVIOUS
    <2>2. ASSUME k + 1 <= count PROVE \E f : Turns(f, k + 1)
      <3>1. k <= count /\ k + 1 \in 1 .. count
        BY <2>2
      <3>2. PICK f : Turns(f, k)
        BY <1>2, <3>1
      <3> DEFINE last == step[k + 1][f[k]]
                 g == [i \in 0 .. k + 1 |-> IF i = k + 1 THEN last ELSE f[i]]
      <3>3. /\ k \in 0 .. k /\ 0 \in 0 .. k /\ 0 \in 0 .. k + 1 /\ 0 # k + 1
            /\ \A i \in 0 .. k + 1 : i = k + 1 \/ i \in 0 .. k
            /\ (k + 1) - 1 = k
        OBVIOUS
      <3>4. last \in S
        BY <3>1, <3>2, <3>3
      <3>. HIDE DEF last
      <3>5. g \in [0 .. k + 1 -> S]
        BY <3>2, <3>3, <3>4
      <3>6. g[0] = first
        BY <3>2, <3>3
      <3>7. ASSUME NEW i \in 1 .. k + 1 PROVE g[i] = step[i][g[i - 1]]
        <4>1. /\ i - 1 \in 0 .. k + 1 /\ i - 1 # k + 1 /\ i \in 0 .. k + 1
              /\ i = k + 1 \/ i \in 1 .. k
          OBVIOUS
        <4>2. g[i - 1] = f[i - 1]
          BY <4>1
        <4>3. CASE i = k + 1
          BY <3>3, <4>1, <4>2, <4>3 DEF last
        <4>4. CASE i # k + 1
          BY <3>2, <4>1, <4>2, <4>4
        <4>. QED  BY <4>3, <4>4
      <3>. HIDE DEF g
      <3>8. Turns(g, k + 1)
        BY <3>5, <3>6, <3>7
      <3>. QED  BY <3>8
    <2>. QED  BY <2>1, <2>2
  <1>. HIDE DEF T
  <1>3. count \in T
    BY <1>1, <1>2, AllNumbers
  <1>4. count <= count
    OBVIOUS
  <1>. QED  BY <1>3, <1>4 DEF T

\* Two loops that start alike and turn alike come to the same.
Alike(f, g, count) ==
  f[0] = g[0] /\ \A i \in 1 .. count : f[i - 1] = g[i - 1] => f[i] = g[i]

\* Two runs of the same loop agree.
LEMMA SameRecursion ==
  ASSUME NEW count \in Nat, NEW f, NEW g, Alike(f, g, count)
  PROVE  \A i \in 0 .. count : f[i] = g[i]
  <1> DEFINE T == {k \in Nat : k <= count => f[k] = g[k]}
  <1>. USE DEF Alike
  <1>1. 0 \in T
    OBVIOUS
  <1>2. ASSUME NEW k \in Nat, k \in T PROVE k + 1 \in T
    <2>1. k + 1 \in Nat /\ (k + 1) - 1 = k
      OBVIOUS
    <2>2. k + 1 <= count => k <= count /\ k + 1 \in 1 .. count
      OBVIOUS
    <2>. QED  BY <1>2, <2>1, <2>2
  <1>. HIDE DEF T
  <1>3. \A k \in Nat : k \in T
    BY <1>1, <1>2, AllNumbers
  <1>4. \A i \in 0 .. count : i \in Nat /\ i <= count
    OBVIOUS
  <1>. QED  BY <1>3, <1>4 DEF T

-----------------------------------------------------------------------------
BufferType == [storage : Seq(Byte), starting_offset : Nat]

\* What a Buffer refers to is a string.
LEMMA StrType ==
  ASSUME NEW buf \in BufferType
  PROVE  /\ str(buf) \in Seq(Byte)
         /\ Len(str(buf)) = IF buf.starting_offset + 1 <= Len(buf.storage)
                            THEN Len(buf.storage) - buf.starting_offset ELSE 0
  <1>1. buf.storage \in Seq(Byte) /\ buf.starting_offset \in Nat
    BY DEF BufferType
  <1>2. Len(buf.storage) \in Nat
    BY <1>1, LenProperties
  <1>3. \A i \in buf.starting_offset + 1 .. Len(buf.storage) : buf.storage[i] \in Byte
    <2>1. \A i \in buf.starting_offset + 1 .. Len(buf.storage) : i \in 1 .. Len(buf.storage)
      BY <1>1, <1>2
    <2>. QED  BY <1>1, <2>1, ElementOfSeq
  <1>4. buf.starting_offset + 1 \in Int /\ Len(buf.storage) \in Int
    BY <1>1, <1>2
  <1>5. /\ str(buf) \in Seq(Byte)
        /\ Len(str(buf)) = IF buf.starting_offset + 1 <= Len(buf.storage)
                           THEN Len(buf.storage) - (buf.starting_offset + 1) + 1 ELSE 0
    BY <1>1, <1>3, <1>4, SubSeqProperties DEF str
  <1>. QED  BY <1>1, <1>2, <1>5

\* The loop of concatenate().
Joins(f, bufs) ==
  f = [i \in 0 .. Len(bufs) |-> IF i = 0 THEN <<>> ELSE f[i - 1] \o str(bufs[i])]

\* concatenate() is a loop that appends one buffer a turn.
LEMMA ConcatenateProperties ==
  ASSUME NEW bufs \in Seq(BufferType)
  PROVE  \E f \in [0 .. Len(bufs) -> Seq(Byte)] :
           /\ f[0] = <<>> /\ f[Len(bufs)] = concatenate(bufs)
           /\ \A i \in 1 .. Len(bufs) : f[i] = f[i - 1] \o str(bufs[i])
  <1> DEFINE L == Len(bufs)
             step == [i \in 1 .. L |-> [s \in Seq(Byte) |-> s \o str(bufs[i])]]
  <1>1. L \in Nat /\ <<>> \in Seq(Byte)
    BY LenProperties, EmptySeq
  <1>2. \A i \in 1 .. L : str(bufs[i]) \in Seq(Byte)
    BY ElementOfSeq, StrType
  <1>3. step \in [1 .. L -> [Seq(Byte) -> Seq(Byte)]]
    BY <1>2, ConcatProperties
  <1>4. \A s \in Seq(Byte), i \in 1 .. L : step[i][s] = s \o str(bufs[i])
    OBVIOUS
  <1>. HIDE DEF step
  <1>5. PICK g \in [0 .. L -> Seq(Byte)] :
          g[0] = <<>> /\ \A i \in 1 .. L : g[i] = step[i][g[i - 1]]
    <2>1. Loops(Seq(Byte), <<>>, step, L)
      BY <1>1, <1>3 DEF Loops
    <2>2. PICK g : Runs(g, Seq(Byte), <<>>, step, L)
      BY <2>1, Recursion
    <2>. QED  BY <2>2 DEF Runs
  <1>6. \A i \in 0 .. L : i = 0 \/ i \in 1 .. L
    BY <1>1
  <1>7. \A i \in 1 .. L : i - 1 \in 0 .. L /\ i \in 0 .. L /\ i # 0
    BY <1>1
  <1>8. \A i \in 1 .. L : g[i] = g[i - 1] \o str(bufs[i])
    BY <1>4, <1>5, <1>7
  <1>9. Joins(g, bufs)
    <2>1. \A i \in 0 .. L : g[i] = IF i = 0 THEN <<>> ELSE g[i - 1] \o str(bufs[i])
      BY <1>5, <1>6, <1>8
    <2>. QED  BY <1>5, <2>1 DEF Joins
  <1> DEFINE f == CHOOSE h : Joins(h, bufs)
  <1>10. Joins(f, bufs)
    BY <1>9
  <1>11. concatenate(bufs) = f[L]
    BY DEF concatenate, Joins
  <1>. HIDE DEF f
  <1>12. /\ f = [i \in 0 .. L |-> f[i]] /\ f[0] = <<>>
         /\ \A i \in 1 .. L : f[i] = f[i - 1] \o str(bufs[i])
    <2>1. 0 \in 0 .. L
      BY <1>1
    <2>2. \A i \in 0 .. L : f[i] = IF i = 0 THEN <<>> ELSE f[i - 1] \o str(bufs[i])
      BY <1>10 DEF Joins
    <2>3. f = [i \in 0 .. L |-> f[i]]
      BY <1>10 DEF Joins
    <2>. QED  BY <1>7, <2>1, <2>2, <2>3
  <1>13. \A i \in 0 .. L : f[i] = g[i]
    <2>. HIDE DEF L
    <2>1. Alike(f, g, L)
      BY <1>5, <1>8, <1>12 DEF Alike
    <2>. QED  BY <1>1, <2>1, SameRecursion, ZenonT(30)
  <1>14. f \in [0 .. L -> Seq(Byte)]
    BY <1>5, <1>12, <1>13
  <1>. QED  BY <1>11, <1>12, <1>14

\* One buffer more.
LEMMA ConcatenateAppend ==
  ASSUME NEW bufs \in Seq(BufferType), NEW buf \in BufferType
  PROVE  concatenate(Append(bufs, buf)) = concatenate(bufs) \o str(buf)
  <1> DEFINE L == Len(bufs)
             more == Append(bufs, buf)
  <1>1. /\ L \in Nat /\ more \in Seq(BufferType) /\ Len(more) = L + 1
        /\ \A i \in 1 .. L : more[i] = bufs[i]
        /\ more[L + 1] = buf
    BY LenProperties, AppendProperties
  <1>. HIDE DEF more
  <1>2. PICK f \in [0 .. L -> Seq(Byte)] :
           /\ f[0] = <<>> /\ f[L] = concatenate(bufs)
           /\ \A i \in 1 .. L : f[i] = f[i - 1] \o str(bufs[i])
    BY ConcatenateProperties
  <1>3. PICK g \in [0 .. Len(more) -> Seq(Byte)] :
           /\ g[0] = <<>> /\ g[Len(more)] = concatenate(more)
           /\ \A i \in 1 .. Len(more) : g[i] = g[i - 1] \o str(more[i])
    BY <1>1, ConcatenateProperties
  <1>. HIDE DEF L
  <1>4. L \in 0 .. L /\ L + 1 \in 1 .. L + 1 /\ (L + 1) - 1 = L /\ \A i \in 1 .. L : i \in 1 .. L + 1
    BY <1>1
  <1>5. \A i \in 0 .. L : f[i] = g[i]
    <2>1. Alike(f, g, L)
      BY <1>1, <1>2, <1>3, <1>4 DEF Alike
    <2>2. L \in Nat
      BY <1>1
    <2>. QED  BY <2>1, <2>2, SameRecursion, ZenonT(30)
  <1>6. g[L + 1] = g[L] \o str(buf)
    BY <1>1, <1>3, <1>4
  <1>. QED  BY <1>1, <1>2, <1>3, <1>4, <1>5, <1>6 DEF more

\* No buffers hold no bytes.
LEMMA ConcatenateEmpty ==
  concatenate(<<>>) = <<>>
  <1>1. <<>> \in Seq(BufferType) /\ Len(<<>>) = 0
    BY EmptySeq
  <1>. QED  BY <1>1, ConcatenateProperties

\* concatenate() returns a string.
LEMMA ConcatenateType ==
  ASSUME NEW bufs \in Seq(BufferType)
  PROVE  concatenate(bufs) \in Seq(Byte)
  <1>1. Len(bufs) \in 0 .. Len(bufs)
    BY LenProperties
  <1>. QED  BY <1>1, ConcatenateProperties, ZenonT(30)

\* The loop of size() counts the bytes that the one of concatenate() joins.
LEMMA SizeIsLength ==
  ASSUME NEW bufs \in Seq(BufferType)
  PROVE  list_size(bufs) = Len(concatenate(bufs))
  <1> DEFINE L == Len(bufs)
             Sizes(h) == h = [i \in 0 .. L |-> IF i = 0 THEN 0 ELSE h[i - 1] + Len(str(bufs[i]))]
  <1>1. L \in Nat
    BY LenProperties
  <1>2. PICK f \in [0 .. L -> Seq(Byte)] :
           /\ f[0] = <<>> /\ f[L] = concatenate(bufs)
           /\ \A i \in 1 .. L : f[i] = f[i - 1] \o str(bufs[i])
    BY ConcatenateProperties
  <1>3. \A i \in 1 .. L : str(bufs[i]) \in Seq(Byte)
    BY ElementOfSeq, StrType
  <1>4. list_size(bufs) = (CHOOSE h : Sizes(h))[L]
    BY DEF list_size
  <1>. HIDE DEF L
  <1> DEFINE g == [i \in 0 .. L |-> Len(f[i])]
  <1>5. /\ \A i \in 0 .. L : i = 0 \/ i \in 1 .. L
        /\ \A i \in 1 .. L : i - 1 \in 0 .. L /\ i \in 0 .. L /\ i # 0
        /\ 0 \in 0 .. L /\ L \in 0 .. L
    BY <1>1
  <1>6. g[0] = 0
    BY <1>2, <1>5, EmptySeq
  <1>7. ASSUME NEW i \in 1 .. L PROVE g[i] = g[i - 1] + Len(str(bufs[i]))
    <2>1. i - 1 \in 0 .. L /\ i \in 0 .. L
      BY <1>5
    <2>2. f[i - 1] \in Seq(Byte) /\ str(bufs[i]) \in Seq(Byte)
      BY <1>2, <1>3, <2>1
    <2>3. Len(f[i - 1] \o str(bufs[i])) = Len(f[i - 1]) + Len(str(bufs[i]))
      BY <2>2, ConcatProperties
    <2>. QED  BY <1>2, <2>1, <2>3, Zenon
  <1>8. \A i \in 0 .. L : g[i] = IF i = 0 THEN 0 ELSE g[i - 1] + Len(str(bufs[i]))
    BY <1>5, <1>6, <1>7
  <1>9. Sizes(g)
    BY <1>8, Zenon
  <1>10. g[L] = Len(concatenate(bufs))
    BY <1>2, <1>5
  <1>. HIDE DEF g
  <1>11. PICK h : Sizes(h) /\ list_size(bufs) = h[L]
    BY <1>4, <1>9
  <1>12. \A i \in 0 .. L : h[i] = IF i = 0 THEN 0 ELSE h[i - 1] + Len(str(bufs[i]))
    BY <1>11
  <1>13. \A i \in 1 .. L : h[i - 1] = g[i - 1] => h[i] = g[i]
    BY <1>5, <1>7, <1>12
  <1>14. h[0] = g[0]
    BY <1>5, <1>6, <1>12
  <1>15. h[L] = g[L]
    <2>1. Alike(h, g, L)
      BY <1>13, <1>14 DEF Alike
    <2>. QED  BY <1>1, <1>5, <2>1, SameRecursion
  <1>. QED  BY <1>10, <1>11, <1>15

-----------------------------------------------------------------------------
\* What follows the first k elements of a sequence.
After(s, k) == SubSeq(s, k + 1, Len(s))

\* What is left after k bytes, one by one.
LEMMA AfterElements ==
  ASSUME NEW s \in Seq(Byte), NEW k \in 0 .. Len(s)
  PROVE  /\ After(s, k) \in Seq(Byte) /\ Len(After(s, k)) = Len(s) - k
         /\ \A i \in 1 .. Len(s) - k : After(s, k)[i] = s[k + i]
  <1>1. Len(s) \in Nat /\ k \in Nat /\ k <= Len(s)
    BY LenProperties
  <1>2. \A i \in k + 1 .. Len(s) : s[i] \in Byte
    BY <1>1, ElementOfSeq
  <1>3. k + 1 \in Int /\ Len(s) \in Int
    BY <1>1
  <1>4. \A i \in 1 .. Len(s) - (k + 1) + 1 : SubSeq(s, k + 1, Len(s))[i] = s[(k + 1) + i - 1]
    BY <1>2, <1>3, SubSeqProperties
  <1>5. ASSUME NEW i \in 1 .. Len(s) - k PROVE After(s, k)[i] = s[k + i]
    <2>1. i \in 1 .. Len(s) - (k + 1) + 1 /\ (k + 1) + i - 1 = k + i
      BY <1>1
    <2>. QED  BY <1>4, <2>1 DEF After
  <1>. QED  BY <1>5, SuffixProperties DEF After

\* Taking from the first of two sequences leaves the second.
LEMMA AfterInFirst ==
  ASSUME NEW s \in Seq(Byte), NEW t \in Seq(Byte), NEW k \in 0 .. Len(s)
  PROVE  After(s \o t, k) = After(s, k) \o t
  <1> DEFINE st == s \o t
             rest == After(s, k)
  <1>1. Len(s) \in Nat /\ Len(t) \in Nat /\ k \in Nat /\ k <= Len(s)
    BY LenProperties
  <1>2. /\ st \in Seq(Byte) /\ Len(st) = Len(s) + Len(t)
        /\ \A i \in 1 .. Len(s) + Len(t) : st[i] = IF i <= Len(s) THEN s[i] ELSE t[i - Len(s)]
    BY ConcatProperties
  <1>3. /\ rest \in Seq(Byte) /\ Len(rest) = Len(s) - k
        /\ \A i \in 1 .. Len(s) - k : rest[i] = s[k + i]
    BY AfterElements
  <1>. HIDE DEF st, rest
  <1>4. k \in 0 .. Len(st)
    BY <1>1, <1>2
  <1>5. /\ After(st, k) \in Seq(Byte) /\ Len(After(st, k)) = Len(st) - k
        /\ \A i \in 1 .. Len(st) - k : After(st, k)[i] = st[k + i]
    BY <1>2, <1>4, AfterElements
  <1>6. /\ rest \o t \in Seq(Byte) /\ Len(rest \o t) = Len(rest) + Len(t)
        /\ \A i \in 1 .. Len(rest) + Len(t) :
             (rest \o t)[i] = IF i <= Len(rest) THEN rest[i] ELSE t[i - Len(rest)]
    BY <1>3, ConcatProperties
  <1>7. Len(After(st, k)) = Len(rest \o t)
    BY <1>1, <1>2, <1>3, <1>5, <1>6
  <1>8. ASSUME NEW i \in 1 .. Len(After(st, k)) PROVE After(st, k)[i] = (rest \o t)[i]
    <2>1. /\ i \in 1 .. Len(st) - k /\ k + i \in 1 .. Len(s) + Len(t)
          /\ i \in 1 .. Len(rest) + Len(t)
      BY <1>1, <1>2, <1>3, <1>5
    <2>2. After(st, k)[i] = IF k + i <= Len(s) THEN s[k + i] ELSE t[(k + i) - Len(s)]
      BY <1>2, <1>5, <2>1
    <2>3. (rest \o t)[i] = IF i <= Len(rest) THEN rest[i] ELSE t[i - Len(rest)]
      BY <1>6, <2>1
    <2>4. CASE k + i <= Len(s)
      <3>1. i <= Len(rest) /\ i \in 1 .. Len(s) - k
        BY <1>1, <1>3, <2>1, <2>4
      <3>. QED  BY <1>3, <2>2, <2>3, <2>4, <3>1
    <2>5. CASE ~(k + i <= Len(s))
      <3>1. ~(i <= Len(rest)) /\ (k + i) - Len(s) = i - Len(rest)
        BY <1>1, <1>3, <2>1, <2>5
      <3>. QED  BY <2>2, <2>3, <2>5, <3>1
    <2>. QED  BY <2>4, <2>5
  <1>9. After(st, k) = rest \o t
    BY <1>5, <1>6, <1>7, <1>8, SeqEqual
  <1>. QED  BY <1>9 DEF st, rest

\* Taking all of the first of two sequences and k more takes k from the second.
LEMMA AfterInSecond ==
  ASSUME NEW s \in Seq(Byte), NEW t \in Seq(Byte), NEW k \in 0 .. Len(t)
  PROVE  After(s \o t, Len(s) + k) = After(t, k)
  <1> DEFINE st == s \o t
  <1>1. Len(s) \in Nat /\ Len(t) \in Nat /\ k \in Nat /\ k <= Len(t)
    BY LenProperties
  <1>2. /\ st \in Seq(Byte) /\ Len(st) = Len(s) + Len(t)
        /\ \A i \in 1 .. Len(s) + Len(t) : st[i] = IF i <= Len(s) THEN s[i] ELSE t[i - Len(s)]
    BY ConcatProperties
  <1>. HIDE DEF st
  <1>3. Len(s) + k \in 0 .. Len(st)
    BY <1>1, <1>2
  <1>4. /\ After(st, Len(s) + k) \in Seq(Byte)
        /\ Len(After(st, Len(s) + k)) = Len(st) - (Len(s) + k)
        /\ \A i \in 1 .. Len(st) - (Len(s) + k) : After(st, Len(s) + k)[i] = st[(Len(s) + k) + i]
    BY <1>2, <1>3, AfterElements
  <1>5. /\ After(t, k) \in Seq(Byte) /\ Len(After(t, k)) = Len(t) - k
        /\ \A i \in 1 .. Len(t) - k : After(t, k)[i] = t[k + i]
    BY AfterElements
  <1>6. Len(After(st, Len(s) + k)) = Len(After(t, k))
    BY <1>1, <1>2, <1>4, <1>5
  <1>7. ASSUME NEW i \in 1 .. Len(After(st, Len(s) + k))
        PROVE  After(st, Len(s) + k)[i] = After(t, k)[i]
    <2>1. /\ i \in 1 .. Len(st) - (Len(s) + k) /\ i \in 1 .. Len(t) - k
          /\ (Len(s) + k) + i \in 1 .. Len(s) + Len(t) /\ ~((Len(s) + k) + i <= Len(s))
          /\ ((Len(s) + k) + i) - Len(s) = k + i
      BY <1>1, <1>2, <1>4
    <2>. QED  BY <1>2, <1>4, <1>5, <2>1
  <1>8. After(st, Len(s) + k) = After(t, k)
    BY <1>4, <1>5, <1>6, <1>7, SeqEqual
  <1>. QED  BY <1>8 DEF st

\* Taking k, and then j more.
LEMMA AfterAfter ==
  ASSUME NEW s \in Seq(Byte), NEW k \in 0 .. Len(s), NEW j \in 0 .. Len(s) - k
  PROVE  After(After(s, k), j) = After(s, k + j)
  <1> DEFINE rest == After(s, k)
  <1>1. Len(s) \in Nat /\ k \in Nat /\ k <= Len(s)
    BY LenProperties
  <1>2. j \in Nat /\ j <= Len(s) - k
    BY <1>1
  <1>3. /\ rest \in Seq(Byte) /\ Len(rest) = Len(s) - k
        /\ \A i \in 1 .. Len(s) - k : rest[i] = s[k + i]
    BY AfterElements
  <1>. HIDE DEF rest
  <1>4. k + j \in 0 .. Len(s) /\ j \in 0 .. Len(rest)
    BY <1>1, <1>2, <1>3
  <1>5. /\ After(rest, j) \in Seq(Byte) /\ Len(After(rest, j)) = Len(rest) - j
        /\ \A i \in 1 .. Len(rest) - j : After(rest, j)[i] = rest[j + i]
    BY <1>3, <1>4, AfterElements
  <1>6. /\ After(s, k + j) \in Seq(Byte) /\ Len(After(s, k + j)) = Len(s) - (k + j)
        /\ \A i \in 1 .. Len(s) - (k + j) : After(s, k + j)[i] = s[(k + j) + i]
    BY <1>4, AfterElements
  <1>7. Len(After(rest, j)) = Len(After(s, k + j))
    <2>1. Len(After(rest, j)) = (Len(s) - k) - j
      BY <1>3, <1>5
    <2>2. (Len(s) - k) - j = Len(s) - (k + j)
      BY <1>1, <1>2
    <2>. QED  BY <1>6, <2>1, <2>2
  <1>8. ASSUME NEW i \in 1 .. Len(After(rest, j)) PROVE After(rest, j)[i] = After(s, k + j)[i]
    <2>1. /\ i \in 1 .. Len(rest) - j /\ i \in 1 .. Len(s) - (k + j)
          /\ j + i \in 1 .. Len(s) - k /\ k + (j + i) = (k + j) + i
      BY <1>1, <1>2, <1>3, <1>5
    <2>. QED  BY <1>3, <1>5, <1>6, <2>1
  <1>9. After(rest, j) = After(s, k + j)
    BY <1>5, <1>6, <1>7, <1>8, SeqEqual
  <1>. QED  BY <1>9 DEF rest

-----------------------------------------------------------------------------
\* What remove_prefix(m) has made of the buffers whose bytes are all: they are
\* too few and gone, or what is kept of them is what follows the first m bytes.
RemoveRight(done, all, m) ==
  /\ done \in [n : Nat, list : Seq(BufferType)]
  /\ \/ done.n # 0 /\ done.list = <<>> /\ m = Len(all) + done.n
     \/ done.n = 0 /\ m <= Len(all) /\ concatenate(done.list) = After(all, m)

\* A buffer that loses n of its bytes keeps the others.
LEMMA BufferRemovePrefix ==
  ASSUME NEW buf \in BufferType, NEW m \in Nat, m < Len(str(buf))
  PROVE  /\ buffer_remove_prefix(buf, m) \in BufferType
         /\ str(buffer_remove_prefix(buf, m)) = After(str(buf), m)
  <1> DEFINE so == buf.starting_offset
             st == buf.storage
  <1>1. st \in Seq(Byte) /\ so \in Nat
    BY DEF BufferType
  <1>2. Len(st) \in Nat
    BY <1>1, LenProperties
  <1>3. Len(str(buf)) = IF so + 1 <= Len(st) THEN Len(st) - so ELSE 0
    BY StrType
  <1>. HIDE DEF so, st
  <1>4. so + 1 <= Len(st) /\ so + m < Len(st) /\ so + m \in Nat
        /\ so \in 0 .. Len(st) /\ m \in 0 .. Len(st) - so
    BY <1>1, <1>2, <1>3
  <1>5. so + m # Len(st)
    BY <1>2, <1>4
  <1>6. buffer_remove_prefix(buf, m) = [storage |-> st, starting_offset |-> so + m]
    BY <1>5 DEF buffer_remove_prefix, so, st
  <1>7. [storage |-> st, starting_offset |-> so + m] \in BufferType
    BY <1>1, <1>4 DEF BufferType
  <1>8. str(buffer_remove_prefix(buf, m)) = After(st, so + m)
    <2> DEFINE cut == buffer_remove_prefix(buf, m)
    <2>1. cut.storage = st /\ cut.starting_offset = so + m
      BY <1>6
    <2>. HIDE DEF cut
    <2>2. str(cut) = SubSeq(st, (so + m) + 1, Len(st))
      BY <2>1 DEF str
    <2>. QED  BY <2>2 DEF After, cut
  <1>9. str(buf) = After(st, so)
    BY DEF str, After, st, so
  <1>10. After(After(st, so), m) = After(st, so + m)
    BY <1>1, <1>4, AfterAfter
  <1>. QED  BY <1>6, <1>7, <1>8, <1>9, <1>10

\* One buffer more in the loop of remove_prefix().
LEMMA RemoveFromKeeps ==
  ASSUME NEW all \in Seq(Byte), NEW m \in Nat, NEW done, NEW buf \in BufferType,
         RemoveRight(done, all, m)
  PROVE  RemoveRight(RemoveFrom(done, buf), all \o str(buf), m)
  <1> DEFINE s == str(buf)
             both == all \o s
  <1>1. done.n \in Nat /\ done.list \in Seq(BufferType)
    BY DEF RemoveRight
  <1>2. s \in Seq(Byte) /\ Len(s) \in Nat /\ Len(all) \in Nat
    BY StrType, LenProperties
  <1>3. both \in Seq(Byte) /\ Len(both) = Len(all) + Len(s)
    BY <1>2, ConcatProperties
  <1>. HIDE DEF s, both
  <1>4. CASE done.n = 0
    <2>1. m <= Len(all) /\ concatenate(done.list) = After(all, m)
      BY <1>4 DEF RemoveRight
    <2>2. RemoveFrom(done, buf) = [n |-> 0, list |-> Append(done.list, buf)]
      BY <1>4 DEF RemoveFrom
    <2>3. Append(done.list, buf) \in Seq(BufferType)
      BY <1>1, AppendProperties
    <2>4. concatenate(Append(done.list, buf)) = After(all, m) \o s
      BY <1>1, <2>1, ConcatenateAppend DEF s
    <2>5. m \in 0 .. Len(all) /\ m <= Len(both)
      BY <1>2, <1>3, <2>1
    <2>6. After(all, m) \o s = After(both, m)
      BY <1>2, <2>5, AfterInFirst DEF both
    <2>7. RemoveRight([n |-> 0, list |-> Append(done.list, buf)], both, m)
      BY <2>3, <2>4, <2>5, <2>6 DEF RemoveRight
    <2>. QED  BY <2>2, <2>7 DEF both, s
  <1>5. CASE done.n # 0 /\ done.n < Len(s)
    <2> DEFINE cut == buffer_remove_prefix(buf, done.n)
    <2>1. done.list = <<>> /\ m = Len(all) + done.n
      BY <1>5 DEF RemoveRight
    <2>2. RemoveFrom(done, buf) = [n |-> 0, list |-> Append(<<>>, cut)]
      BY <1>5, <2>1 DEF RemoveFrom, s
    <2>3. cut \in BufferType /\ str(cut) = After(s, done.n)
      BY <1>1, <1>5, BufferRemovePrefix DEF s
    <2>. HIDE DEF cut
    <2>4. <<>> \in Seq(BufferType)
      BY EmptySeq
    <2>5. Append(<<>>, cut) \in Seq(BufferType)
      BY <2>3, <2>4, AppendProperties
    <2>6. concatenate(Append(<<>>, cut)) = concatenate(<<>>) \o str(cut)
      BY <2>3, <2>4, ConcatenateAppend
    <2>7. str(cut) \in Seq(Byte)
      BY <2>3, StrType
    <2>8. <<>> \o str(cut) = str(cut)
      BY <2>7, ConcatEmptySeq
    <2>9. done.n \in 0 .. Len(s) /\ m <= Len(both)
      BY <1>1, <1>2, <1>3, <1>5, <2>1
    <2>10. After(both, m) = After(s, done.n)
      BY <1>2, <2>1, <2>9, AfterInSecond DEF both
    <2>11. concatenate(Append(<<>>, cut)) = After(both, m)
      BY <2>3, <2>6, <2>8, <2>10, ConcatenateEmpty
    <2>12. RemoveRight([n |-> 0, list |-> Append(<<>>, cut)], both, m)
      BY <2>5, <2>9, <2>11 DEF RemoveRight
    <2>. QED  BY <2>2, <2>12 DEF both, s
  <1>6. CASE done.n # 0 /\ ~(done.n < Len(s))
    <2>1. done.list = <<>> /\ m = Len(all) + done.n
      BY <1>6 DEF RemoveRight
    <2>2. RemoveFrom(done, buf) = [n |-> done.n - Len(s), list |-> <<>>]
      BY <1>6, <2>1 DEF RemoveFrom, s
    <2>3. done.n - Len(s) \in Nat /\ m = Len(both) + (done.n - Len(s))
      BY <1>1, <1>2, <1>3, <1>6, <2>1
    <2>4. <<>> \in Seq(BufferType)
      BY EmptySeq
    <2>5. ASSUME done.n - Len(s) = 0
          PROVE  m <= Len(both) /\ concatenate(<<>>) = After(both, m)
      <3>1. m = Len(both) /\ Len(both) \in Nat /\ m <= Len(both)
        BY <1>2, <1>3, <2>3, <2>5
      <3>2. m + 1 \in Int /\ Len(both) \in Int /\ Len(both) < m + 1
        BY <3>1
      <3>3. After(both, m) = <<>>
        BY <3>2, SubSeqEmpty DEF After
      <3>. QED  BY <3>1, <3>3, ConcatenateEmpty
    <2>6. RemoveRight([n |-> done.n - Len(s), list |-> <<>>], both, m)
      BY <2>3, <2>4, <2>5 DEF RemoveRight
    <2>. QED  BY <2>2, <2>6 DEF both, s
  <1>. QED  BY <1>4, <1>5, <1>6

\* remove_prefix(m) takes the first m bytes, and has taken them all when the
\* list has as many.
LEMMA RemovePrefix ==
  ASSUME NEW bufs \in Seq(BufferType), NEW m \in Nat, m <= Len(concatenate(bufs))
  PROVE  /\ list_remove_prefix(bufs, m).n = 0
         /\ list_remove_prefix(bufs, m).list \in Seq(BufferType)
         /\ concatenate(list_remove_prefix(bufs, m).list) = After(concatenate(bufs), m)
  <1> DEFINE L == Len(bufs)
             S == [n : Nat, list : Seq(BufferType)]
             start == [n |-> m, list |-> <<>>]
             step == [i \in 1 .. L |-> [done \in S |-> RemoveFrom(done, bufs[i])]]
             Removes(h) == h = [i \in 0 .. L |-> IF i = 0 THEN start ELSE RemoveFrom(h[i - 1], bufs[i])]
  <1>1. L \in Nat /\ \A i \in 1 .. L : bufs[i] \in BufferType
    BY LenProperties, ElementOfSeq
  <1>2. list_remove_prefix(bufs, m) = (CHOOSE h : Removes(h))[L]
    BY DEF list_remove_prefix
  <1>3. PICK f \in [0 .. L -> Seq(Byte)] :
           /\ f[0] = <<>> /\ f[L] = concatenate(bufs)
           /\ \A i \in 1 .. L : f[i] = f[i - 1] \o str(bufs[i])
    BY ConcatenateProperties
  <1>4. start \in S
    BY EmptySeq
  <1>. HIDE DEF L
  <1>5. ASSUME NEW i \in 1 .. L, NEW done \in S PROVE RemoveFrom(done, bufs[i]) \in S
    <2>1. bufs[i] \in BufferType
      BY <1>1
    <2>2. Len(str(bufs[i])) \in Nat
      BY <2>1, StrType, LenProperties
    <2>3. done.n \in Nat /\ done.list \in Seq(BufferType)
      OBVIOUS
    <2>4. CASE done.n = 0
      BY <2>1, <2>3, <2>4, AppendProperties DEF RemoveFrom
    <2>5. CASE done.n # 0 /\ done.n < Len(str(bufs[i]))
      <3>1. buffer_remove_prefix(bufs[i], done.n) \in BufferType
        BY <2>1, <2>3, <2>5, BufferRemovePrefix
      <3>. QED  BY <2>3, <2>5, <3>1, AppendProperties DEF RemoveFrom
    <2>6. CASE done.n # 0 /\ ~(done.n < Len(str(bufs[i])))
      <3>1. done.n - Len(str(bufs[i])) \in Nat
        BY <2>2, <2>3, <2>6
      <3>. QED  BY <2>3, <2>6, <3>1 DEF RemoveFrom
    <2>. QED  BY <2>4, <2>5, <2>6
  <1>. HIDE DEF S, start
  <1>6. step \in [1 .. L -> [S -> S]]
    BY <1>5
  <1>7. \A i \in 1 .. L, done \in S : step[i][done] = RemoveFrom(done, bufs[i])
    OBVIOUS
  <1>. HIDE DEF step
  <1>8. PICK g : Runs(g, S, start, step, L)
    <2>1. Loops(S, start, step, L)
      BY <1>1, <1>4, <1>6 DEF Loops
    <2>. QED  BY <2>1, Recursion
  <1>9. /\ \A i \in 0 .. L : i = 0 \/ i \in 1 .. L
        /\ \A i \in 1 .. L : i - 1 \in 0 .. L /\ i \in 0 .. L /\ i # 0
        /\ 0 \in 0 .. L /\ L \in 0 .. L
    BY <1>1
  <1>10. /\ g \in [0 .. L -> S] /\ g[0] = start
         /\ \A i \in 1 .. L : g[i] = RemoveFrom(g[i - 1], bufs[i])
    BY <1>7, <1>8, <1>9 DEF Runs
  <1>11. Removes(g)
    <2>1. \A i \in 0 .. L : g[i] = IF i = 0 THEN start ELSE RemoveFrom(g[i - 1], bufs[i])
      BY <1>9, <1>10
    <2>. QED  BY <1>10, <2>1
  <1>12. PICK h : Removes(h) /\ list_remove_prefix(bufs, m) = h[L]
    BY <1>2, <1>11
  <1>13. /\ h[0] = start
         /\ \A i \in 1 .. L : h[i] = RemoveFrom(h[i - 1], bufs[i])
    <2>1. \A i \in 0 .. L : h[i] = IF i = 0 THEN start ELSE RemoveFrom(h[i - 1], bufs[i])
      BY <1>12
    <2>. QED  BY <1>9, <2>1
  <1> DEFINE T == {i \in Nat : i <= L => RemoveRight(h[i], f[i], m)}
  <1>14. 0 \in T
    <2>1. start \in [n : Nat, list : Seq(BufferType)] /\ start.n = m /\ start.list = <<>>
      BY <1>4 DEF start, S
    <2>2. Len(<<>>) = 0 /\ <<>> \in Seq(Byte)
      BY EmptySeq
    <2>3. m = Len(<<>>) + m /\ (m = 0 => m <= Len(<<>>))
      BY <2>2
    <2>4. m = 0 => After(<<>>, m) = <<>>
      BY <2>2, SubSeqEmpty DEF After
    <2>5. RemoveRight(start, <<>>, m)
      BY <2>1, <2>3, <2>4, ConcatenateEmpty DEF RemoveRight
    <2>. QED  BY <1>3, <1>13, <2>5
  <1>15. ASSUME NEW k \in Nat, k \in T PROVE k + 1 \in T
    <2>1. k + 1 \in Nat /\ (k + 1) - 1 = k
      OBVIOUS
    <2>2. ASSUME k + 1 <= L PROVE RemoveRight(h[k + 1], f[k + 1], m)
      <3>1. k <= L /\ k + 1 \in 1 .. L /\ k \in 0 .. L
        BY <1>1, <2>2
      <3>2. RemoveRight(h[k], f[k], m)
        BY <1>15, <3>1
      <3>3. f[k] \in Seq(Byte) /\ bufs[k + 1] \in BufferType
        BY <1>1, <1>3, <3>1
      <3>4. h[k + 1] = RemoveFrom(h[k], bufs[k + 1]) /\ f[k + 1] = f[k] \o str(bufs[k + 1])
        BY <1>3, <1>13, <2>1, <3>1
      <3>. QED  BY <3>2, <3>3, <3>4, RemoveFromKeeps
    <2>. QED  BY <2>1, <2>2
  <1>. HIDE DEF T
  <1>16. L \in T
    BY <1>1, <1>14, <1>15, AllNumbers
  <1>17. RemoveRight(h[L], concatenate(bufs), m)
    <2>1. L <= L
      BY <1>1
    <2>. QED  BY <1>3, <1>16, <2>1 DEF T
  <1>18. Len(concatenate(bufs)) \in Nat
    BY ConcatenateType, LenProperties
  <1>19. h[L].n = 0
    <2>1. h[L].n \in Nat
      BY <1>17 DEF RemoveRight
    <2>2. h[L].n # 0 => m = Len(concatenate(bufs)) + h[L].n
      BY <1>17 DEF RemoveRight
    <2>. QED  BY <1>18, <2>1, <2>2
  <1>. QED  BY <1>12, <1>17, <1>19 DEF RemoveRight

-----------------------------------------------------------------------------
\* The stream's invariant, and buffers that hold the stream's bytes.
BuffersInv ==
  /\ IInv
  /\ list \in Seq(BufferType)
  /\ concatenate(list) = stream.buffer

\* write() appends one buffer, with what it takes.
LEMMA BuffersWriteKeeps ==
  ASSUME BuffersInv, NEW data \in Seq(Byte), BuffersWrite(data)
  PROVE  list' \in Seq(BufferType) /\ concatenate(list') = stream'.buffer
  <1> DEFINE len == AtMost(Len(data), remaining_capacity(stream))
             buf == Buffer(Taken(data))
  <1>1. list \in Seq(BufferType) /\ concatenate(list) = stream.buffer
    BY DEF BuffersInv
  <1>2. Len(data) \in Nat /\ remaining_capacity(stream) \in Nat
    BY LenProperties DEF BuffersInv, IInv, TypeOK
  <1>3. len \in 0 .. Len(data)
    BY <1>2, AtMostProperties
  <1>4. Taken(data) \in Seq(Byte)
    BY <1>3, PrefixProperties DEF Taken
  <1>5. buf \in BufferType
    BY <1>4 DEF Buffer, BufferType
  <1>6. str(buf) = Taken(data)
    <2>1. buf.storage = Taken(data) /\ buf.starting_offset + 1 = 1
      BY DEF Buffer
    <2>. HIDE DEF buf
    <2>2. str(buf) = SubSeq(Taken(data), 1, Len(Taken(data)))
      BY <2>1 DEF str
    <2>. QED  BY <1>4, <2>2, SubSeqFull
  <1>7. list' = list \o <<buf>>
    BY DEF BuffersWrite, append
  <1>8. stream'.buffer = stream.buffer \o Taken(data)
    BY DEF BuffersWrite, Write, write, Taken, BuffersInv, IInv, TypeOK
  <1>. HIDE DEF buf
  <1>9. list' = Append(list, buf)
    BY <1>1, <1>5, <1>7, AppendIsConcat
  <1>10. list' \in Seq(BufferType)
    BY <1>1, <1>5, <1>9, AppendProperties
  <1>11. concatenate(list') = concatenate(list) \o str(buf)
    BY <1>1, <1>5, <1>9, ConcatenateAppend
  <1>. QED  BY <1>1, <1>6, <1>8, <1>10, <1>11

\* A read discards from the list what pop_output() takes from the stream.
LEMMA BuffersReadKeeps ==
  ASSUME BuffersInv, NEW len \in Nat, BuffersRead(len)
  PROVE  list' \in Seq(BufferType) /\ concatenate(list') = stream'.buffer
  <1> DEFINE k == AtMost(len, buffer_size(stream))
  <1>1. /\ list \in Seq(BufferType) /\ concatenate(list) = stream.buffer
        /\ stream.buffer \in Seq(Byte)
    BY DEF BuffersInv, IInv, TypeOK
  <1>2. Len(stream.buffer) \in Nat
    BY <1>1, LenProperties
  <1>3. list_size(list) = buffer_size(stream)
    BY <1>1, SizeIsLength DEF buffer_size
  <1>4. k \in Nat /\ k <= Len(concatenate(list))
    <2>1. k \in 0 .. Len(stream.buffer)
      BY <1>2, AtMostProperties DEF buffer_size
    <2>. HIDE DEF k
    <2>. QED  BY <1>1, <1>2, <2>1
  <1>5. list' = list_remove_prefix(list, k).list
    BY <1>3 DEF BuffersRead
  <1>6. stream'.buffer = SubSeq(stream.buffer, k + 1, Len(stream.buffer))
    BY DEF BuffersRead, Read, pop_output, BuffersInv, IInv, TypeOK
  <1>. HIDE DEF k
  <1>7. /\ list_remove_prefix(list, k).list \in Seq(BufferType)
        /\ concatenate(list_remove_prefix(list, k).list) = After(concatenate(list), k)
    BY <1>1, <1>4, RemovePrefix
  <1>. QED  BY <1>1, <1>5, <1>6, <1>7 DEF After

\* A new list of buffers holds what a new stream does.
LEMMA BuffersInitHolds == BuffersInit => BuffersInv
  <1>. SUFFICES ASSUME BuffersInit PROVE BuffersInv
    OBVIOUS
  <1>1. IInv
    BY InitHolds DEF BuffersInit
  <1>2. list = <<>> /\ <<>> \in Seq(BufferType)
    BY EmptySeq DEF BuffersInit
  <1>3. stream.buffer = <<>>
    BY DEF BuffersInit, Init, NewByteStream
  <1>. QED  BY <1>1, <1>2, <1>3, ConcatenateEmpty DEF BuffersInv

\* Every call preserves it.
LEMMA BuffersNextKeeps == BuffersInv /\ [BuffersNext]_<<vars, list>> => BuffersInv'
  <1>. SUFFICES ASSUME BuffersInv, [BuffersNext]_<<vars, list>> PROVE BuffersInv'
    OBVIOUS
  <1>0. IInv
    BY DEF BuffersInv
  <1>1. ASSUME NEW count \in 0 .. MaxWrite, NEW data \in [1 .. count -> Byte],
               BuffersWrite(data)
        PROVE  BuffersInv'
    <2>1. data \in Seq(Byte)
      BY DataIsString
    <2>2. IInv'
      BY <1>0, <1>1, <2>1, WriteStep DEF BuffersWrite
    <2>. QED  BY <1>1, <2>1, <2>2, BuffersWriteKeeps DEF BuffersInv
  <1>2. ASSUME NEW count \in 0 .. MaxWrite, BuffersRead(count) PROVE BuffersInv'
    <2>1. count \in Nat
      BY StreamAssumption
    <2>2. IInv'
      BY <1>0, <1>2, <2>1, ReadStep DEF BuffersRead
    <2>. QED  BY <1>2, <2>1, <2>2, BuffersReadKeeps DEF BuffersInv
  <1>3. CASE (EndInput \/ SetError) /\ UNCHANGED list
    <2>1. IInv'
      BY <1>0, <1>3, NextKeeps DEF Next
    <2>2. stream'.buffer = stream.buffer /\ list' = list
      BY <1>0, <1>3 DEF EndInput, SetError, end_input, set_error, IInv, TypeOK
    <2>. QED  BY <2>1, <2>2 DEF BuffersInv
  <1>4. CASE UNCHANGED <<vars, list>>
    <2>1. IInv'
      BY <1>0, <1>4, NextKeeps
    <2>2. stream' = stream /\ list' = list
      BY <1>4 DEF vars
    <2>. QED  BY <2>1, <2>2 DEF BuffersInv
  <1>. QED  BY <1>1, <1>2, <1>3, <1>4 DEF BuffersNext

\* However writes and reads cut the stream into buffers, the BufferList holds the
\* bytes of the stream in order, size() counts them, and remove_prefix() never
\* runs out of buffers in a read.
THEOREM BuffersHoldStreamHolds == BuffersSpec => []BuffersHoldStream
  <1>1. BuffersInv => BuffersHoldStream
    <2>. SUFFICES ASSUME BuffersInv PROVE BuffersHoldStream
      OBVIOUS
    <2>1. /\ list \in Seq(BufferType) /\ concatenate(list) = stream.buffer
          /\ stream.buffer \in Seq(Byte)
      BY DEF BuffersInv, IInv, TypeOK
    <2>2. list_size(list) = Len(stream.buffer)
      BY <2>1, SizeIsLength
    <2>3. ASSUME NEW len \in 0 .. MaxWrite
          PROVE  list_remove_prefix(list, AtMost(len, list_size(list))).n = 0
      <3> DEFINE k == AtMost(len, list_size(list))
      <3>1. len \in Nat /\ list_size(list) \in Nat
        BY <2>1, <2>2, LenProperties, StreamAssumption
      <3>2. k \in 0 .. list_size(list)
        BY <3>1, AtMostProperties
      <3>. HIDE DEF k
      <3>3. k \in Nat /\ k <= Len(concatenate(list))
        BY <2>1, <2>2, <3>1, <3>2
      <3>4. list_remove_prefix(list, k).n = 0
        BY <2>1, <3>3, RemovePrefix
      <3>. QED  BY <3>4 DEF k
    <2>. QED  BY <2>1, <2>2, <2>3 DEF BuffersHoldStream, buffer_size
  <1>. QED  BY <1>1, BuffersInitHolds, BuffersNextKeeps, PTL DEF BuffersSpec

\* With its buffers the stream is still the ByteStream of the other theorems.
THEOREM BuffersAreByteStream == BuffersSpec => Spec
  <1>1. BuffersInit => Init
    BY DEF BuffersInit
  <1>2. [BuffersNext]_<<vars, list>> => [Next]_vars
    BY DEF BuffersNext, Next, BuffersWrite, BuffersRead, vars
  <1>. QED  BY <1>1, <1>2, PTL DEF BuffersSpec, Spec
=============================================================================
