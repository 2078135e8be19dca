-------------------------- MODULE TCPSender_proofs --------------------------
(***************************************************************************)
(* What a TCPSender has in flight is what it has outstanding, each segment *)
(* carries its bytes of the stream, the timer guards it and nothing is     *)
(* left waiting, whatever the peer answers.  All this for every stream,    *)
(* capacity, segment size and timeout.                                     *)
(***************************************************************************)
EXTENDS TCPSenderSpec, WrappingInt32_lemmas, SequenceTheorems, WellFoundedInduction

Byte == {Stream[i] : i \in DOMAIN Stream}

Segments ==
  [seqno : SeqNos, ackno : {0}, win : {0}, syn : BOOLEAN, ack : {FALSE},
   fin : BOOLEAN, rst : {FALSE}, payload : Seq(Byte)]

OutStream ==
  [buffer : Seq(Byte), capacity : {Capacity}, read_count : 0 .. N,
   write_count : 0 .. N, input_ended : BOOLEAN, error : {FALSE}]

SenderType ==
  [isn : SeqNos, segments_out : Seq(Segments), stream : OutStream,
   next_seqno : 0 .. N + 2, segments_outstanding : Seq(Segments),
   bytes_in_flight : 0 .. N + 2, receiver_window_size : 0 .. MaxWindow,
   consecutive_retransmissions : Nat, rto : Nat, tick : Nat,
   timer_running : BOOLEAN, syn : BOOLEAN, fin : BOOLEAN]

\* The segment holds what belongs at the absolute sequence number a.
Carries(seg, isn, a) ==
  /\ seg.seqno = wrap(a, isn)
  /\ length_in_sequence_space(seg) >= 1
  /\ seg.syn <=> a = 0
  /\ ~seg.syn => seg.payload = SubSeq(Stream, a, a + Len(seg.payload) - 1)
  /\ seg.fin <=> a + length_in_sequence_space(seg) = N + 2

\* at gives the absolute sequence numbers where the outstanding segments start,
\* and, last, the one that is next.
Queued(s, at) ==
  LET L == Len(s.segments_outstanding)
  IN  /\ at \in [1 .. L + 1 -> 0 .. s.next_seqno]
      /\ at[1] = s.next_seqno - s.bytes_in_flight
      /\ at[L + 1] = s.next_seqno
      /\ \A i, j \in 1 .. L + 1 : i < j => at[i] < at[j]
      /\ \A i \in 1 .. L :
           /\ at[i + 1] = at[i] + length_in_sequence_space(s.segments_outstanding[i])
           /\ Carries(s.segments_outstanding[i], s.isn, at[i])

\* What was handed out lies before next_seqno.
HandedOut(s) ==
  \A i \in 1 .. Len(s.segments_out) : \E a \in 0 .. s.next_seqno :
    /\ Carries(s.segments_out[i], s.isn, a)
    /\ a + length_in_sequence_space(s.segments_out[i]) <= s.next_seqno

Timed(s) ==
  /\ s.timer_running <=> s.segments_outstanding # <<>>
  /\ ~s.timer_running => s.consecutive_retransmissions = 0
  /\ s.timer_running => s.rto = BackedOff(s.consecutive_retransmissions)

\* next_seqno counts the SYN, what was read from the stream and the FIN.
Counted(s) ==
  LET st == s.stream
  IN  /\ st.read_count <= st.write_count
      /\ st.write_count - st.read_count <= Capacity
      /\ st.buffer = SubSeq(Stream, st.read_count + 1, st.write_count)
      /\ st.input_ended => st.write_count = N
      /\ s.fin => s.syn /\ st.input_ended /\ st.read_count = N
      /\ ~s.syn => st.read_count = 0
      /\ s.next_seqno = (IF s.syn THEN 1 ELSE 0) + st.read_count
                          + (IF s.fin THEN 1 ELSE 0)

\* Nothing is left to be sent.
AllSent(s) ==
  s.syn => buffer_empty(s.stream) /\ (input_ended(s.stream) => s.fin)

\* Nothing to send, or somebody to wait for.
Settled(s) == s.segments_outstanding = <<>> => AllSent(s)

Sends(s, at) ==
  /\ s \in SenderType
  /\ Queued(s, at)
  /\ HandedOut(s)
  /\ Timed(s)

Positions(s) == [1 .. Len(s.segments_outstanding) + 1 -> 0 .. s.next_seqno]

\* An announced window of zero still allows a probe of one byte.
Room(window_size) == IF window_size = 0 THEN 1 ELSE window_size

\* The inductive invariant of TCPSenderSpec.
IInv ==
  /\ Counted(sender) /\ Settled(sender)
  /\ \E at \in Positions(sender) : Sends(sender, at)

-----------------------------------------------------------------------------
\* A set of naturals that is not empty has a least member.
LEMMA LeastMember ==
  ASSUME NEW T, T \subseteq Nat, T # {}
  PROVE  \E x \in T : \A y \in T : x <= y
  <1>1. PICK x \in T : \A y \in T : ~ (<<y, x>> \in OpToRel(<, Nat))
    BY NatLessThanWellFounded, WFMin, Zenon
  <1>2. \A y \in T : y < x => <<y, x>> \in OpToRel(<, Nat)
    BY Zenon DEF OpToRel
  <1>3. \A y \in T : ~ (y < x)
    BY <1>1, <1>2
  <1>. QED  BY <1>3

\* Two functions on 0 .. n that agree at 0 and whose next value is determined
\* by the one before agree.
LEMMA AgreeByInduction ==
  ASSUME NEW n \in Nat, NEW g, NEW h, g[0] = h[0],
         \A k \in 1 .. n : g[k - 1] = h[k - 1] => g[k] = h[k]
  PROVE  g[n] = h[n]
  <1> DEFINE bad == {k \in 0 .. n : g[k] # h[k]}
  <1>1. SUFFICES ASSUME g[n] # h[n] PROVE FALSE
    OBVIOUS
  <1>2. bad \subseteq Nat /\ n \in bad
    BY <1>1
  <1>3. PICK x \in bad : \A y \in bad : x <= y
    BY <1>2, LeastMember, Zenon
  <1>4. x \in 0 .. n /\ g[x] # h[x]
    BY <1>3
  <1>5. x \in 1 .. n /\ x - 1 \in 0 .. n /\ ~ (x <= x - 1)
    BY <1>4
  <1>6. g[x - 1] = h[x - 1]
    BY <1>3, <1>5
  <1>. QED  BY <1>4, <1>5, <1>6

\* The lengths of segments that follow one another add up to the distance
\* between the first and the last sequence number.
LEMMA Telescopes ==
  ASSUME NEW segs, Len(segs) \in Nat, NEW at,
         \A i \in 1 .. Len(segs) + 1 : at[i] \in Int,
         \A i \in 1 .. Len(segs) : at[i + 1] = at[i] + length_in_sequence_space(segs[i]),
         \A i \in 1 .. Len(segs) : length_in_sequence_space(segs[i]) \in Nat
  PROVE  TotalLength(segs) = at[Len(segs) + 1] - at[1]
  <1> DEFINE L == Len(segs)
             len(k) == length_in_sequence_space(segs[k])
             g == [k \in 0 .. L |-> at[k + 1] - at[1]]
             Sum(f) == f = [k \in 0 .. L |-> IF k = 0 THEN 0 ELSE f[k - 1] + len(k)]
  <1>1. L \in Nat /\ \A k \in 1 .. L : len(k) \in Nat
    OBVIOUS
  <1>2. \A k \in 1 .. L : at[k + 1] = at[k] + len(k) /\ at[k] \in Int
    OBVIOUS
  <1>2a. at[1] \in Int
    OBVIOUS
  <1>3. TotalLength(segs) = (CHOOSE f : Sum(f))[L]
    BY DEF TotalLength
  <1>. HIDE DEF L, len
  <1>4. ASSUME NEW k \in 0 .. L
        PROVE  g[k] = IF k = 0 THEN 0 ELSE g[k - 1] + len(k)
    <2>1. CASE k = 0
      BY <2>1, <1>1, <1>2a
    <2>2. CASE k # 0
      <3>1. k \in 1 .. L /\ k - 1 \in 0 .. L /\ (k - 1) + 1 = k
        BY <2>2, <1>1
      <3>2. g[k] = at[k + 1] - at[1] /\ g[k - 1] = at[k] - at[1]
        BY <3>1
      <3>. QED  BY <2>2, <3>1, <3>2, <1>1, <1>2, <1>2a
    <2>. QED  BY <2>1, <2>2
  <1>5. Sum(g)
    BY <1>4, Zenon
  <1>6. PICK h : Sum(h) /\ TotalLength(segs) = h[L]
    BY <1>3, <1>5, Zenon
  <1>7. \A k \in 0 .. L : h[k] = IF k = 0 THEN 0 ELSE h[k - 1] + len(k)
    BY <1>6, Zenon
  <1>. HIDE DEF g
  <1>8. h[0] = g[0]
    BY <1>4, <1>7, <1>1
  <1>9. \A k \in 1 .. L : h[k - 1] = g[k - 1] => h[k] = g[k]
    <2>1. \A k \in 1 .. L : k \in 0 .. L /\ k # 0
      BY <1>1
    <2>. QED  BY <2>1, <1>4, <1>7
  <1>10. h[L] = g[L]
    BY <1>1, <1>8, <1>9, AgreeByInduction
  <1>11. g[L] = at[L + 1] - at[1]
    BY <1>1 DEF g
  <1>. QED  BY <1>6, <1>10, <1>11 DEF L

Doubles(f, n) == f = [k \in 0 .. n |-> IF k = 0 THEN RtTimeout ELSE 2 * f[k - 1]]

\* There is a table of the first n timeouts, for every n.
LEMMA DoublesExists == \A n \in Nat : \E f : Doubles(f, n)
  <1> DEFINE bad == {n \in Nat : ~ \E f : Doubles(f, n)}
  <1>1. SUFFICES ASSUME bad # {} PROVE FALSE
    OBVIOUS
  <1>2. bad \subseteq Nat
    OBVIOUS
  <1>3. PICK n \in bad : \A m \in bad : n <= m
    BY <1>1, <1>2, LeastMember, Zenon
  <1>4. n \in Nat /\ ~ \E f : Doubles(f, n)
    BY <1>3
  <1>5. n # 0
    <2>1. SUFFICES ASSUME n = 0 PROVE FALSE
      OBVIOUS
    <2> DEFINE g == [k \in 0 .. 0 |-> RtTimeout]
    <2>2. \A k \in 0 .. 0 : k = 0
      OBVIOUS
    <2>3. g = [k \in 0 .. 0 |-> IF k = 0 THEN RtTimeout ELSE 2 * g[k - 1]]
      BY <2>2
    <2>. QED  BY <2>1, <2>3, <1>4, Zenon DEF Doubles
  <1>6. n - 1 \in Nat /\ ~ (n <= n - 1)
    BY <1>4, <1>5
  <1>7. PICK f : Doubles(f, n - 1)
    BY <1>3, <1>6
  <1>8. \A k \in 0 .. n - 1 : f[k] = IF k = 0 THEN RtTimeout ELSE 2 * f[k - 1]
    BY <1>7 DEF Doubles
  <1> DEFINE g == [k \in 0 .. n |-> IF k = n THEN 2 * f[n - 1] ELSE f[k]]
  <1>9. ASSUME NEW k \in 0 .. n
        PROVE  g[k] = IF k = 0 THEN RtTimeout ELSE 2 * g[k - 1]
    <2>1. /\ k # n => k \in 0 .. n - 1
          /\ k # 0 => k - 1 \in 0 .. n /\ k - 1 # n
          /\ n # 0
      BY <1>4, <1>5
    <2>2. CASE k = n
      BY <2>1, <2>2
    <2>3. CASE k # n
      BY <2>1, <2>3, <1>8
    <2>. QED  BY <2>2, <2>3
  <1>10. g = [k \in 0 .. n |-> IF k = 0 THEN RtTimeout ELSE 2 * g[k - 1]]
    BY <1>9, Zenon
  <1>. QED  BY <1>4, <1>10, Zenon DEF Doubles

\* The timeout after one more retransmission is twice the one before.
LEMMA BackedOffProperties ==
  ASSUME NEW n \in Nat
  PROVE  BackedOff(0) = RtTimeout /\ BackedOff(n + 1) = 2 * BackedOff(n)
  <1>1. \A m \in Nat : \E f : Doubles(f, m) /\ BackedOff(m) = f[m]
    <2>. TAKE m \in Nat
    <2>1. BackedOff(m) = (CHOOSE f : Doubles(f, m))[m]
      BY DEF BackedOff, Doubles
    <2>. QED  BY <2>1, DoublesExists, Zenon
  <1>2. PICK f : Doubles(f, 0) /\ BackedOff(0) = f[0]
    BY <1>1
  <1>3. BackedOff(0) = RtTimeout
    BY <1>2 DEF Doubles
  <1>4. n + 1 \in Nat /\ (n + 1) - 1 = n
    OBVIOUS
  <1>5. PICK g : Doubles(g, n) /\ BackedOff(n) = g[n]
    BY <1>1
  <1>6. PICK h : Doubles(h, n + 1) /\ BackedOff(n + 1) = h[n + 1]
    BY <1>1, <1>4
  <1>7. \A k \in 0 .. n : g[k] = IF k = 0 THEN RtTimeout ELSE 2 * g[k - 1]
    BY <1>5 DEF Doubles
  <1>8. \A k \in 0 .. n + 1 : h[k] = IF k = 0 THEN RtTimeout ELSE 2 * h[k - 1]
    BY <1>6 DEF Doubles
  <1>9. /\ 0 \in 0 .. n /\ 0 \in 0 .. n + 1 /\ n + 1 \in 0 .. n + 1 /\ n + 1 # 0
        /\ \A k \in 1 .. n : k \in 0 .. n /\ k \in 0 .. n + 1 /\ k # 0
    OBVIOUS
  <1>10. g[0] = h[0] /\ \A k \in 1 .. n : g[k - 1] = h[k - 1] => g[k] = h[k]
    BY <1>7, <1>8, <1>9
  <1>11. g[n] = h[n]
    BY <1>10, AgreeByInduction
  <1>12. h[n + 1] = 2 * h[n]
    BY <1>4, <1>8, <1>9
  <1>. QED  BY <1>3, <1>5, <1>6, <1>11, <1>12

-----------------------------------------------------------------------------
\* The sender's numbers.
LEMMA SenderNumbers ==
  /\ N \in Nat /\ Stream \in Seq(Byte)
  /\ SeqMod \in Nat /\ SizeMod \in Nat /\ MaxWindow \in Nat
  /\ N + 2 < SeqMod \div 2 /\ N + 2 < SizeMod /\ MaxWindow < SizeMod
  /\ MAX_PAYLOAD_SIZE \in Nat /\ MAX_PAYLOAD_SIZE > 0
  <1>1. Stream \in Seq(Byte)
    BY SenderSpecAssumption DEF Byte
  <1>2. N \in Nat
    BY <1>1, LenProperties DEF N
  <1>3. 2 * (N + 2) < SeqMod /\ N + 2 < SizeMod
    BY SenderSpecAssumption DEF N
  <1>4. SeqMod \in Nat /\ SeqMod % 2 = 0
    BY SeqModAssumption
  <1>5. N + 2 < SeqMod \div 2
    BY <1>2, <1>3, <1>4
  <1>. QED  BY <1>1, <1>2, <1>3, <1>4, <1>5, SizeModAssumption, SenderAssumption, SenderSpecAssumption

\* Nothing the sender has sent is far from next_seqno: its sequence number can
\* be read back.
LEMMA ReadBack ==
  ASSUME NEW a \in 0 .. N + 2, NEW next \in 0 .. N + 2, NEW isn \in SeqNos
  PROVE  unwrap(wrap(a, isn), isn, next) = a
  <1>1. a \in Nat /\ next \in Nat /\ Distance(a, next) < SeqMod \div 2
    BY SenderNumbers DEF Distance
  <1>. QED  BY <1>1, NearSurvives

\* length_in_sequence_space() counts.
LEMMA SegmentLength ==
  ASSUME NEW seg \in Segments
  PROVE  length_in_sequence_space(seg) \in Nat
  <1>1. seg.payload \in Seq(Byte)
    BY DEF Segments
  <1>2. Len(seg.payload) \in Nat
    BY <1>1, LenProperties
  <1>3. \A n \in Nat : \A a, b \in {0, 1} : n + a + b \in Nat
    OBVIOUS
  <1>4. (IF seg.syn THEN 1 ELSE 0) \in {0, 1} /\ (IF seg.fin THEN 1 ELSE 0) \in {0, 1}
    OBVIOUS
  <1>. QED  BY <1>2, <1>3, <1>4, Zenon DEF length_in_sequence_space

\* What Queued says, in terms of what the code computes.
LEMMA QueuedEnds ==
  ASSUME NEW s, NEW at, s \in SenderType, Queued(s, at),
         NEW i \in 1 .. Len(s.segments_outstanding)
  PROVE  EndOf(s, s.segments_outstanding[i]) = at[i + 1]
  <1> DEFINE L == Len(s.segments_outstanding)
             seg == s.segments_outstanding[i]
  <1>1. /\ s.next_seqno \in 0 .. N + 2 /\ s.isn \in SeqNos
        /\ s.segments_outstanding \in Seq(Segments)
    BY DEF SenderType
  <1>2. L \in Nat /\ N \in Nat
    BY <1>1, LenProperties, SenderNumbers
  <1>3. /\ at \in [1 .. L + 1 -> 0 .. s.next_seqno]
        /\ at[i + 1] = at[i] + length_in_sequence_space(seg)
        /\ seg.seqno = wrap(at[i], s.isn)
    BY SMTT(20) DEF Queued, Carries
  <1>4. i \in 1 .. L + 1
    BY <1>2
  <1>5. at[i] \in 0 .. s.next_seqno
    BY <1>3, <1>4
  <1>6. at[i] \in 0 .. N + 2
    BY <1>1, <1>2, <1>5
  <1>7. unwrap(seg.seqno, s.isn, s.next_seqno) = at[i]
    BY <1>1, <1>3, <1>6, ReadBack
  <1>. QED  BY <1>3, <1>7 DEF EndOf

\* Nothing is in flight exactly when nothing is outstanding.
LEMMA InFlightOrNot ==
  ASSUME NEW s, NEW at, s \in SenderType, Queued(s, at)
  PROVE  s.bytes_in_flight = 0 <=> s.segments_outstanding = <<>>
  <1> DEFINE L == Len(s.segments_outstanding)
  <1>1. /\ s.next_seqno \in 0 .. N + 2 /\ s.bytes_in_flight \in 0 .. N + 2
        /\ s.segments_outstanding \in Seq(Segments)
    BY DEF SenderType
  <1>2. L \in Nat /\ N \in Nat /\ (L = 0 <=> s.segments_outstanding = <<>>)
    BY <1>1, LenProperties, EmptySeq, SenderNumbers
  <1>3. /\ at[1] = s.next_seqno - s.bytes_in_flight
        /\ at[L + 1] = s.next_seqno
        /\ \A i, j \in 1 .. L + 1 : i < j => at[i] < at[j]
    BY DEF Queued
  <1>. HIDE DEF L
  <1>4. CASE L = 0
    BY <1>1, <1>2, <1>3, <1>4
  <1>5. CASE L # 0
    <2>1. at[1] < at[L + 1]
      BY <1>2, <1>3, <1>5
    <2>. QED  BY <1>1, <1>2, <1>3, <1>5, <2>1
  <1>. QED  BY <1>4, <1>5

\* The positions of segments that follow those at at.
Then(s, at, segs, pos) ==
  [i \in 1 .. Len(s.segments_outstanding) + Len(segs) + 1 |->
     IF i <= Len(s.segments_outstanding) THEN at[i]
     ELSE pos[i - Len(s.segments_outstanding)]]

\* segs take the len sequence numbers from next_seqno on.
Follow(s, segs, len, pos) ==
  /\ segs \in Seq(Segments) /\ segs # <<>>
  /\ len \in Nat /\ s.next_seqno + len <= N + 2
  /\ pos \in [1 .. Len(segs) + 1 -> s.next_seqno .. s.next_seqno + len]
  /\ pos[1] = s.next_seqno /\ pos[Len(segs) + 1] = s.next_seqno + len
  /\ \A i, j \in 1 .. Len(segs) + 1 : i < j => pos[i] < pos[j]
  /\ \A i \in 1 .. Len(segs) :
       /\ pos[i + 1] = pos[i] + length_in_sequence_space(segs[i])
       /\ Carries(segs[i], s.isn, pos[i])

\* The fields of t, which is s after Emit.
Emitted(s, segs, len, t) ==
  /\ t.isn = s.isn /\ t.segments_out = s.segments_out \o segs
  /\ t.stream = s.stream
  /\ t.next_seqno = s.next_seqno + len
  /\ t.segments_outstanding = s.segments_outstanding \o segs
  /\ t.bytes_in_flight = s.bytes_in_flight + len
  /\ t.receiver_window_size = s.receiver_window_size
  /\ t.consecutive_retransmissions = s.consecutive_retransmissions
  /\ t.rto = IF s.timer_running THEN s.rto ELSE RtTimeout
  /\ t.tick = IF s.timer_running THEN s.tick ELSE 0
  /\ t.timer_running = TRUE
  /\ t.syn = s.syn /\ t.fin = s.fin
  /\ DOMAIN t = DOMAIN s /\ t = [f \in DOMAIN t |-> t[f]]

\* What sending a list of segments changes.
LEMMA EmitFields ==
  ASSUME NEW s \in SenderType, NEW segs, NEW len
  PROVE  Emitted(s, segs, len, Emit(s, segs, len))
  BY ZenonT(30) DEF SenderType, Emit, StartTimer, Emitted

\* SenderType field by field.
Typed(t) ==
  /\ t.isn \in SeqNos /\ t.segments_out \in Seq(Segments) /\ t.stream \in OutStream
  /\ t.next_seqno \in 0 .. N + 2 /\ t.segments_outstanding \in Seq(Segments)
  /\ t.bytes_in_flight \in 0 .. N + 2 /\ t.receiver_window_size \in 0 .. MaxWindow
  /\ t.consecutive_retransmissions \in Nat /\ t.rto \in Nat /\ t.tick \in Nat
  /\ t.timer_running \in BOOLEAN /\ t.syn \in BOOLEAN /\ t.fin \in BOOLEAN

\* A sender has these fields.
LEMMA SenderFields == ASSUME NEW s \in SenderType PROVE Typed(s)
  BY DEF SenderType, Typed

\* A record with the sender's fields is a sender.
LEMMA IsSender ==
  ASSUME NEW s \in SenderType, NEW t, DOMAIN t = DOMAIN s, t = [f \in DOMAIN t |-> t[f]],
         Typed(t)
  PROVE  t \in SenderType
  BY DEF SenderType, Typed

\* The positions after Emit.
LEMMA EmitQueued ==
  ASSUME NEW s \in SenderType, NEW at, Queued(s, at),
         NEW segs, NEW len, NEW pos, Follow(s, segs, len, pos)
  PROVE  Queued(Emit(s, segs, len), Then(s, at, segs, pos))
  <1> DEFINE o == s.segments_outstanding
             L == Len(o)
             M == Len(segs)
             next == s.next_seqno
             t == Emit(s, segs, len)
             q == Then(s, at, segs, pos)
  <1>1. /\ o \in Seq(Segments) /\ next \in 0 .. N + 2 /\ s.bytes_in_flight \in 0 .. N + 2
        /\ segs \in Seq(Segments) /\ len \in Nat /\ N \in Nat
    BY SenderNumbers DEF SenderType, Follow
  <1>2. L \in Nat /\ M \in Nat /\ M > 0
    <2>1. M \in Nat \ {0}
      BY <1>1, EmptySeq DEF Follow
    <2>. QED  BY <1>1, <2>1, LenProperties
  <1>3. /\ t.next_seqno = next + len /\ t.segments_outstanding = o \o segs
        /\ t.bytes_in_flight = s.bytes_in_flight + len /\ t.isn = s.isn
    <2>1. Emitted(s, segs, len, t)
      BY EmitFields
    <2>. HIDE DEF t
    <2>. QED  BY <2>1 DEF Emitted
  <1>4. /\ Len(o \o segs) = L + M
        /\ \A i \in 1 .. L + M : (o \o segs)[i] = IF i <= L THEN o[i] ELSE segs[i - L]
    BY <1>1, ConcatProperties
  <1>5. /\ at \in [1 .. L + 1 -> 0 .. next]
        /\ at[1] = next - s.bytes_in_flight
        /\ at[L + 1] = next
        /\ \A i, j \in 1 .. L + 1 : i < j => at[i] < at[j]
        /\ \A i \in 1 .. L : at[i + 1] = at[i] + length_in_sequence_space(o[i])
        /\ \A i \in 1 .. L : Carries(o[i], s.isn, at[i])
    BY DEF Queued
  <1>6. /\ pos \in [1 .. M + 1 -> next .. next + len]
        /\ pos[1] = next /\ pos[M + 1] = next + len
        /\ \A i, j \in 1 .. M + 1 : i < j => pos[i] < pos[j]
        /\ \A i \in 1 .. M : pos[i + 1] = pos[i] + length_in_sequence_space(segs[i])
        /\ \A i \in 1 .. M : Carries(segs[i], s.isn, pos[i])
    BY DEF Follow
  <1>7. q = [i \in 1 .. L + M + 1 |-> IF i <= L THEN at[i] ELSE pos[i - L]]
    BY DEF Then
  <1>. HIDE DEF o, L, M, next, t, q
  <1>8. \A i \in 1 .. L + M + 1 :
          q[i] = IF i <= L THEN at[i] ELSE pos[i - L]
    BY <1>7
  <1>9. \A i \in 1 .. L + M + 1 :
          /\ i <= L => i \in 1 .. L + 1 /\ i \in 1 .. L
          /\ ~ (i <= L) => i - L \in 1 .. M + 1
    BY <1>2
  <1>9a. /\ \A i \in 1 .. L : at[i] \in 0 .. next
         /\ \A i \in 1 .. L : i \in 1 .. L + 1 /\ L + 1 \in 1 .. L + 1 /\ i < L + 1
         /\ \A i \in 1 .. M + 1 : pos[i] \in next .. next + len
    BY <1>2, <1>5, <1>6, SMTT(20)
  <1>10. \A i \in 1 .. L + M + 1 : q[i] \in 0 .. next + len
    <2>. TAKE i \in 1 .. L + M + 1
    <2>1. CASE i <= L
      <3>1. q[i] \in 0 .. next
        BY <2>1, <1>8, <1>9, <1>9a
      <3>. QED  BY <3>1, <1>1
    <2>2. CASE ~ (i <= L)
      <3>1. q[i] \in next .. next + len
        BY <2>2, <1>8, <1>9, <1>9a
      <3>. QED  BY <3>1, <1>1
    <2>. QED  BY <2>1, <2>2
  <1>11. q \in [1 .. L + M + 1 -> 0 .. next + len]
    BY <1>7, <1>10
  <1>12. ASSUME NEW i \in 1 .. L + M + 1, NEW j \in 1 .. L + M + 1, i < j
         PROVE  q[i] < q[j]
    <2>1. CASE j <= L
      <3>1. i <= L
        BY <2>1, <1>12, <1>2
      <3>. QED  BY <2>1, <3>1, <1>12, <1>5, <1>8, <1>9
    <2>2. CASE i <= L /\ ~ (j <= L)
      <3>1. at[i] < next /\ q[i] = at[i]
        BY <2>2, <1>5, <1>8, <1>9, <1>9a
      <3>2. q[j] = pos[j - L] /\ pos[j - L] \in next .. next + len
        BY <2>2, <1>8, <1>9, <1>9a
      <3>3. at[i] \in 0 .. next
        BY <2>2, <1>9, <1>9a
      <3>. QED  BY <3>1, <3>2, <3>3, <1>1, SMTT(20)
    <2>3. CASE ~ (i <= L) /\ ~ (j <= L)
      <3>1. i - L < j - L
        BY <1>2, <1>12
      <3>. QED  BY <2>3, <3>1, <1>6, <1>8, <1>9
    <2>. QED  BY <2>1, <2>2, <2>3
  <1>13. ASSUME NEW i \in 1 .. L + M
         PROVE  /\ q[i + 1] = q[i] + length_in_sequence_space((o \o segs)[i])
                /\ Carries((o \o segs)[i], s.isn, q[i])
    <2>1. i \in 1 .. L + M + 1 /\ i + 1 \in 1 .. L + M + 1
      BY <1>2
    <2>2. CASE i <= L
      <3>1. q[i + 1] = at[i + 1]
        <4>1. CASE i + 1 <= L
          BY <4>1, <2>1, <1>8
        <4>2. CASE ~ (i + 1 <= L)
          <5>1. i = L /\ (i + 1) - L = 1
            BY <2>2, <4>2, <1>2
          <5>. QED  BY <2>1, <4>2, <5>1, <1>5, <1>6, <1>8
        <4>. QED  BY <4>1, <4>2
      <3>2. q[i] = at[i] /\ (o \o segs)[i] = o[i] /\ i \in 1 .. L
        BY <2>1, <2>2, <1>4, <1>8, <1>9
      <3>. QED  BY <3>1, <3>2, <1>5
    <2>3. CASE ~ (i <= L)
      <3>1. ~ (i + 1 <= L) /\ (i + 1) - L = (i - L) + 1 /\ i - L \in 1 .. M
        BY <2>3, <1>2
      <3>2. q[i + 1] = pos[(i - L) + 1] /\ q[i] = pos[i - L] /\ (o \o segs)[i] = segs[i - L]
        BY <2>1, <2>3, <3>1, <1>4, <1>8
      <3>. QED  BY <3>1, <3>2, <1>6
    <2>. QED  BY <2>2, <2>3, Zenon
  <1>14. q[1] = t.next_seqno - t.bytes_in_flight
    <2>1. q[1] = at[1]
      <3>1. 1 \in 1 .. L + M + 1 /\ (~ (1 <= L) => L = 0 /\ 1 - L = 1 /\ L + 1 = 1)
        BY <1>2
      <3>. QED  BY <3>1, <1>5, <1>6, <1>8
    <2>. QED  BY <2>1, <1>1, <1>3, <1>5
  <1>15. q[L + M + 1] = next + len
    <2>1. L + M + 1 \in 1 .. L + M + 1 /\ ~ (L + M + 1 <= L) /\ (L + M + 1) - L = M + 1
      BY <1>2
    <2>. QED  BY <2>1, <1>6, <1>8
  <1>16. Queued(t, q)
    BY <1>3, <1>4, <1>11, <1>12, <1>13, <1>14, <1>15 DEF Queued
  <1>. QED  BY <1>16 DEF t, q

\* New segments are like those before them.
LEMMA EmitSends ==
  ASSUME NEW s, NEW at, Sends(s, at),
         NEW segs, NEW len, NEW pos, Follow(s, segs, len, pos)
  PROVE  Sends(Emit(s, segs, len), Then(s, at, segs, pos))
  <1> DEFINE t == Emit(s, segs, len)
             L == Len(s.segments_out)
             M == Len(segs)
  <1>1. /\ s \in SenderType /\ Queued(s, at) /\ HandedOut(s) /\ Timed(s)
        /\ segs \in Seq(Segments) /\ segs # <<>> /\ len \in Nat
        /\ s.next_seqno + len <= N + 2
    BY DEF Sends, Follow
  <1>2. Queued(t, Then(s, at, segs, pos))
    BY <1>1, EmitQueued
  <1>3. Emitted(s, segs, len, t)
    BY <1>1, EmitFields
  <1>. HIDE DEF t
  <1>4. /\ s.next_seqno \in 0 .. N + 2 /\ s.bytes_in_flight \in 0 .. N + 2 /\ N \in Nat
        /\ s.segments_out \in Seq(Segments) /\ s.segments_outstanding \in Seq(Segments)
    BY <1>1, SenderNumbers DEF SenderType
  <1>5. L \in Nat /\ M \in Nat \ {0}
    BY <1>1, <1>4, LenProperties, EmptySeq
  <1>6. /\ s.segments_out \o segs \in Seq(Segments)
        /\ s.segments_outstanding \o segs \in Seq(Segments)
        /\ Len(s.segments_outstanding \o segs) = Len(s.segments_outstanding) + M
        /\ Len(s.segments_out \o segs) = L + M
        /\ \A i \in 1 .. L + M : (s.segments_out \o segs)[i] =
             IF i <= L THEN s.segments_out[i] ELSE segs[i - L]
    BY <1>1, <1>4, ConcatProperties
  <1>7. t \in SenderType
    <2>1. s.next_seqno + len \in 0 .. N + 2
      BY <1>1, <1>4
    <2>2. s.bytes_in_flight + len \in 0 .. N + 2
      <3>1. /\ at \in [1 .. Len(s.segments_outstanding) + 1 -> 0 .. s.next_seqno]
            /\ at[1] = s.next_seqno - s.bytes_in_flight
        BY <1>1 DEF Queued
      <3>2. 1 \in 1 .. Len(s.segments_outstanding) + 1
        BY <1>4, LenProperties
      <3>3. at[1] \in 0 .. s.next_seqno
        BY <3>1, <3>2
      <3>. QED  BY <1>1, <1>4, <3>1, <3>3, SMTT(20)
    <2>3. Typed(s) /\ RtTimeout \in Nat /\ 0 \in Nat
      BY <1>1, SenderFields, SenderAssumption
    <2>4. t.rto \in Nat /\ t.tick \in Nat
      BY <1>3, <2>3 DEF Emitted, Typed
    <2>5. Typed(t)
      BY <1>3, <1>6, <2>1, <2>2, <2>3, <2>4, Zenon DEF Emitted, Typed
    <2>. QED  BY <1>1, <1>3, <2>5, IsSender DEF Emitted
  <1>8. HandedOut(t)
    <2>1. ASSUME NEW i \in 1 .. L + M
          PROVE  \E a \in 0 .. s.next_seqno + len :
                   /\ Carries((s.segments_out \o segs)[i], s.isn, a)
                   /\ a + length_in_sequence_space((s.segments_out \o segs)[i])
                        <= s.next_seqno + len
      <3>1. CASE i <= L
        <4>1. i \in 1 .. L /\ (s.segments_out \o segs)[i] = s.segments_out[i]
          BY <3>1, <1>5, <1>6
        <4>2. PICK a \in 0 .. s.next_seqno :
                /\ Carries(s.segments_out[i], s.isn, a)
                /\ a + length_in_sequence_space(s.segments_out[i]) <= s.next_seqno
          BY <4>1, <1>1 DEF HandedOut
        <4>3. length_in_sequence_space(s.segments_out[i]) \in Nat
          BY <4>1, <1>4, ElementOfSeq, SegmentLength
        <4>4. /\ a \in 0 .. s.next_seqno + len
              /\ a + length_in_sequence_space(s.segments_out[i]) <= s.next_seqno + len
          BY <4>2, <4>3, <1>1, <1>4
        <4>. QED  BY <4>1, <4>2, <4>4
      <3>2. CASE ~ (i <= L)
        <4>1. /\ i - L \in 1 .. M /\ i - L \in 1 .. M + 1 /\ (i - L) + 1 \in 1 .. M + 1
              /\ (s.segments_out \o segs)[i] = segs[i - L]
          BY <3>2, <1>5, <1>6, SMTT(20)
        <4>2. /\ pos[i - L] \in s.next_seqno .. s.next_seqno + len
              /\ pos[(i - L) + 1] \in s.next_seqno .. s.next_seqno + len
              /\ pos[(i - L) + 1] = pos[i - L] + length_in_sequence_space(segs[i - L])
              /\ Carries(segs[i - L], s.isn, pos[i - L])
          BY <4>1, Zenon DEF Follow
        <4>3. /\ pos[i - L] \in 0 .. s.next_seqno + len
              /\ pos[i - L] + length_in_sequence_space(segs[i - L]) <= s.next_seqno + len
          BY <4>2, <1>1, <1>4, SMTT(20)
        <4>. QED  BY <4>1, <4>2, <4>3
      <3>. QED  BY <3>1, <3>2
    <2>. QED  BY <2>1, <1>3, <1>6, Zenon DEF HandedOut, Emitted
  <1>9. Timed(t)
    <2>1. s.segments_outstanding \o segs # <<>>
      <3>1. Len(s.segments_outstanding \o segs) # 0
        BY <1>4, <1>5, <1>6, LenProperties
      <3>. QED  BY <3>1, EmptySeq
    <2>2. s.timer_running \in BOOLEAN
      BY <1>1 DEF SenderType
    <2>3. BackedOff(0) = RtTimeout
      BY BackedOffProperties
    <2>. QED  BY <1>1, <1>3, <2>1, <2>2, <2>3 DEF Timed, Emitted
  <1>. QED  BY <1>2, <1>7, <1>8, <1>9 DEF Sends, t

-----------------------------------------------------------------------------
\* The bytes of the stream behind the first a, up to the b-th.
Part(a, b) == SubSeq(Stream, a + 1, b)

\* A part of the stream has the length its ends say.
LEMMA PartProperties ==
  ASSUME NEW a \in 0 .. N, NEW b \in a .. N
  PROVE  Part(a, b) \in Seq(Byte) /\ Len(Part(a, b)) = b - a
  <1>1. N \in Nat /\ Stream \in Seq(Byte) /\ N = Len(Stream)
    BY SenderNumbers DEF N
  <1>2. \A i \in a + 1 .. b : i \in 1 .. Len(Stream)
    BY <1>1
  <1>3. \A i \in a + 1 .. b : Stream[i] \in Byte
    BY <1>1, <1>2, ElementOfSeq
  <1>4. a + 1 \in Int /\ b \in Int
    BY <1>1
  <1>5. /\ Part(a, b) \in Seq(Byte)
        /\ Len(Part(a, b)) = IF a + 1 <= b THEN b - (a + 1) + 1 ELSE 0
    BY <1>3, <1>4, SubSeqProperties DEF Part
  <1>. QED  BY <1>1, <1>5

\* A part of a part is a part.
LEMMA PartOfPart ==
  ASSUME NEW a \in 0 .. N, NEW b \in a .. N, NEW c \in 0 .. b - a, NEW d \in c .. b - a
  PROVE  SubSeq(Part(a, b), c + 1, d) = Part(a + c, a + d)
  <1>1. N \in Nat /\ Stream \in Seq(Byte) /\ N = Len(Stream)
    BY SenderNumbers DEF N
  <1>2. CASE c = d
    <2>1. /\ c + 1 \in Int /\ d \in Int /\ d < c + 1
          /\ (a + c) + 1 \in Int /\ a + d \in Int /\ a + d < (a + c) + 1
      BY <1>1, <1>2
    <2>. QED  BY <2>1, SubSeqEmpty DEF Part
  <1>3. CASE c # d
    <2>1. /\ a + 1 \in 1 .. Len(Stream) /\ b \in 1 .. Len(Stream)
          /\ c + 1 \in 1 .. b - (a + 1) + 1 /\ d \in 1 .. b - (a + 1) + 1
          /\ (a + 1) + (c + 1) - 1 = (a + c) + 1 /\ (a + 1) + d - 1 = a + d
      BY <1>1, <1>3
    <2>2. SubSeq(SubSeq(Stream, a + 1, b), c + 1, d)
            = SubSeq(Stream, (a + 1) + (c + 1) - 1, (a + 1) + d - 1)
      BY <1>1, <2>1, SubSeqOfSubSeq
    <2>. QED  BY <2>1, <2>2 DEF Part
  <1>. QED  BY <1>2, <1>3

\* Two parts that meet are one.
LEMMA PartJoin ==
  ASSUME NEW a \in 0 .. N, NEW b \in a .. N, NEW c \in b .. N
  PROVE  Part(a, b) \o Part(b, c) = Part(a, c)
  <1>1. N \in Nat /\ Stream \in Seq(Byte) /\ N = Len(Stream)
    BY SenderNumbers DEF N
  <1>2. /\ a + 1 \in 1 .. Len(Stream) + 1 /\ b \in (a + 1) - 1 .. Len(Stream)
        /\ c \in b .. Len(Stream)
    BY <1>1
  <1>. QED  BY <1>1, <1>2, ConcatAdjacentSubSeq DEF Part

\* How many segments n bytes take.
Count(n, fin) ==
  IF n = 0 /\ fin THEN 1 ELSE (n + MAX_PAYLOAD_SIZE - 1) \div MAX_PAYLOAD_SIZE

\* The segments of one call take the n bytes from the first to the last.
LEMMA CountProperties ==
  ASSUME NEW n \in Nat, NEW fin \in BOOLEAN, n > 0 \/ fin
  PROVE  LET count == Count(n, fin)
         IN  /\ count \in Nat /\ count > 0
             /\ Before(1) = 0
             /\ \A i \in 1 .. count : Before(i) \in Nat /\ Before(i) <= n
             /\ \A i \in 1 .. count : n > 0 => Before(i) < n
             /\ \A i \in 1 .. count : i < count =>
                  /\ Before(i + 1) = Before(i) + MAX_PAYLOAD_SIZE
                  /\ Before(i + 1) < n
             /\ n <= Before(count) + MAX_PAYLOAD_SIZE
             /\ \A i, j \in 1 .. count : i < j => Before(i) < Before(j)
  <1> DEFINE m == MAX_PAYLOAD_SIZE
             count == Count(n, fin)
  <1>1. m \in Nat /\ m > 0
    BY SenderNumbers
  <1>2. \A i \in Int : Before(i) = (i - 1) * m /\ Before(i) \in Int
    BY <1>1 DEF Before
  <1>3. \A i \in Int : Before(i + 1) = Before(i) + m
    BY <1>1 DEF Before
  <1>4. \A i, j \in Int : i < j => Before(i) + m <= Before(j)
    <2>. SUFFICES ASSUME NEW i \in Int, NEW j \in Int, i < j
                  PROVE  Before(i) + m <= Before(j)
      OBVIOUS
    <2>1. i - 1 \in Int /\ j - 1 \in Int /\ i - 1 < j - 1
      OBVIOUS
    <2>2. m * (i - 1) + m <= m * (j - 1)
      BY <1>1, <2>1, MultiplesApart
    <2>3. m * (i - 1) = (i - 1) * m /\ m * (j - 1) = (j - 1) * m
      BY <1>1, <2>1
    <2>. QED  BY <1>2, <2>2, <2>3
  <1>5. Before(1) = 0
    BY <1>1 DEF Before
  <1>6. count \in Nat /\ count > 0 /\ (n > 0 => Before(count) < n) /\ n <= Before(count) + m
    <2>1. CASE n = 0
      <3>1. count = 1
        BY <2>1 DEF Count
      <3>2. Before(count) = 0
        BY <3>1, <1>5
      <3>. HIDE DEF count, m
      <3>. QED  BY <2>1, <3>1, <3>2, <1>1
    <2>2. CASE n # 0
      <3> DEFINE e == n + m - 1
                 q == e \div m
      <3>1. count = q
        BY <2>2 DEF Count
      <3>2. e \in Int /\ e >= m
        BY <1>1, <2>2
      <3>3. q \in Int /\ e % m \in 0 .. m - 1 /\ e = m * q + (e % m)
        BY <3>2, <1>1, DivMod
      <3>4. m * q = q * m /\ q * m = Before(q) + m
        BY <1>1, <3>3 DEF Before
      <3>5. q > 0
        <4>1. SUFFICES ASSUME q < 1 PROVE FALSE
          BY <3>3
        <4>2. Before(q) + m <= Before(1)
          BY <1>4, <3>3, <4>1
        <4>. HIDE DEF q, e
        <4>. QED  BY <4>2, <1>1, <1>5, <3>2, <3>3, <3>4
      <3>6. Before(q) \in Int /\ e = n + m - 1
        BY <1>2, <3>3
      <3>. HIDE DEF q, e
      <3>7. Before(q) < n /\ n <= Before(q) + m
        BY <1>1, <3>3, <3>4, <3>6
      <3>8. q \in Nat
        BY <3>3, <3>5
      <3>. QED  BY <3>1, <3>5, <3>7, <3>8
    <2>. QED  BY <2>1, <2>2
  <1>. HIDE DEF count
  <1>7. ASSUME NEW i \in 1 .. count
        PROVE  /\ Before(i) \in Nat /\ Before(i) <= n
               /\ n > 0 => Before(i) < n
               /\ i < count => Before(i + 1) = Before(i) + m /\ Before(i + 1) < n
    <2>1. i \in Int /\ count \in Int /\ Before(i) \in Int /\ Before(count) \in Int
      BY <1>2, <1>6
    <2>2. Before(i) >= 0
      <3>1. CASE i = 1
        BY <3>1, <1>5
      <3>2. CASE i # 1
        <4>1. 1 < i
          BY <3>2, <2>1, <1>6
        <4>2. Before(1) + m <= Before(i)
          BY <1>4, <2>1, <4>1
        <4>. QED  BY <4>2, <2>1, <1>1, <1>5
      <3>. QED  BY <3>1, <3>2
    <2>3. i < count => Before(i) + m <= Before(count)
      BY <1>4, <2>1
    <2>4. i = count \/ i < count
      BY <1>6
    <2>5. n = 0 => count = 1 /\ i = 1
      BY <1>6 DEF count, Count
    <2>6. Before(i + 1) = Before(i) + m
      BY <1>3, <2>1
    <2>7. CASE n = 0
      BY <2>1, <2>5, <2>6, <2>7, <1>5
    <2>8. CASE n # 0
      BY <2>1, <2>2, <2>3, <2>4, <2>6, <2>8, <1>1, <1>6
    <2>. QED  BY <2>7, <2>8
  <1>8. \A i, j \in 1 .. count : i < j => Before(i) < Before(j)
    <2>. SUFFICES ASSUME NEW i \in 1 .. count, NEW j \in 1 .. count, i < j
                  PROVE  Before(i) < Before(j)
      OBVIOUS
    <2>1. i \in Int /\ j \in Int
      BY <1>6
    <2>2. Before(i) + m <= Before(j) /\ Before(i) \in Int /\ Before(j) \in Int
      BY <1>2, <1>4, <2>1
    <2>. QED  BY <2>2, <1>1
  <1>. QED  BY <1>5, <1>6, <1>7, <1>8 DEF count

\* What Counted says of the numbers.
LEMMA StreamFacts ==
  ASSUME NEW s \in SenderType, Counted(s)
  PROVE  LET st == s.stream
         IN  /\ N \in Nat
             /\ st.read_count \in 0 .. N /\ st.write_count \in st.read_count .. N
             /\ st.buffer = Part(st.read_count, st.write_count)
             /\ st.buffer \in Seq(Byte)
             /\ Len(st.buffer) = st.write_count - st.read_count
  <1> DEFINE st == s.stream
  <1>1. st.read_count \in 0 .. N /\ st.write_count \in 0 .. N /\ N \in Nat
    BY SenderNumbers, SMTT(20) DEF SenderType, OutStream
  <1>2. st.read_count <= st.write_count
    BY DEF Counted
  <1>3. st.buffer = Part(st.read_count, st.write_count)
    BY DEF Counted, Part
  <1>. HIDE DEF st
  <1>4. st.write_count \in st.read_count .. N
    BY <1>1, <1>2
  <1>. QED  BY <1>1, <1>3, <1>4, PartProperties, Zenon DEF st

\* A segment with the c-th to d-th bytes of the buffer.
Packet(s, c, d, last) ==
  [Segment EXCEPT !.seqno = wrap(s.next_seqno + c, s.isn),
                  !.payload = SubSeq(s.stream.buffer, c + 1, d), !.fin = last]

PacketRight(s, c, d, last, seg) ==
  /\ seg \in Segments
  /\ length_in_sequence_space(seg) = d - c + (IF last THEN 1 ELSE 0)
  /\ Carries(seg, s.isn, s.next_seqno + c)

PacketIs(s, c, d, last, seg) ==
  /\ seg \in Segments
  /\ seg.seqno = wrap(s.next_seqno + c, s.isn)
  /\ seg.payload = SubSeq(s.stream.buffer, c + 1, d)
  /\ seg.syn = FALSE /\ seg.fin = last

\* What one segment of fill_window() carries.
LEMMA PacketFields ==
  ASSUME NEW s, NEW c, NEW d, NEW last \in BOOLEAN,
         wrap(s.next_seqno + c, s.isn) \in SeqNos,
         SubSeq(s.stream.buffer, c + 1, d) \in Seq(Byte)
  PROVE  PacketIs(s, c, d, last, Packet(s, c, d, last))
  <1> DEFINE seqno == wrap(s.next_seqno + c, s.isn)
             payload == SubSeq(s.stream.buffer, c + 1, d)
             seg == Packet(s, c, d, last)
  <1>1. /\ seg = [Segment EXCEPT !.seqno = seqno, !.payload = payload, !.fin = last]
        /\ seqno \in SeqNos /\ payload \in Seq(Byte)
    BY DEF Packet
  <1>. HIDE DEF seqno, payload, seg
  <1>2. seg \in Segments
    BY <1>1, Zenon DEF Segment, Segments
  <1>3. seg.seqno = seqno /\ seg.payload = payload /\ seg.syn = FALSE /\ seg.fin = last
    BY <1>1 DEF Segment
  <1>. QED  BY <1>2, <1>3 DEF PacketIs, seg, seqno, payload

\* One segment of a call of fill_window().
LEMMA PacketCarries ==
  ASSUME NEW s \in SenderType, Counted(s), s.syn, ~ s.fin,
         NEW d \in 0 .. Len(s.stream.buffer), NEW c \in 0 .. d,
         NEW last \in BOOLEAN, d > c \/ last,
         last => s.stream.input_ended /\ d = Len(s.stream.buffer)
  PROVE  PacketRight(s, c, d, last, Packet(s, c, d, last))
  <1> DEFINE rc == s.stream.read_count
             wc == s.stream.write_count
             a == s.next_seqno + c
             one == IF last THEN 1 ELSE 0
             seg == Packet(s, c, d, last)
             part == Part(rc + c, rc + d)
             len == length_in_sequence_space(seg)
  <1>1. /\ N \in Nat /\ rc \in 0 .. N /\ wc \in rc .. N
        /\ s.stream.buffer = Part(rc, wc) /\ Len(s.stream.buffer) = wc - rc
    BY StreamFacts
  <1>2. s.next_seqno = 1 + rc
    <2>1. s.next_seqno = 1 + rc + 0
      BY DEF Counted
    <2>. QED  BY <2>1, <1>1
  <1>3. (last => wc = N /\ d = wc - rc)
    BY <1>1 DEF Counted
  <1>4. s.isn \in SeqNos
    BY DEF SenderType
  <1>4a. s.isn \in Int
    BY <1>4, SeqModAssumption DEF SeqNos
  <1>5. (last => one = 1) /\ (~ last => one = 0)
    OBVIOUS
  <1>5a. d \in 0 .. wc - rc /\ c \in 0 .. d
    BY <1>1
  <1>6. /\ SubSeq(s.stream.buffer, c + 1, d) = SubSeq(Part(rc, wc), c + 1, d)
        /\ a = (1 + rc) + c
    BY <1>1, <1>2
  <1>. HIDE DEF rc, wc, one, a
  <1>7. /\ c \in 0 .. wc - rc /\ d \in c .. wc - rc
        /\ rc + c \in 0 .. N /\ rc + d \in rc + c .. N /\ (rc + d) - (rc + c) = d - c
        /\ d - c \in Nat
    BY <1>1, <1>5a
  <1>7a. /\ a \in Nat /\ a > 0 /\ a = (rc + c) + 1 /\ a + (d - c) - 1 = rc + d
    BY <1>1, <1>5a, <1>6
  <1>8. SubSeq(s.stream.buffer, c + 1, d) = part
    BY <1>1, <1>6, <1>7, PartOfPart, Zenon
  <1>9. part \in Seq(Byte) /\ Len(part) = d - c
    BY <1>7, PartProperties, Zenon
  <1>10. wrap(a, s.isn) \in SeqNos
    <2>1. a \in Int
      BY <1>7a
    <2>. QED  BY <1>4a, <2>1, WrapType
  <1>11. part = SubSeq(Stream, a, a + Len(part) - 1)
    BY <1>7a, <1>9, Zenon DEF Part
  <1>. HIDE DEF part
  <1>12. /\ seg \in Segments
         /\ seg.seqno = wrap(a, s.isn) /\ seg.syn = FALSE /\ seg.payload = part
         /\ seg.fin = last
    <2>1. /\ wrap(s.next_seqno + c, s.isn) \in SeqNos
          /\ SubSeq(s.stream.buffer, c + 1, d) \in Seq(Byte)
      BY <1>8, <1>9, <1>10 DEF a
    <2>2. /\ seg \in Segments /\ seg.seqno = wrap(s.next_seqno + c, s.isn)
          /\ seg.payload = SubSeq(s.stream.buffer, c + 1, d)
          /\ seg.syn = FALSE /\ seg.fin = last
      <3>1. PacketIs(s, c, d, last, seg)
        BY <2>1, PacketFields
      <3>. QED  BY <3>1, Zenon DEF PacketIs
    <2>. QED  BY <1>8, <2>2 DEF a
  <1>. HIDE DEF seg
  <1>15. len = (d - c) + 0 + one
    BY <1>9, <1>12, Zenon DEF length_in_sequence_space, one
  <1>16. CASE last
    <2>1. one = 1 /\ wc = N /\ d = wc - rc
      BY <1>3, <1>5, <1>16
    <2>2. len = d - c + 1 /\ len >= 1 /\ a + len = N + 2
      BY <2>1, <1>1, <1>5a, <1>7, <1>7a, <1>15
    <2>3. Carries(seg, s.isn, a)
      <3>1. a # 0 /\ ~ seg.syn /\ (seg.fin <=> a + len = N + 2)
        BY <2>2, <1>7a, <1>12, <1>16
      <3>2. seg.payload = SubSeq(Stream, a, a + Len(seg.payload) - 1)
        BY <1>11, <1>12
      <3>. QED  BY <2>2, <3>1, <3>2, <1>12 DEF Carries
    <2>. QED  BY <2>2, <2>3, <1>12, <1>16, Zenon DEF PacketRight, seg, a
  <1>17. CASE ~ last
    <2>1. one = 0 /\ d > c
      BY <1>5, <1>17
    <2>2. len = d - c /\ len >= 1 /\ a + len # N + 2
      BY <2>1, <1>1, <1>5a, <1>7, <1>7a, <1>15
    <2>3. Carries(seg, s.isn, a)
      <3>1. a # 0 /\ ~ seg.syn /\ (seg.fin <=> a + len = N + 2)
        BY <2>2, <1>7a, <1>12, <1>17
      <3>2. seg.payload = SubSeq(Stream, a, a + Len(seg.payload) - 1)
        BY <1>11, <1>12
      <3>. QED  BY <2>2, <3>1, <3>2, <1>12 DEF Carries
    <2>4. d - c = d - c + 0
      BY <1>7
    <2>. QED  BY <2>2, <2>3, <2>4, <1>12, <1>17 DEF PacketRight, seg, a
  <1>. QED  BY <1>16, <1>17

\* All of them.
LEMMA PacketizeFollows ==
  ASSUME NEW s \in SenderType, Counted(s), s.syn, ~ s.fin,
         NEW n \in 0 .. Len(s.stream.buffer), NEW fin \in BOOLEAN, n > 0 \/ fin,
         fin => s.stream.input_ended /\ n = Len(s.stream.buffer)
  PROVE  \E pos : Follow(s, Packetize(s, n, fin), n + (IF fin THEN 1 ELSE 0), pos)
  <1> DEFINE next == s.next_seqno
             rc == s.stream.read_count
             one == IF fin THEN 1 ELSE 0
             count == Count(n, fin)
             segs == Packetize(s, n, fin)
             upto(i) == IF i < count THEN Before(i + 1) ELSE n
             pos == [i \in 1 .. count + 1 |->
                       IF i <= count THEN next + Before(i) ELSE next + n + one]
  <1>1. /\ N \in Nat /\ rc \in 0 .. N /\ s.stream.write_count \in rc .. N
        /\ Len(s.stream.buffer) = s.stream.write_count - rc
    BY StreamFacts
  <1>2. next = 1 + rc
    <2>1. next = 1 + rc + 0
      BY DEF Counted
    <2>. QED  BY <2>1, <1>1
  <1>3. n \in Nat /\ rc + n <= N /\ next \in Nat
    BY <1>1, <1>2, SMTT(20)
  <1>4. one \in {0, 1} /\ (n = 0 => one = 1)
    OBVIOUS
  <1>5. /\ count \in Nat /\ count > 0
        /\ Before(1) = 0
        /\ \A i \in 1 .. count : Before(i) \in Nat /\ Before(i) <= n
        /\ \A i \in 1 .. count : n > 0 => Before(i) < n
        /\ \A i \in 1 .. count : i < count =>
             Before(i + 1) = Before(i) + MAX_PAYLOAD_SIZE /\ Before(i + 1) < n
        /\ n <= Before(count) + MAX_PAYLOAD_SIZE
        /\ \A i, j \in 1 .. count : i < j => Before(i) < Before(j)
    <2>. HIDE DEF count
    <2>. QED  BY <1>3, CountProperties, SMTT(20) DEF count
  <1>5a. MAX_PAYLOAD_SIZE \in Nat /\ MAX_PAYLOAD_SIZE > 0
    BY SenderNumbers
  <1>6. segs = [i \in 1 .. count |->
                  [Segment EXCEPT !.seqno = wrap(next + Before(i), s.isn),
                                  !.payload = Chunk(s.stream.buffer, n, i),
                                  !.fin = fin /\ i = count]]
    BY DEF Packetize, Count
  <1>. HIDE DEF count, one, segs, next, rc
  <1>7. ASSUME NEW i \in 1 .. count
        PROVE  /\ Before(i) \in 0 .. n /\ upto(i) \in Before(i) .. n
               /\ AtMost(Before(i) + MAX_PAYLOAD_SIZE, n) = upto(i)
               /\ (n > 0 => upto(i) > Before(i))
               /\ (i = count => upto(i) = n) /\ (i < count => upto(i) = Before(i + 1))
               /\ i = count \/ i < count
    <2>1. i = count \/ i < count
      BY <1>5
    <2>2. Before(i) \in Nat /\ Before(i) <= n /\ (n > 0 => Before(i) < n)
      BY <1>5
    <2>3. CASE i = count
      <3>1. upto(i) = n /\ ~ (i < count) /\ n <= Before(i) + MAX_PAYLOAD_SIZE
        BY <2>3, <1>5
      <3>. HIDE DEF upto
      <3>. QED  BY <2>2, <2>3, <3>1, <1>3, <1>5a DEF AtMost
    <2>4. CASE i < count
      <3>1. Before(i + 1) = Before(i) + MAX_PAYLOAD_SIZE /\ Before(i + 1) < n
        BY <2>4, <1>5
      <3>2. upto(i) = Before(i + 1) /\ i # count
        BY <2>4, <1>5
      <3>. QED  BY <2>2, <2>4, <3>1, <3>2, <1>3, <1>5a DEF AtMost
    <2>. QED  BY <2>1, <2>3, <2>4
  <1>8. ASSUME NEW i \in 1 .. count
        PROVE  segs[i] = Packet(s, Before(i), upto(i), fin /\ i = count)
    BY <1>6, <1>7 DEF Chunk, Packet, next
  <1>. HIDE DEF upto
  <1>9. ASSUME NEW i \in 1 .. count
        PROVE  PacketRight(s, Before(i), upto(i), fin /\ i = count, segs[i])
    <2> DEFINE last == fin /\ i = count
    <2>1. /\ upto(i) \in 0 .. Len(s.stream.buffer) /\ Before(i) \in 0 .. upto(i)
      <3>1. Before(i) \in 0 .. n /\ upto(i) \in Before(i) .. n
        BY <1>7
      <3>2. Len(s.stream.buffer) \in Nat
        BY <1>1
      <3>. QED  BY <3>1, <3>2, <1>3
    <2>2. last \in BOOLEAN /\ (last => s.stream.input_ended /\ upto(i) = Len(s.stream.buffer))
      BY <1>7
    <2>3. upto(i) > Before(i) \/ last
      <3>1. CASE n > 0
        BY <3>1, <1>7
      <3>2. CASE ~ (n > 0)
        <4>1. n = 0 /\ fin
          BY <3>2, <1>3
        <4>2. count = 1
          BY <4>1 DEF count, Count
        <4>3. i = 1
          BY <4>2
        <4>. QED  BY <4>1, <4>2, <4>3
      <3>. QED  BY <3>1, <3>2
    <2>4. segs[i] = Packet(s, Before(i), upto(i), last)
      BY <1>8
    <2>. HIDE DEF last
    <2>. QED  BY <2>1, <2>2, <2>3, <2>4, PacketCarries, Zenon DEF last
  <1>10. /\ segs \in [1 .. count -> Segments] /\ DOMAIN segs = 1 .. count
    BY <1>6, <1>9 DEF PacketRight
  <1>11. segs \in Seq(Segments) /\ Len(segs) = count /\ segs # <<>>
    <2>1. segs \in Seq(Segments)
      BY <1>5, <1>10, SeqDef
    <2>2. Len(segs) \in Nat /\ DOMAIN segs = 1 .. Len(segs)
      BY <2>1, LenProperties
    <2>3. Len(segs) = count
      BY <1>5, <1>10, <2>2
    <2>. QED  BY <2>1, <2>3, <1>5, EmptySeq
  <1>12. \A i \in 1 .. count + 1 :
           pos[i] = IF i <= count THEN next + Before(i) ELSE next + n + one
    OBVIOUS
  <1>13. \A i \in 1 .. count + 1 : (i <= count => i \in 1 .. count) /\ (~ (i <= count) => i = count + 1)
    BY <1>5
  <1>14. ASSUME NEW i \in 1 .. count + 1
         PROVE  /\ pos[i] \in next .. next + (n + one)
                /\ i <= count => pos[i] < next + (n + one)
    <2>1. CASE i <= count
      <3>1. i \in 1 .. count /\ pos[i] = next + Before(i)
        BY <2>1, <1>12, <1>13
      <3>2. Before(i) \in Nat /\ Before(i) <= n /\ (n > 0 => Before(i) < n)
        BY <3>1, <1>5
      <3>. QED  BY <3>1, <3>2, <1>3, <1>4
    <2>2. CASE ~ (i <= count)
      <3>1. pos[i] = next + n + one
        BY <2>2, <1>12
      <3>. QED  BY <2>2, <3>1, <1>3, <1>4
    <2>. QED  BY <2>1, <2>2
  <1>15. pos \in [1 .. count + 1 -> next .. next + (n + one)]
    BY <1>14
  <1>. HIDE DEF pos
  <1>16. ASSUME NEW i \in 1 .. count
         PROVE  /\ pos[i + 1] = pos[i] + length_in_sequence_space(segs[i])
                /\ Carries(segs[i], s.isn, pos[i])
    <2>1. i \in 1 .. count + 1 /\ i + 1 \in 1 .. count + 1 /\ i <= count
      BY <1>5
    <2>2. pos[i] = next + Before(i)
      BY <2>1, <1>12
    <2>3. /\ length_in_sequence_space(segs[i])
               = upto(i) - Before(i) + (IF fin /\ i = count THEN 1 ELSE 0)
          /\ Carries(segs[i], s.isn, next + Before(i))
      BY <1>9 DEF PacketRight, next
    <2>4. Before(i) \in Nat
      BY <1>5
    <2>5. CASE i = count
      <3>1. pos[i + 1] = next + n + one
        <4>1. ~ (i + 1 <= count)
          BY <2>5, <1>5
        <4>. QED  BY <4>1, <2>1, <1>12
      <3>2. upto(i) = n
        BY <2>5, <1>7 DEF upto
      <3>3. length_in_sequence_space(segs[i]) = n - Before(i) + one
        BY <2>3, <2>5, <3>2 DEF one
      <3>4. next + n + one = (next + Before(i)) + (n - Before(i) + one)
        BY <2>4, <1>3, <1>4
      <3>. QED  BY <2>2, <2>3, <3>1, <3>3, <3>4
    <2>6. CASE i # count
      <3>1. i < count /\ i + 1 <= count
        BY <2>6, <1>5
      <3>2. pos[i + 1] = next + Before(i + 1)
        BY <2>1, <3>1, <1>12
      <3>3. upto(i) = Before(i + 1)
        BY <3>1 DEF upto
      <3>4. length_in_sequence_space(segs[i]) = Before(i + 1) - Before(i) + 0
        BY <2>3, <2>6, <3>3
      <3>5. i + 1 \in 1 .. count
        BY <2>1, <3>1
      <3>6. Before(i + 1) \in Nat
        BY <3>5, <1>5
      <3>7. next + Before(i + 1) = (next + Before(i)) + (Before(i + 1) - Before(i) + 0)
        BY <2>4, <3>6, <1>3
      <3>. QED  BY <2>2, <2>3, <3>2, <3>4, <3>7
    <2>. QED  BY <2>5, <2>6
  <1>17. ASSUME NEW i \in 1 .. count + 1, NEW j \in 1 .. count + 1, i < j
         PROVE  pos[i] < pos[j]
    <2>1. i <= count /\ i \in 1 .. count
      BY <1>5, <1>17
    <2>2. CASE j <= count
      <3>1. j \in 1 .. count /\ pos[i] = next + Before(i) /\ pos[j] = next + Before(j)
        BY <2>1, <2>2, <1>12, <1>13
      <3>2. Before(i) < Before(j) /\ Before(i) \in Nat /\ Before(j) \in Nat
        BY <2>1, <3>1, <1>5, <1>17
      <3>. QED  BY <3>1, <3>2, <1>3
    <2>3. CASE ~ (j <= count)
      <3>1. pos[j] = next + n + one /\ pos[i] < next + (n + one)
        BY <2>1, <2>3, <1>12, <1>14
      <3>2. next + n + one = next + (n + one)
        BY <1>3, <1>4
      <3>. QED  BY <3>1, <3>2
    <2>. QED  BY <2>2, <2>3
  <1>18. /\ pos[1] = next /\ pos[count + 1] = next + (n + one)
    <2>1. /\ 1 \in 1 .. count + 1 /\ 1 <= count /\ count + 1 \in 1 .. count + 1
          /\ ~ (count + 1 <= count) /\ next + 0 = next /\ next + n + one = next + (n + one)
      BY <1>3, <1>4, <1>5
    <2>. QED  BY <2>1, <1>5, <1>12
  <1>19. n + one \in Nat /\ next + (n + one) <= N + 2
    BY <1>1, <1>2, <1>3, <1>4
  <1>20. Follow(s, segs, n + one, pos)
    BY <1>11, <1>15, <1>16, <1>17, <1>18, <1>19 DEF Follow, next
  <1>. QED  BY <1>20 DEF segs, one

-----------------------------------------------------------------------------
\* Sends is about what was sent, not about the stream.
LEMMA SameSends ==
  ASSUME NEW s, NEW at, Sends(s, at), NEW t \in SenderType,
         t.isn = s.isn, t.segments_out = s.segments_out, t.next_seqno = s.next_seqno,
         t.segments_outstanding = s.segments_outstanding,
         t.bytes_in_flight = s.bytes_in_flight, t.timer_running = s.timer_running,
         t.consecutive_retransmissions = s.consecutive_retransmissions, t.rto = s.rto
  PROVE  Sends(t, at)
  BY DEF Sends, Queued, HandedOut, Timed

\* The room a call of fill_window() uses.
RoomFor(s) == IF s.syn THEN Remain(s) ELSE 1

\* t is s after fill_window().
Filled(s, at, t, now) ==
  /\ Sends(t, now) /\ Counted(t)
  /\ t.segments_outstanding = <<>> => AllSent(t)
  /\ t.syn /\ t.isn = s.isn /\ t.receiver_window_size = s.receiver_window_size
  /\ t.next_seqno >= s.next_seqno
  /\ t.next_seqno - t.bytes_in_flight = s.next_seqno - s.bytes_in_flight
  /\ t.bytes_in_flight <= s.bytes_in_flight + RoomFor(s)
  /\ Len(t.segments_outstanding) >= Len(s.segments_outstanding)
  /\ \A i \in 1 .. Len(s.segments_outstanding) + 1 : now[i] = at[i]

\* What Emit adds to what was there.
LEMMA EmitFilled ==
  ASSUME NEW s, NEW at, Sends(s, at), NEW segs, NEW len, NEW pos,
         Follow(s, segs, len, pos), NEW t, t = Emit(s, segs, len)
  PROVE  LET now == Then(s, at, segs, pos)
         IN  /\ Sends(t, now)
             /\ t.segments_outstanding # <<>>
             /\ t.stream = s.stream /\ t.syn = s.syn /\ t.fin = s.fin
             /\ t.isn = s.isn /\ t.receiver_window_size = s.receiver_window_size
             /\ t.next_seqno = s.next_seqno + len
             /\ t.bytes_in_flight = s.bytes_in_flight + len
             /\ t.next_seqno >= s.next_seqno
             /\ t.next_seqno - t.bytes_in_flight = s.next_seqno - s.bytes_in_flight
             /\ Len(t.segments_outstanding) >= Len(s.segments_outstanding)
             /\ \A i \in 1 .. Len(s.segments_outstanding) + 1 : now[i] = at[i]
  <1> DEFINE o == s.segments_outstanding
             L == Len(o)
             M == Len(segs)
             now == Then(s, at, segs, pos)
  <1>1. s \in SenderType /\ Queued(s, at)
    BY DEF Sends
  <1>2. Emitted(s, segs, len, t)
    BY <1>1, EmitFields
  <1>3. /\ segs \in Seq(Segments) /\ segs # <<>> /\ len \in Nat
        /\ pos[1] = s.next_seqno
    BY DEF Follow
  <1>4. /\ o \in Seq(Segments) /\ s.next_seqno \in 0 .. N + 2 /\ N \in Nat
        /\ s.bytes_in_flight \in 0 .. N + 2
    BY <1>1, SenderNumbers DEF SenderType
  <1>5. L \in Nat /\ M \in Nat \ {0} /\ Len(o \o segs) = L + M
    BY <1>3, <1>4, LenProperties, EmptySeq, ConcatProperties
  <1>6. o \o segs # <<>> /\ L + M >= L
    <2>1. L + M # 0 /\ L + M >= L
      BY <1>5
    <2>. QED  BY <2>1, <1>5, EmptySeq
  <1>7. Sends(t, now)
    BY EmitSends
  <1>8. now = [i \in 1 .. L + M + 1 |-> IF i <= L THEN at[i] ELSE pos[i - L]]
    BY DEF Then
  <1>9. at[L + 1] = s.next_seqno
    BY <1>1 DEF Queued
  <1>. HIDE DEF now, L, M, o
  <1>10. \A i \in 1 .. L + 1 : now[i] = at[i]
    <2>. TAKE i \in 1 .. L + 1
    <2>1. /\ i \in 1 .. L + M + 1
          /\ ~ (i <= L) => i - L = 1 /\ i = L + 1
      BY <1>5
    <2>. QED  BY <2>1, <1>3, <1>8, <1>9
  <1>11. /\ t.segments_outstanding = o \o segs
         /\ t.stream = s.stream /\ t.syn = s.syn /\ t.fin = s.fin
         /\ t.isn = s.isn /\ t.receiver_window_size = s.receiver_window_size
         /\ t.next_seqno = s.next_seqno + len
         /\ t.bytes_in_flight = s.bytes_in_flight + len
    BY <1>2 DEF Emitted, o
  <1>12. /\ s.next_seqno + len >= s.next_seqno
         /\ (s.next_seqno + len) - (s.bytes_in_flight + len) = s.next_seqno - s.bytes_in_flight
    BY <1>3, <1>4
  <1>. QED  BY <1>5, <1>6, <1>7, <1>10, <1>11, <1>12 DEF now, L, o

\* wrap() of zero.
LEMMA WrapZero == ASSUME NEW isn \in SeqNos PROVE wrap(0, isn) = isn
  <1>1. SeqMod \in Nat /\ SeqMod > 0
    BY SeqModAssumption
  <1>2. SeqMod * 0 + 0 = 0 /\ 0 \in 0 .. SeqMod - 1 /\ isn \in 0 .. SeqMod - 1
        /\ SeqMod * 0 + isn = isn /\ isn + 0 = isn
    BY <1>1 DEF SeqNos
  <1>3. 0 % SeqMod = 0
    BY <1>1, <1>2, ModUnique
  <1>4. isn % SeqMod = isn
    BY <1>1, <1>2, ModUnique
  <1>. QED  BY <1>2, <1>3, <1>4 DEF wrap, Plus

\* fill_window(), the first time: the SYN.
LEMMA FillSyn ==
  ASSUME NEW s, NEW at, Sends(s, at), Counted(s), ~ s.syn
  PROVE  \E now : Filled(s, at, fill_window(s), now)
  <1> DEFINE u == [s EXCEPT !.syn = TRUE]
             seg == [Segment EXCEPT !.seqno = s.isn, !.syn = TRUE]
             segs == <<seg>>
             t == fill_window(s)
             pos == [i \in 1 .. 2 |-> i - 1]
  <1>1. s \in SenderType
    BY DEF Sends
  <1>2. /\ u \in SenderType /\ u.stream = s.stream /\ u.syn = TRUE /\ u.fin = s.fin
        /\ u.isn = s.isn /\ u.segments_out = s.segments_out /\ u.next_seqno = s.next_seqno
        /\ u.segments_outstanding = s.segments_outstanding
        /\ u.bytes_in_flight = s.bytes_in_flight /\ u.timer_running = s.timer_running
        /\ u.consecutive_retransmissions = s.consecutive_retransmissions /\ u.rto = s.rto
        /\ u.receiver_window_size = s.receiver_window_size
    BY <1>1, Zenon DEF SenderType
  <1>3. t = Emit(u, segs, 1)
    BY DEF fill_window
  <1>4. s.isn \in SeqNos /\ s.fin \in BOOLEAN /\ s.bytes_in_flight \in 0 .. N + 2
    BY <1>1 DEF SenderType
  <1>5. seg \in Segments /\ seg.seqno = s.isn /\ seg.syn = TRUE /\ seg.fin = FALSE
        /\ seg.payload = <<>>
    <2>1. <<>> \in Seq(Byte)
      BY EmptySeq
    <2>2. seg \in Segments
      BY <1>4, <2>1, Zenon DEF Segment, Segments
    <2>3. seg.seqno = s.isn /\ seg.syn = TRUE /\ seg.fin = FALSE /\ seg.payload = <<>>
      BY DEF Segment
    <2>. QED  BY <2>2, <2>3
  <1>. HIDE DEF u, seg, t
  <1>6. Sends(u, at)
    BY <1>2, SameSends
  <1>7. /\ s.stream.read_count = 0 /\ ~ s.fin
        /\ s.next_seqno = 0 + s.stream.read_count + 0
    BY <1>4 DEF Counted
  <1>8. N \in Nat /\ s.next_seqno = 0
    BY <1>7, SenderNumbers
  <1>9. length_in_sequence_space(seg) = 1
    <2>1. Len(seg.payload) = 0
      BY <1>5, EmptySeq
    <2>. QED  BY <2>1, <1>5 DEF length_in_sequence_space
  <1>10. Carries(seg, s.isn, 0)
    <2>1. 0 + 1 # N + 2
      BY <1>8
    <2>2. ~ (seg.fin) /\ seg.syn
      BY <1>5
    <2>3. seg.seqno = wrap(0, s.isn)
      BY <1>4, <1>5, WrapZero
    <2>. QED  BY <1>9, <2>1, <2>2, <2>3 DEF Carries
  <1>11. /\ segs \in Seq(Segments) /\ Len(segs) = 1 /\ segs[1] = seg
    BY <1>5
  <1>12. Follow(u, segs, 1, pos)
    <2>1. segs # <<>>
      BY <1>11, EmptySeq
    <2>. HIDE DEF segs
    <2>2. pos \in [1 .. 2 -> 0 .. 1] /\ pos[1] = 0 /\ pos[2] = 1
      OBVIOUS
    <2>3. \A i, j \in 1 .. 2 : i < j => i = 1 /\ j = 2
      OBVIOUS
    <2>4. /\ u.next_seqno = 0 /\ 0 + 1 <= N + 2 /\ 0 + 1 = 1 /\ 1 + 1 = 2 /\ 0 < 1
          /\ \A i \in 1 .. 1 : i = 1
      BY <1>2, <1>8
    <2>. HIDE DEF pos
    <2>5. \A i \in 1 .. Len(segs) : /\ pos[i + 1] = pos[i] + length_in_sequence_space(segs[i])
                                    /\ Carries(segs[i], u.isn, pos[i])
      BY <1>2, <1>9, <1>10, <1>11, <2>2, <2>4
    <2>. QED  BY <1>11, <2>1, <2>2, <2>3, <2>4, <2>5 DEF Follow
  <1> DEFINE now == Then(u, at, segs, pos)
  <1>. HIDE DEF pos, segs
  <1>13. /\ Sends(t, now)
         /\ t.segments_outstanding # <<>>
         /\ t.stream = u.stream /\ t.syn = u.syn /\ t.fin = u.fin
         /\ t.isn = u.isn /\ t.receiver_window_size = u.receiver_window_size
         /\ t.next_seqno = u.next_seqno + 1
         /\ t.bytes_in_flight = u.bytes_in_flight + 1
         /\ t.next_seqno >= u.next_seqno
         /\ t.next_seqno - t.bytes_in_flight = u.next_seqno - u.bytes_in_flight
         /\ Len(t.segments_outstanding) >= Len(u.segments_outstanding)
         /\ \A i \in 1 .. Len(u.segments_outstanding) + 1 : now[i] = at[i]
    BY <1>3, <1>6, <1>12, EmitFilled
  <1>. HIDE DEF now
  <1>14. Counted(t)
    <2>1. t.next_seqno = 1 + 0 + 0 /\ t.stream = s.stream /\ t.syn /\ ~ t.fin
      BY <1>2, <1>7, <1>8, <1>13
    <2>. QED  BY <2>1, <1>7 DEF Counted
  <1>15. t.bytes_in_flight <= s.bytes_in_flight + RoomFor(s)
    BY <1>2, <1>4, <1>8, <1>13 DEF RoomFor
  <1>16. Filled(s, at, t, now)
    BY <1>2, <1>13, <1>14, <1>15 DEF Filled
  <1>. QED  BY <1>16 DEF t

\* Remain leaves room for something when nothing is in flight.
LEMMA RemainProperties ==
  ASSUME NEW s \in SenderType
  PROVE  /\ Remain(s) \in Nat
         /\ s.bytes_in_flight = 0 => Remain(s) > 0
         /\ s.bytes_in_flight <= Room(s.receiver_window_size) =>
              Remain(s) = Room(s.receiver_window_size) - s.bytes_in_flight
  <1> DEFINE w == s.receiver_window_size
             b == s.bytes_in_flight
             d == Room(w) - b
  <1>1. /\ w \in 0 .. MaxWindow /\ b \in 0 .. N + 2 /\ N \in Nat /\ MaxWindow \in Nat
        /\ SizeMod \in Nat /\ MaxWindow < SizeMod /\ N + 2 < SizeMod
    BY SenderNumbers DEF SenderType
  <1>2. Remain(s) = d % SizeMod
    <2>1. w - b + (IF w = 0 THEN 1 ELSE 0) = d
      <3>. HIDE DEF w, b
      <3>. QED  BY <1>1 DEF Room
    <2>. QED  BY <2>1 DEF Remain
  <1>. HIDE DEF w, b
  <1>3. d \in Int /\ SizeMod > 0 /\ Room(w) > 0
    BY <1>1 DEF Room
  <1>4. d % SizeMod \in 0 .. SizeMod - 1
    BY <1>1, <1>3, DivMod
  <1>5. b <= Room(w) => d \in 0 .. SizeMod - 1
    BY <1>1 DEF Room
  <1>6. d \in 0 .. SizeMod - 1 => d % SizeMod = d
    <2>1. d \in 0 .. SizeMod - 1 => (SizeMod * 0 + d) % SizeMod = d
      BY <1>1, <1>3, ModUnique
    <2>2. SizeMod * 0 + d = d
      BY <1>1, <1>3
    <2>. QED  BY <2>1, <2>2
  <1>7. b = 0 => b <= Room(w) /\ d > 0
    BY <1>1, <1>3 DEF Room
  <1>8. d % SizeMod \in Nat
    BY <1>1, <1>4
  <1>. QED  BY <1>2, <1>5, <1>6, <1>7, <1>8 DEF w, b

\* What pop_output() leaves of the stream.
LEMMA PopOutput ==
  ASSUME NEW s \in SenderType, Counted(s), NEW n \in 0 .. Len(s.stream.buffer)
  PROVE  LET st == pop_output(s.stream, n)
         IN  /\ st \in OutStream
             /\ st.read_count = s.stream.read_count + n
             /\ st.write_count = s.stream.write_count
             /\ st.buffer = SubSeq(Stream, st.read_count + 1, st.write_count)
             /\ Len(st.buffer) = Len(s.stream.buffer) - n
             /\ st.input_ended = s.stream.input_ended
  <1> DEFINE st == s.stream
             rc == st.read_count
             wc == st.write_count
             buf == st.buffer
             new == pop_output(st, n)
  <1>1. /\ N \in Nat /\ rc \in 0 .. N /\ wc \in rc .. N
        /\ buf = Part(rc, wc) /\ Len(buf) = wc - rc
    BY StreamFacts
  <1>2. st \in OutStream
    BY DEF SenderType
  <1>3. AtMost(n, buffer_size(st)) = n
    BY <1>1 DEF AtMost, buffer_size
  <1>4. new = [st EXCEPT !.buffer = SubSeq(buf, n + 1, Len(buf)), !.read_count = rc + n]
    BY <1>3 DEF pop_output
  <1>4a. n \in 0 .. wc - rc
    BY <1>1
  <1>. HIDE DEF rc, wc, buf
  <1>5. /\ n \in 0 .. wc - rc /\ wc - rc \in n .. wc - rc /\ rc + (wc - rc) = wc
        /\ rc + n \in 0 .. N /\ wc \in rc + n .. N /\ wc - (rc + n) = (wc - rc) - n
    BY <1>1, <1>4a
  <1>6. SubSeq(buf, n + 1, Len(buf)) = Part(rc + n, wc)
    BY <1>1, <1>5, PartOfPart, Zenon
  <1>7. Part(rc + n, wc) \in Seq(Byte) /\ Len(Part(rc + n, wc)) = (wc - rc) - n
    BY <1>5, PartProperties, Zenon
  <1>8. new = [st EXCEPT !.buffer = Part(rc + n, wc), !.read_count = rc + n]
    BY <1>4, <1>6, Zenon
  <1>. HIDE DEF new, st
  <1>9. /\ new \in OutStream
    BY <1>2, <1>5, <1>7, <1>8, Zenon DEF OutStream
  <1>10. /\ new.read_count = rc + n /\ new.buffer = Part(rc + n, wc)
         /\ new.write_count = st.write_count /\ new.input_ended = st.input_ended
    BY <1>2, <1>8 DEF OutStream
  <1>. QED  BY <1>1, <1>7, <1>9, <1>10, Zenon DEF new, st, rc, wc, buf, Part

\* fill_window() with bytes, or a FIN, that fit the window.
LEMMA FillData ==
  ASSUME NEW s, NEW at, Sends(s, at), Counted(s), s.syn,
         NEW n, n = AtMost(buffer_size(s.stream), Remain(s)),
         NEW fin, fin = FinFits(s, Remain(s), n), n > 0 \/ fin
  PROVE  \E now : Filled(s, at, fill_window(s), now)
  <1> DEFINE st == pop_output(s.stream, n)
             u == [s EXCEPT !.stream = pop_output(@, n), !.fin = @ \/ fin]
             segs == Packetize(s, n, fin)
             one == IF fin THEN 1 ELSE 0
             len == n + one
             t == fill_window(s)
             rc == s.stream.read_count
             remain == Remain(s)
  <1>1. s \in SenderType
    BY DEF Sends
  <1>2. /\ N \in Nat /\ rc \in 0 .. N /\ s.stream.write_count \in rc .. N
        /\ Len(s.stream.buffer) = s.stream.write_count - rc
    BY <1>1, StreamFacts
  <1>3. s.fin \in BOOLEAN /\ fin \in BOOLEAN /\ s.next_seqno \in 0 .. N + 2
        /\ s.bytes_in_flight \in 0 .. N + 2 /\ s.stream.input_ended \in BOOLEAN
    BY <1>1 DEF SenderType, FinFits, OutStream
  <1>4. remain \in Nat /\ Len(s.stream.buffer) \in Nat
    BY <1>1, <1>2, RemainProperties
  <1>5. /\ n \in 0 .. Len(s.stream.buffer) /\ n <= remain
    <2>. HIDE DEF remain
    <2>. QED  BY <1>4 DEF AtMost, buffer_size, remain
  <1>6. fin => /\ s.stream.input_ended /\ n = Len(s.stream.buffer)
               /\ remain - n >= 1 /\ (n > 0 \/ ~ s.fin)
    BY Zenon DEF FinFits, input_ended, buffer_size
  <1>7. ~ s.fin
    <2>1. SUFFICES ASSUME s.fin PROVE FALSE
      OBVIOUS
    <2>2. rc = N
      BY <2>1 DEF Counted
    <2>3. n = 0
      BY <2>2, <1>2, <1>5
    <2>. QED  BY <2>1, <2>3, <1>6
  <1>8. PICK pos : Follow(s, segs, len, pos)
    <2>1. n \in Nat
      BY <1>4, <1>5
    <2>. QED  BY <1>1, <1>3, <1>5, <1>6, <1>7, PacketizeFollows, SMTT(20)
  <1>9. /\ st \in OutStream
        /\ st.read_count = rc + n /\ st.write_count = s.stream.write_count
        /\ st.buffer = SubSeq(Stream, st.read_count + 1, st.write_count)
        /\ Len(st.buffer) = Len(s.stream.buffer) - n
        /\ st.input_ended = s.stream.input_ended
    BY <1>1, <1>5, PopOutput
  <1>10. t = Emit(u, segs, len)
    <2>1. ~ (n = 0 /\ ~ fin)
      BY <1>4, <1>5
    <2>. QED  BY <2>1 DEF fill_window
  <1>. HIDE DEF st, remain, one, segs, rc, t
  <1>11. /\ u \in SenderType /\ u.stream = st /\ u.syn = s.syn /\ u.fin = fin
         /\ u.isn = s.isn /\ u.segments_out = s.segments_out /\ u.next_seqno = s.next_seqno
         /\ u.segments_outstanding = s.segments_outstanding
         /\ u.bytes_in_flight = s.bytes_in_flight /\ u.timer_running = s.timer_running
         /\ u.consecutive_retransmissions = s.consecutive_retransmissions /\ u.rto = s.rto
         /\ u.receiver_window_size = s.receiver_window_size
    <2>1. u = [s EXCEPT !.stream = st, !.fin = fin]
      BY <1>3, <1>7, Zenon DEF st
    <2>. HIDE DEF u
    <2>. QED  BY <2>1, <1>1, <1>3, <1>9, Zenon DEF SenderType
  <1>. HIDE DEF u
  <1>12. Sends(u, at)
    BY <1>11, SameSends
  <1>13. Follow(u, segs, len, pos)
    BY <1>8, <1>11 DEF Follow
  <1> DEFINE now == Then(u, at, segs, pos)
  <1>14. /\ Sends(t, now)
         /\ t.segments_outstanding # <<>>
         /\ t.stream = u.stream /\ t.syn = u.syn /\ t.fin = u.fin
         /\ t.isn = u.isn /\ t.receiver_window_size = u.receiver_window_size
         /\ t.next_seqno = u.next_seqno + len
         /\ t.bytes_in_flight = u.bytes_in_flight + len
         /\ t.next_seqno >= u.next_seqno
         /\ t.next_seqno - t.bytes_in_flight = u.next_seqno - u.bytes_in_flight
         /\ Len(t.segments_outstanding) >= Len(u.segments_outstanding)
         /\ \A i \in 1 .. Len(u.segments_outstanding) + 1 : now[i] = at[i]
    <2>. HIDE DEF len
    <2>. QED  BY <1>10, <1>12, <1>13, EmitFilled
  <1>. HIDE DEF now
  <1>15. one \in {0, 1} /\ (fin => one = 1) /\ (~ fin => one = 0)
    BY DEF one
  <1>16. Counted(t)
    <2>1. t.stream = st /\ t.syn /\ t.fin = fin /\ t.next_seqno = s.next_seqno + (n + one)
      BY <1>11, <1>14
    <2>2. s.next_seqno = 1 + rc + 0
      BY <1>7 DEF Counted, rc
    <2>3. t.next_seqno = 1 + st.read_count + one
      BY <2>1, <2>2, <1>2, <1>4, <1>5, <1>9, <1>15
    <2>4. /\ st.read_count <= st.write_count
          /\ st.write_count - st.read_count <= Capacity
      <3>1. s.stream.write_count - rc <= Capacity /\ Capacity \in Nat
        BY SenderSpecAssumption DEF Counted, rc
      <3>. QED  BY <3>1, <1>2, <1>5, <1>9, SMTT(20) DEF rc
    <2>5. st.input_ended => st.write_count = N
      BY <1>9 DEF Counted
    <2>6. fin => st.input_ended /\ st.read_count = N
      BY <2>5, <1>2, <1>6, <1>9
    <2>. QED  BY <1>9, <2>1, <2>3, <2>4, <2>5, <2>6 DEF Counted, one
  <1>17. t.bytes_in_flight <= s.bytes_in_flight + RoomFor(s)
    <2>1. RoomFor(s) = remain
      BY DEF RoomFor, remain
    <2>2. len <= remain
      BY <1>4, <1>5, <1>6, <1>15
    <2>3. t.bytes_in_flight = s.bytes_in_flight + len /\ len \in Nat
      BY <1>4, <1>5, <1>11, <1>14, <1>15
    <2>. HIDE DEF len
    <2>. QED  BY <2>1, <2>2, <2>3, <1>3, <1>4
  <1>18. Filled(s, at, t, now)
    BY <1>11, <1>14, <1>16, <1>17 DEF Filled
  <1>. QED  BY <1>18 DEF t

\* fill_window() sends what fits and, with nothing in flight, is left with
\* nothing to send.
LEMMA FillKeeps ==
  ASSUME NEW s, NEW at, Sends(s, at), Counted(s)
  PROVE  \E now : Filled(s, at, fill_window(s), now)
  <1> DEFINE n == AtMost(buffer_size(s.stream), Remain(s))
             fin == FinFits(s, Remain(s), n)
  <1>1. CASE ~ s.syn
    BY <1>1, FillSyn
  <1>2. s \in SenderType /\ Queued(s, at)
    BY DEF Sends
  <1>3. Remain(s) \in Nat /\ (s.bytes_in_flight = 0 => Remain(s) > 0)
    BY <1>2, RemainProperties
  <1>4. Len(s.stream.buffer) \in Nat
    <2>1. s.stream.buffer \in Seq(Byte)
      BY <1>2, StreamFacts
    <2>. QED  BY <2>1, LenProperties
  <1>5. n \in Nat /\ n <= Remain(s) /\ (n = 0 => Remain(s) = 0 \/ Len(s.stream.buffer) = 0)
    BY <1>3, <1>4 DEF AtMost, buffer_size
  <1>6. CASE s.syn /\ (n > 0 \/ fin)
    <2>. HIDE DEF n, fin
    <2>. QED  BY <1>6, FillData DEF n, fin
  <1>7. CASE s.syn /\ ~ (n > 0 \/ fin)
    <2>1. n = 0 /\ ~ fin
      BY <1>5, <1>7
    <2>2. fill_window(s) = s
      BY <1>7, <2>1 DEF fill_window
    <2>3. s.segments_outstanding = <<>> => AllSent(s)
      <3>1. SUFFICES ASSUME s.segments_outstanding = <<>> PROVE AllSent(s)
        OBVIOUS
      <3>2. s.bytes_in_flight = 0
        BY <1>2, <3>1, InFlightOrNot
      <3>3. Remain(s) > 0 /\ Len(s.stream.buffer) = 0 /\ Remain(s) - 0 >= 1
        BY <1>3, <1>5, <2>1, <3>2
      <3>4. input_ended(s.stream) => s.fin
        BY <2>1, <3>3 DEF FinFits, buffer_size
      <3>. QED  BY <3>3, <3>4 DEF AllSent, buffer_empty, buffer_size
    <2>4. /\ s.next_seqno \in 0 .. N + 2 /\ s.bytes_in_flight \in 0 .. N + 2 /\ N \in Nat
          /\ s.segments_outstanding \in Seq(Segments)
      BY <1>2, SenderNumbers DEF SenderType
    <2>5. /\ s.next_seqno >= s.next_seqno
          /\ s.bytes_in_flight <= s.bytes_in_flight + RoomFor(s)
      BY <2>4, <1>3, <1>7 DEF RoomFor
    <2>6. Len(s.segments_outstanding) >= Len(s.segments_outstanding)
      BY <2>4, LenProperties
    <2>7. Filled(s, at, s, at)
      BY <1>7, <2>3, <2>5, <2>6 DEF Filled
    <2>. QED  BY <2>2, <2>7
  <1>. QED  BY <1>1, <1>6, <1>7

-----------------------------------------------------------------------------
\* The owner has taken the segments of the last call.
LEMMA TakenKeeps ==
  ASSUME NEW s, NEW at, Sends(s, at), Counted(s),
         NEW t, t = [s EXCEPT !.segments_out = <<>>]
  PROVE  /\ Sends(t, at) /\ Counted(t)
         /\ t.isn = s.isn /\ t.next_seqno = s.next_seqno /\ t.stream = s.stream
         /\ t.segments_outstanding = s.segments_outstanding
         /\ t.bytes_in_flight = s.bytes_in_flight /\ t.syn = s.syn /\ t.fin = s.fin
         /\ t.receiver_window_size = s.receiver_window_size
         /\ t.consecutive_retransmissions = s.consecutive_retransmissions
  <1>1. s \in SenderType
    BY DEF Sends
  <1>2. /\ t.isn = s.isn /\ t.segments_out = <<>> /\ t.next_seqno = s.next_seqno
        /\ t.segments_outstanding = s.segments_outstanding
        /\ t.bytes_in_flight = s.bytes_in_flight /\ t.timer_running = s.timer_running
        /\ t.consecutive_retransmissions = s.consecutive_retransmissions /\ t.rto = s.rto
        /\ t.stream = s.stream /\ t.syn = s.syn /\ t.fin = s.fin
        /\ t.receiver_window_size = s.receiver_window_size
    BY <1>1 DEF SenderType
  <1>3. <<>> \in Seq(Segments) /\ Len(<<>>) = 0
    BY EmptySeq
  <1>4. t \in SenderType
    BY <1>1, <1>3, Zenon DEF SenderType
  <1>5. HandedOut(t)
    <2>1. \A i \in 1 .. 0 : FALSE
      OBVIOUS
    <2>. QED  BY <1>2, <1>3, <2>1 DEF HandedOut
  <1>6. Queued(t, at) /\ Timed(t)
    BY <1>2 DEF Sends, Queued, Timed
  <1>7. Counted(t)
    BY <1>2 DEF Counted
  <1>. QED  BY <1>2, <1>4, <1>5, <1>6, <1>7 DEF Sends

\* The stream after write().
LEMMA WriteStream ==
  ASSUME NEW s \in SenderType, Counted(s), ~ s.stream.input_ended,
         NEW len \in Nat, s.stream.write_count + len <= N
  PROVE  LET st == s.stream
             new == write(st, SubSeq(Stream, st.write_count + 1, st.write_count + len))
         IN  /\ new \in OutStream
             /\ new.read_count = st.read_count
             /\ new.write_count \in st.write_count .. N
             /\ new.write_count - st.read_count <= Capacity
             /\ new.buffer = SubSeq(Stream, st.read_count + 1, new.write_count)
             /\ new.input_ended = st.input_ended
  <1> DEFINE st == s.stream
             rc == st.read_count
             wc == st.write_count
             data == Part(wc, wc + len)
             free == Capacity - Len(st.buffer)
             l == AtMost(Len(data), free)
             new == write(st, data)
  <1>1. /\ N \in Nat /\ rc \in 0 .. N /\ wc \in rc .. N
        /\ st.buffer = Part(rc, wc) /\ Len(st.buffer) = wc - rc
    BY StreamFacts
  <1>2. st \in OutStream /\ st.capacity = Capacity
    BY Zenon DEF SenderType, OutStream
  <1>3. Capacity \in Nat /\ wc - rc <= Capacity
    BY SenderSpecAssumption DEF Counted
  <1>3a. wc + len <= N
    OBVIOUS
  <1>. HIDE DEF rc, wc
  <1>4. wc \in 0 .. N /\ wc + len \in wc .. N /\ (wc + len) - wc = len
    BY <1>1, <1>3a
  <1>5. data \in Seq(Byte) /\ Len(data) = len
    BY <1>4, PartProperties
  <1>6. l \in 0 .. len /\ l <= free
    BY <1>1, <1>3, <1>5 DEF AtMost
  <1>7. new = [st EXCEPT !.buffer = st.buffer \o SubSeq(data, 1, l),
                         !.write_count = wc + l]
    BY <1>2 DEF write, remaining_capacity, buffer_size, wc
  <1>. HIDE DEF l
  <1>8. /\ 0 \in 0 .. (wc + len) - wc /\ l \in 0 .. (wc + len) - wc /\ wc + 0 = wc /\ 0 + 1 = 1
        /\ wc + l \in wc .. N /\ wc + l \in rc .. N /\ (wc + l) - rc <= Capacity
        /\ wc + l \in 0 .. N
    BY <1>1, <1>3, <1>4, <1>6
  <1>9. SubSeq(data, 0 + 1, l) = Part(wc + 0, wc + l)
    BY <1>4, <1>8, PartOfPart, Zenon
  <1>10. Part(rc, wc) \o Part(wc, wc + l) = Part(rc, wc + l)
    BY <1>1, <1>8, PartJoin, Zenon
  <1>11. Part(rc, wc + l) \in Seq(Byte)
    BY <1>1, <1>8, PartProperties, Zenon
  <1>12. new = [st EXCEPT !.buffer = Part(rc, wc + l), !.write_count = wc + l]
    BY <1>1, <1>7, <1>8, <1>9, <1>10, Zenon
  <1>. HIDE DEF new, st
  <1>13. new \in OutStream
    BY <1>2, <1>8, <1>11, <1>12, Zenon DEF OutStream
  <1>14. /\ new.read_count = st.read_count /\ new.write_count = wc + l
         /\ new.buffer = Part(rc, wc + l) /\ new.input_ended = st.input_ended
    BY <1>2, <1>12 DEF OutStream
  <1>. QED  BY <1>8, <1>13, <1>14 DEF new, st, rc, wc, data, Part

\* The owner writes.
LEMMA WriteKeeps ==
  ASSUME NEW s, NEW at, Sends(s, at), Counted(s), ~ s.stream.input_ended,
         NEW len \in Nat, s.stream.write_count + len <= N,
         NEW st, st = write(s.stream, SubSeq(Stream, s.stream.write_count + 1,
                                             s.stream.write_count + len)),
         NEW t, t = [s EXCEPT !.stream = st]
  PROVE  Sends(t, at) /\ Counted(t)
  <1>1. s \in SenderType
    BY DEF Sends
  <1>2. /\ st \in OutStream
        /\ st.read_count = s.stream.read_count
        /\ st.write_count \in s.stream.write_count .. N
        /\ st.write_count - s.stream.read_count <= Capacity
        /\ st.buffer = SubSeq(Stream, s.stream.read_count + 1, st.write_count)
        /\ st.input_ended = s.stream.input_ended
    BY <1>1, WriteStream
  <1>3. /\ t.isn = s.isn /\ t.segments_out = s.segments_out /\ t.next_seqno = s.next_seqno
        /\ t.segments_outstanding = s.segments_outstanding
        /\ t.bytes_in_flight = s.bytes_in_flight /\ t.timer_running = s.timer_running
        /\ t.consecutive_retransmissions = s.consecutive_retransmissions /\ t.rto = s.rto
        /\ t.stream = st /\ t.syn = s.syn /\ t.fin = s.fin /\ t \in SenderType
    BY <1>1, <1>2, Zenon DEF SenderType
  <1>4. Sends(t, at)
    BY <1>3, SameSends, Zenon
  <1>5. st.read_count <= st.write_count
    <2>1. /\ s.stream.read_count \in 0 .. N /\ s.stream.write_count \in s.stream.read_count .. N
          /\ N \in Nat
      BY <1>1, StreamFacts
    <2>. QED  BY <2>1, <1>2, SMTT(20)
  <1>6. ~ s.fin
    BY DEF Counted
  <1>7. Counted(t)
    BY <1>2, <1>3, <1>5, <1>6 DEF Counted
  <1>. QED  BY <1>4, <1>7

\* The owner ends its stream.
LEMMA EndKeeps ==
  ASSUME NEW s, NEW at, Sends(s, at), Counted(s), s.stream.write_count = N,
         NEW t, t = [s EXCEPT !.stream = end_input(@)]
  PROVE  Sends(t, at) /\ Counted(t)
  <1>1. s \in SenderType /\ s.stream \in OutStream
    BY DEF Sends, SenderType
  <1>2. /\ end_input(s.stream) \in OutStream
        /\ end_input(s.stream).read_count = s.stream.read_count
        /\ end_input(s.stream).write_count = s.stream.write_count
        /\ end_input(s.stream).buffer = s.stream.buffer
        /\ end_input(s.stream).input_ended = TRUE
    BY <1>1, Zenon DEF OutStream, end_input
  <1>3. /\ t.isn = s.isn /\ t.segments_out = s.segments_out /\ t.next_seqno = s.next_seqno
        /\ t.segments_outstanding = s.segments_outstanding
        /\ t.bytes_in_flight = s.bytes_in_flight /\ t.timer_running = s.timer_running
        /\ t.consecutive_retransmissions = s.consecutive_retransmissions /\ t.rto = s.rto
        /\ t.stream = end_input(s.stream) /\ t.syn = s.syn /\ t.fin = s.fin
        /\ t \in SenderType
    BY <1>1, <1>2, SMTT(20) DEF SenderType
  <1>4. Sends(t, at)
    BY <1>3, SameSends, Zenon
  <1>5. Counted(t)
    BY <1>2, <1>3 DEF Counted
  <1>. QED  BY <1>4, <1>5

\* Sends again, one more retransmission in a row, or neither.
LEMMA TickKeeps ==
  ASSUME NEW s, NEW at, Sends(s, at), Counted(s), NEW t, t = sender_tick(s, 1)
  PROVE  /\ Sends(t, at) /\ Counted(t)
         /\ t.isn = s.isn /\ t.next_seqno = s.next_seqno /\ t.stream = s.stream
         /\ t.segments_outstanding = s.segments_outstanding
         /\ t.bytes_in_flight = s.bytes_in_flight /\ t.syn = s.syn /\ t.fin = s.fin
         /\ t.receiver_window_size = s.receiver_window_size
  <1> DEFINE o == s.segments_outstanding
             oldest == Head(o)
             expired == s.tick + 1 >= s.rto /\ o # <<>>
             backoff == s.receiver_window_size # 0 \/ oldest.syn
             cr == s.consecutive_retransmissions
  <1>1. s \in SenderType /\ Queued(s, at) /\ HandedOut(s) /\ Timed(s)
    BY DEF Sends
  <1>2. /\ s.tick \in Nat /\ s.rto \in Nat /\ cr \in Nat /\ o \in Seq(Segments)
        /\ s.segments_out \in Seq(Segments) /\ s.next_seqno \in 0 .. N + 2
        /\ s.timer_running \in BOOLEAN
    BY <1>1 DEF SenderType
  <1>3. CASE ~ expired
    <2>1. t = [s EXCEPT !.tick = AtMost(s.tick + 1, s.rto)]
      BY <1>3 DEF sender_tick
    <2>2. AtMost(s.tick + 1, s.rto) \in Nat
      BY <1>2 DEF AtMost
    <2>3. /\ t.isn = s.isn /\ t.segments_out = s.segments_out /\ t.next_seqno = s.next_seqno
          /\ t.segments_outstanding = s.segments_outstanding
          /\ t.bytes_in_flight = s.bytes_in_flight /\ t.timer_running = s.timer_running
          /\ t.consecutive_retransmissions = s.consecutive_retransmissions /\ t.rto = s.rto
          /\ t.stream = s.stream /\ t.syn = s.syn /\ t.fin = s.fin
          /\ t.receiver_window_size = s.receiver_window_size /\ t \in SenderType
      BY <1>1, <2>1, <2>2, SMTT(20) DEF SenderType
    <2>4. Sends(t, at)
      BY <2>3, SameSends
    <2>5. Counted(t)
      BY <2>3 DEF Counted
    <2>. QED  BY <2>3, <2>4, <2>5
  <1>4. CASE expired
    <2> DEFINE out == Append(s.segments_out, oldest)
               cr2 == IF backoff THEN cr + 1 ELSE cr
               rto2 == IF backoff THEN 2 * s.rto ELSE s.rto
    <2>1. t = [s EXCEPT !.segments_out = out, !.consecutive_retransmissions = cr2,
                        !.rto = rto2, !.tick = 0]
      BY <1>4 DEF sender_tick
    <2>2. o # <<>> /\ oldest \in Segments /\ Len(o) \in Nat \ {0} /\ oldest = o[1]
      BY <1>2, <1>4, HeadTailProperties, EmptySeq
    <2>3. /\ out \in Seq(Segments) /\ Len(out) = Len(s.segments_out) + 1
          /\ \A i \in 1 .. Len(s.segments_out) : out[i] = s.segments_out[i]
          /\ out[Len(s.segments_out) + 1] = oldest
      BY <1>2, <2>2, AppendProperties
    <2>4. cr2 \in Nat /\ rto2 \in Nat
      <3>1. cr + 1 \in Nat /\ 2 * s.rto \in Nat
        BY <1>2
      <3>. QED  BY <1>2, <3>1
    <2>5. rto2 = BackedOff(cr2) /\ s.timer_running
      <3>1. s.timer_running /\ s.rto = BackedOff(cr)
        BY <1>1, <2>2 DEF Timed
      <3>2. BackedOff(cr + 1) = 2 * BackedOff(cr)
        BY <1>2, BackedOffProperties, Zenon
      <3>. QED  BY <3>1, <3>2
    <2>. HIDE DEF out, cr2, rto2, o, oldest
    <2>6. /\ t.isn = s.isn /\ t.segments_out = out /\ t.next_seqno = s.next_seqno
          /\ t.segments_outstanding = s.segments_outstanding
          /\ t.bytes_in_flight = s.bytes_in_flight /\ t.timer_running = s.timer_running
          /\ t.consecutive_retransmissions = cr2 /\ t.rto = rto2
          /\ t.stream = s.stream /\ t.syn = s.syn /\ t.fin = s.fin
          /\ t.receiver_window_size = s.receiver_window_size
      BY <1>1, <2>1, Zenon DEF SenderType
    <2>7. t \in SenderType
      <3>1. t.tick = 0 /\ DOMAIN t = DOMAIN s /\ t = [f \in DOMAIN t |-> t[f]]
        BY <1>1, <2>1, Zenon DEF SenderType
      <3>2. Typed(s)
        BY <1>1, SenderFields
      <3>3. Typed(t)
        <4>1. 0 \in Nat
          OBVIOUS
        <4>. QED  BY <2>3, <2>4, <2>6, <3>1, <3>2, <4>1, Zenon DEF Typed
      <3>. QED  BY <1>1, <3>1, <3>3, IsSender
    <2>8. Queued(t, at)
      BY <1>1, <2>6 DEF Queued
    <2>9. Timed(t)
      BY <2>2, <2>5, <2>6, Zenon DEF Timed, o
    <2>10. HandedOut(t)
      <3> DEFINE L == Len(s.segments_out)
      <3>1. L \in Nat
        BY <1>2, LenProperties
      <3>2. ASSUME NEW i \in 1 .. L
            PROVE  \E a \in 0 .. s.next_seqno :
                     /\ Carries(out[i], s.isn, a)
                     /\ a + length_in_sequence_space(out[i]) <= s.next_seqno
        BY <1>1, <2>3 DEF HandedOut
      <3>3. \E a \in 0 .. s.next_seqno :
              /\ Carries(oldest, s.isn, a)
              /\ a + length_in_sequence_space(oldest) <= s.next_seqno
        <4>1. 1 \in 1 .. Len(o) /\ 1 \in 1 .. Len(o) + 1 /\ 1 + 1 \in 1 .. Len(o) + 1
          BY <2>2
        <4>2. /\ at[1] \in 0 .. s.next_seqno /\ at[1 + 1] \in 0 .. s.next_seqno
              /\ at[1 + 1] = at[1] + length_in_sequence_space(o[1])
              /\ Carries(o[1], s.isn, at[1])
          BY <1>1, <4>1 DEF Queued, o
        <4>3. at[1 + 1] <= s.next_seqno
          BY <1>2, <4>2
        <4>. QED  BY <2>2, <4>2, <4>3
      <3>4. \A i \in 1 .. L + 1 : i \in 1 .. L \/ i = L + 1
        BY <3>1
      <3>. QED  BY <2>3, <2>6, <3>2, <3>3, <3>4, SMTT(20) DEF HandedOut
    <2>11. Counted(t)
      BY <2>6 DEF Counted
    <2>. QED  BY <2>6, <2>7, <2>8, <2>9, <2>10, <2>11 DEF Sends
  <1>. QED  BY <1>3, <1>4

\* A new window.
LEMMA WindowKeeps ==
  ASSUME NEW s, NEW at, Sends(s, at), Counted(s), NEW window_size \in 0 .. MaxWindow,
         NEW t, t = [s EXCEPT !.receiver_window_size = window_size]
  PROVE  /\ Sends(t, at) /\ Counted(t)
         /\ t.isn = s.isn /\ t.next_seqno = s.next_seqno /\ t.stream = s.stream
         /\ t.segments_outstanding = s.segments_outstanding
         /\ t.bytes_in_flight = s.bytes_in_flight /\ t.syn = s.syn /\ t.fin = s.fin
         /\ t.receiver_window_size = window_size
  <1>1. s \in SenderType
    BY DEF Sends
  <1>2. /\ t.isn = s.isn /\ t.segments_out = s.segments_out /\ t.next_seqno = s.next_seqno
        /\ t.segments_outstanding = s.segments_outstanding
        /\ t.bytes_in_flight = s.bytes_in_flight /\ t.timer_running = s.timer_running
        /\ t.consecutive_retransmissions = s.consecutive_retransmissions /\ t.rto = s.rto
        /\ t.stream = s.stream /\ t.syn = s.syn /\ t.fin = s.fin /\ t \in SenderType
        /\ t.receiver_window_size = window_size
    BY <1>1, Zenon DEF SenderType
  <1>3. Sends(t, at)
    BY <1>2, SameSends, Zenon
  <1>4. Counted(t)
    BY <1>2 DEF Counted
  <1>. QED  BY <1>2, <1>3, <1>4

\* ack_received() pops every segment, oldest first, that ends at or before ack.
LEMMA AcknowledgedProperties ==
  ASSUME NEW s, NEW at, s \in SenderType, Queued(s, at), NEW ack \in Int
  PROVE  LET k == Acknowledged(s, ack)
             L == Len(s.segments_outstanding)
         IN  /\ k \in 0 .. L
             /\ \A i \in 1 .. k : at[i + 1] <= ack
             /\ k < L => ack < at[k + 2]
  <1> DEFINE o == s.segments_outstanding
             L == Len(o)
             P(k) == /\ \A i \in 1 .. k : EndOf(s, o[i]) - 1 < ack
                     /\ k < L => EndOf(s, o[k + 1]) - 1 >= ack
             late == {i \in 1 .. L : ~ (EndOf(s, o[i]) - 1 < ack)}
  <1>1. /\ o \in Seq(Segments) /\ s.next_seqno \in 0 .. N + 2
    BY DEF SenderType
  <1>2. L \in Nat
    BY <1>1, LenProperties
  <1>3. \A i \in 1 .. L : EndOf(s, o[i]) = at[i + 1]
    BY QueuedEnds
  <1>4. \A i \in 1 .. L : at[i + 1] \in Int
    <2>1. at \in [1 .. L + 1 -> 0 .. s.next_seqno]
      BY DEF Queued
    <2>2. \A i \in 1 .. L : i + 1 \in 1 .. L + 1
      BY <1>2
    <2>3. \A i \in 1 .. L : at[i + 1] \in 0 .. s.next_seqno
      BY <2>1, <2>2
    <2>. QED  BY <2>3, <1>1, SenderNumbers
  <1>5. Acknowledged(s, ack) = CHOOSE k \in 0 .. L : P(k)
    BY DEF Acknowledged
  <1>. HIDE DEF o, L
  <1>6. \E k \in 0 .. L : P(k)
    <2>1. CASE late = {}
      <3>1. L \in 0 .. L /\ ~ (L < L) /\ \A i \in 1 .. L : EndOf(s, o[i]) - 1 < ack
        BY <1>2, <2>1
      <3>. QED  BY <3>1
    <2>2. CASE late # {}
      <3>1. late \subseteq Nat
        BY <1>2
      <3>2. PICK m \in late : \A y \in late : m <= y
        BY <2>2, <3>1, LeastMember, Zenon
      <3>3. m \in 1 .. L /\ ~ (EndOf(s, o[m]) - 1 < ack)
        BY <3>2
      <3>4. /\ m - 1 \in 0 .. L /\ (m - 1) + 1 = m
            /\ \A i \in 1 .. m - 1 : i \in 1 .. L /\ ~ (m <= i)
        BY <1>2, <3>3
      <3>5. \A i \in 1 .. m - 1 : EndOf(s, o[i]) - 1 < ack
        BY <3>2, <3>4
      <3>6. EndOf(s, o[m]) - 1 >= ack
        <4>1. EndOf(s, o[m]) \in Int
          BY <1>3, <1>4, <3>3
        <4>. QED  BY <3>3, <4>1
      <3>7. P(m - 1)
        BY <3>4, <3>5, <3>6
      <3>. QED  BY <3>4, <3>7
    <2>. QED  BY <2>1, <2>2
  <1> DEFINE k == Acknowledged(s, ack)
  <1>7. k \in 0 .. L /\ P(k)
    BY <1>5, <1>6
  <1>. HIDE DEF k
  <1>8. \A i \in 1 .. k : at[i + 1] <= ack
    <2>. TAKE i \in 1 .. k
    <2>1. i \in 1 .. L
      BY <1>2, <1>7
    <2>2. at[i + 1] - 1 < ack /\ at[i + 1] \in Int
      BY <1>3, <1>4, <1>7, <2>1
    <2>. QED  BY <2>2
  <1>9. k < L => ack < at[k + 2]
    <2>. HAVE k < L
    <2>1. k + 1 \in 1 .. L /\ (k + 1) + 1 = k + 2
      BY <1>2, <1>7
    <2>2. at[k + 2] - 1 >= ack /\ at[k + 2] \in Int
      BY <1>3, <1>4, <1>7, <2>1
    <2>. QED  BY <2>2
  <1>. QED  BY <1>7, <1>8, <1>9 DEF k, L, o

\* The positions that are left when the k oldest segments are gone.
After(s, at, k) ==
  [i \in 1 .. (Len(s.segments_outstanding) - k) + 1 |-> at[i + k]]

\* t is s without its k oldest segments.
Popped(s, at, k, t) ==
  /\ Sends(t, After(s, at, k)) /\ Counted(t)
  /\ t.isn = s.isn /\ t.next_seqno = s.next_seqno /\ t.syn = s.syn
  /\ t.receiver_window_size = s.receiver_window_size
  /\ Len(t.segments_outstanding) = Len(s.segments_outstanding) - k

\* Dropping the k oldest segments leaves the others as they are.
LEMMA PopQueued ==
  ASSUME NEW s \in SenderType, NEW at, Queued(s, at),
         NEW k \in 1 .. Len(s.segments_outstanding),
         NEW t, t.isn = s.isn, t.next_seqno = s.next_seqno,
         t.segments_outstanding =
           SubSeq(s.segments_outstanding, k + 1, Len(s.segments_outstanding)),
         t.bytes_in_flight =
           s.bytes_in_flight - TotalLength(SubSeq(s.segments_outstanding, 1, k))
  PROVE  /\ t.segments_outstanding \in Seq(Segments)
         /\ Len(t.segments_outstanding) = Len(s.segments_outstanding) - k
         /\ t.bytes_in_flight \in 0 .. N + 2
         /\ Queued(t, After(s, at, k))
  <1> DEFINE o == s.segments_outstanding
             L == Len(o)
             p == SubSeq(o, k + 1, L)
             gone == SubSeq(o, 1, k)
             next == s.next_seqno
             q == After(s, at, k)
  <1>1. /\ o \in Seq(Segments) /\ next \in 0 .. N + 2 /\ N \in Nat
        /\ s.bytes_in_flight \in 0 .. N + 2
    BY SenderNumbers DEF SenderType
  <1>2. L \in Nat /\ \A i \in 1 .. L : o[i] \in Segments
    BY <1>1, LenProperties, ElementOfSeq
  <1>3. /\ at \in [1 .. L + 1 -> 0 .. next]
        /\ at[1] = next - s.bytes_in_flight
        /\ at[L + 1] = next
        /\ \A i, j \in 1 .. L + 1 : i < j => at[i] < at[j]
        /\ \A i \in 1 .. L : at[i + 1] = at[i] + length_in_sequence_space(o[i])
        /\ \A i \in 1 .. L : Carries(o[i], s.isn, at[i])
    BY DEF Queued
  <1>4. /\ k + 1 \in Int /\ L \in Int /\ 1 \in Int /\ k \in Int
        /\ \A i \in k + 1 .. L : i \in 1 .. L
        /\ \A i \in 1 .. k : i \in 1 .. L
    BY <1>2
  <1>5. /\ p \in Seq(Segments)
        /\ Len(p) = IF k + 1 <= L THEN L - (k + 1) + 1 ELSE 0
        /\ \A i \in 1 .. L - (k + 1) + 1 : p[i] = o[(k + 1) + i - 1]
    <2>1. \A i \in k + 1 .. L : o[i] \in Segments
      BY <1>2, <1>4
    <2>. QED  BY <2>1, <1>4, SubSeqProperties
  <1>6. /\ gone \in Seq(Segments)
        /\ Len(gone) = IF 1 <= k THEN k - 1 + 1 ELSE 0
        /\ \A i \in 1 .. k - 1 + 1 : gone[i] = o[1 + i - 1]
    <2>1. \A i \in 1 .. k : o[i] \in Segments
      BY <1>2, <1>4
    <2>. QED  BY <2>1, <1>4, SubSeqProperties
  <1>7. q = [i \in 1 .. (L - k) + 1 |-> at[i + k]]
    BY DEF After
  <1>8. t.segments_outstanding = p /\ t.bytes_in_flight = s.bytes_in_flight - TotalLength(gone)
    OBVIOUS
  <1>. HIDE DEF o, L, p, gone, next, q
  <1>9. Len(p) = L - k /\ \A i \in 1 .. L - k : p[i] = o[i + k]
    <2>1. /\ L - (k + 1) + 1 = L - k /\ (~ (k + 1 <= L) => L - k = 0)
          /\ \A i \in 1 .. L - k : (k + 1) + i - 1 = i + k
      BY <1>2 DEF L, o
    <2>. QED  BY <1>5, <2>1
  <1>10. Len(gone) = k /\ \A i \in 1 .. k : gone[i] = o[i]
    <2>1. 1 <= k /\ k - 1 + 1 = k /\ \A i \in 1 .. k : 1 + i - 1 = i
      BY <1>4
    <2>. QED  BY <1>6, <2>1
  <1>11. \A i \in 1 .. L + 1 : at[i] \in 0 .. next /\ at[i] \in Int
    <2>1. \A i \in 1 .. L + 1 : at[i] \in 0 .. next
      BY <1>3
    <2>. QED  BY <2>1, <1>1
  <1>12. TotalLength(gone) = at[k + 1] - at[1]
    <2>1. /\ \A i \in 1 .. k + 1 : i \in 1 .. L + 1
      BY <1>2, <1>4 DEF L, o
    <2>2. /\ Len(gone) \in Nat
          /\ \A i \in 1 .. Len(gone) + 1 : at[i] \in Int
          /\ \A i \in 1 .. Len(gone) : at[i + 1] = at[i] + length_in_sequence_space(gone[i])
      BY <1>3, <1>4, <1>6, <1>10, <1>11, <2>1, LenProperties, Zenon
    <2>3. \A i \in 1 .. Len(gone) : length_in_sequence_space(gone[i]) \in Nat
      BY <1>2, <1>4, <1>10, SegmentLength, Zenon
    <2>. QED  BY <2>2, <2>3, <1>10, Telescopes, Zenon
  <1>13. /\ \A i \in 1 .. (L - k) + 1 : i + k \in 1 .. L + 1
         /\ \A i \in 1 .. L - k : /\ i + k \in 1 .. L /\ (i + 1) + k = (i + k) + 1
                                  /\ i \in 1 .. (L - k) + 1 /\ i + 1 \in 1 .. (L - k) + 1
         /\ 1 \in 1 .. (L - k) + 1 /\ (L - k) + 1 \in 1 .. (L - k) + 1
         /\ ((L - k) + 1) + k = L + 1 /\ 1 + k = k + 1 /\ k + 1 \in 1 .. L + 1
         /\ \A i, j \in 1 .. (L - k) + 1 : i < j => i + k < j + k
    BY <1>2, <1>4 DEF L, o
  <1>14. s.bytes_in_flight - TotalLength(gone) = next - at[k + 1]
         /\ next - at[k + 1] \in 0 .. N + 2
         /\ next - (next - at[k + 1]) = at[k + 1]
    <2>1. at[k + 1] \in 0 .. next /\ at[1] \in Int
      BY <1>1, <1>3, <1>11, <1>13
    <2>2. at[1] = next - s.bytes_in_flight /\ next \in 0 .. N + 2 /\ s.bytes_in_flight \in Int
      BY <1>1, <1>3
    <2> DEFINE x == at[k + 1]
               y == at[1]
               b == s.bytes_in_flight
    <2>3. x \in 0 .. next /\ y = next - b /\ next \in 0 .. N + 2 /\ b \in Int
      BY <2>1, <2>2
    <2>. HIDE DEF x, y, b
    <2>4. b - (x - y) = next - x /\ next - x \in 0 .. N + 2 /\ next - (next - x) = x
      BY <2>3, SenderNumbers
    <2>5. /\ s.bytes_in_flight - (at[k + 1] - at[1]) = next - at[k + 1]
          /\ next - at[k + 1] \in 0 .. N + 2 /\ next - (next - at[k + 1]) = at[k + 1]
      BY <2>4 DEF x, y, b
    <2>. QED  BY <2>5, <1>12, Zenon
  <1>15. \A i \in 1 .. (L - k) + 1 : q[i] = at[i + k]
    BY <1>7
  <1>16. /\ q \in [1 .. (L - k) + 1 -> 0 .. next]
         /\ q[1] = at[k + 1] /\ q[(L - k) + 1] = next
    BY <1>3, <1>7, <1>11, <1>13
  <1>17. \A i, j \in 1 .. (L - k) + 1 : i < j => q[i] < q[j]
    BY <1>3, <1>13, <1>15
  <1>18. \A i \in 1 .. L - k : /\ q[i + 1] = q[i] + length_in_sequence_space(p[i])
                               /\ Carries(p[i], s.isn, q[i])
    <2>1. TAKE i \in 1 .. L - k
    <2>2. /\ i + k \in 1 .. L /\ (i + 1) + k = (i + k) + 1
          /\ i \in 1 .. (L - k) + 1 /\ i + 1 \in 1 .. (L - k) + 1
      BY <1>13
    <2>3. q[i] = at[i + k] /\ q[i + 1] = at[(i + k) + 1] /\ p[i] = o[i + k]
      BY <1>9, <1>15, <2>2
    <2>4. /\ at[(i + k) + 1] = at[i + k] + length_in_sequence_space(o[i + k])
          /\ Carries(o[i + k], s.isn, at[i + k])
      BY <1>3, <2>2
    <2>. QED  BY <2>3, <2>4
  <1>19. Queued(t, q)
    BY <1>8, <1>9, <1>14, <1>16, <1>17, <1>18, Zenon DEF Queued, next
  <1>. QED  BY <1>5, <1>8, <1>9, <1>14, <1>19 DEF q, L, o, p

\* Dropping acknowledged segments keeps the rest in order.
LEMMA PopKeeps ==
  ASSUME NEW s, NEW at, Sends(s, at), Counted(s), s.segments_outstanding # <<>>,
         NEW k \in 0 .. Len(s.segments_outstanding)
  PROVE  Popped(s, at, k, StopTimer(Pop(s, k)))
  <1> DEFINE o == s.segments_outstanding
             L == Len(o)
             p == Pop(s, k)
             t == StopTimer(p)
  <1>1. s \in SenderType /\ Queued(s, at) /\ HandedOut(s) /\ Timed(s)
    BY DEF Sends
  <1>2. o \in Seq(Segments) /\ s.bytes_in_flight \in 0 .. N + 2 /\ N \in Nat
    BY <1>1, SenderNumbers DEF SenderType
  <1>3. L \in Nat
    BY <1>2, LenProperties
  <1>4. CASE k = 0
    <2>1. p = s
      BY <1>4 DEF Pop
    <2>2. s.bytes_in_flight # 0
      BY <1>1, InFlightOrNot
    <2>3. t = s
      BY <2>1, <2>2 DEF StopTimer
    <2>4. After(s, at, k) = at
      <3>1. at \in [1 .. L + 1 -> 0 .. s.next_seqno]
        BY <1>1 DEF Queued
      <3>2. (L - 0) + 1 = L + 1 /\ \A i \in 1 .. L + 1 : i + 0 = i
        BY <1>3
      <3>3. After(s, at, k) = [i \in 1 .. (L - 0) + 1 |-> at[i + 0]]
        BY <1>4 DEF After
      <3>4. After(s, at, k) = [i \in 1 .. L + 1 |-> at[i]]
        BY <3>2, <3>3
      <3>. QED  BY <3>1, <3>4
    <2>5. Len(s.segments_outstanding) = Len(s.segments_outstanding) - k
      BY <1>3, <1>4
    <2>. QED  BY <2>3, <2>4, <2>5 DEF Popped
  <1>5. CASE k # 0
    <2>0. k \in 1 .. L
      BY <1>3, <1>5
    <2> DEFINE bif == s.bytes_in_flight - TotalLength(SubSeq(o, 1, k))
               rest == SubSeq(o, k + 1, L)
               on == IF bif = 0 THEN FALSE ELSE s.timer_running
    <2>1. p = [s EXCEPT !.segments_outstanding = rest, !.bytes_in_flight = bif,
                        !.tick = 0, !.rto = RtTimeout, !.consecutive_retransmissions = 0]
      BY <1>5 DEF Pop
    <2>2. s.timer_running /\ s.timer_running \in BOOLEAN
      BY <1>1 DEF Timed, SenderType
    <2>. HIDE DEF bif, rest, p
    <2>3. /\ p.bytes_in_flight = bif /\ p.timer_running = s.timer_running
          /\ p.segments_outstanding = rest /\ p.isn = s.isn
          /\ p.segments_out = s.segments_out /\ p.next_seqno = s.next_seqno
          /\ p.consecutive_retransmissions = 0 /\ p.rto = RtTimeout /\ p.tick = 0
          /\ p.stream = s.stream /\ p.syn = s.syn /\ p.fin = s.fin
          /\ p.receiver_window_size = s.receiver_window_size
          /\ DOMAIN p = DOMAIN s /\ p = [f \in DOMAIN p |-> p[f]]
      BY <1>1, <2>1, Zenon DEF SenderType
    <2>4. DOMAIN p = {"isn", "segments_out", "stream", "next_seqno", "segments_outstanding",
                      "bytes_in_flight", "receiver_window_size",
                      "consecutive_retransmissions", "rto", "tick", "timer_running",
                      "syn", "fin"}
      BY <1>1, <2>3 DEF SenderType
    <2>5. /\ t.bytes_in_flight = bif /\ t.timer_running = on
          /\ t.segments_outstanding = rest /\ t.isn = s.isn
          /\ t.segments_out = s.segments_out /\ t.next_seqno = s.next_seqno
          /\ t.consecutive_retransmissions = 0 /\ t.rto = RtTimeout /\ t.tick = 0
          /\ t.stream = s.stream /\ t.syn = s.syn /\ t.fin = s.fin
          /\ t.receiver_window_size = s.receiver_window_size
          /\ DOMAIN t = DOMAIN s /\ t = [f \in DOMAIN t |-> t[f]]
      <3>1. CASE bif = 0
        <4>1. t = [p EXCEPT !.timer_running = FALSE]
          BY <2>3, <3>1 DEF StopTimer
        <4>2. on = FALSE
          BY <3>1
        <4>. HIDE DEF t, on
        <4>. QED  BY <2>3, <2>4, <4>1, <4>2, Zenon
      <3>2. CASE bif # 0
        <4>1. t = p
          BY <2>3, <3>2 DEF StopTimer
        <4>2. on = s.timer_running
          BY <3>2
        <4>. HIDE DEF t, on
        <4>. QED  BY <2>3, <4>1, <4>2
      <3>. QED  BY <3>1, <3>2, Zenon
    <2>. HIDE DEF t, on
    <2>6. /\ rest \in Seq(Segments) /\ Len(rest) = L - k /\ bif \in 0 .. N + 2
          /\ Queued(t, After(s, at, k))
      <3>1. /\ t.isn = s.isn /\ t.next_seqno = s.next_seqno
            /\ t.segments_outstanding =
                 SubSeq(s.segments_outstanding, k + 1, Len(s.segments_outstanding))
            /\ t.bytes_in_flight =
                 s.bytes_in_flight - TotalLength(SubSeq(s.segments_outstanding, 1, k))
        BY <2>5 DEF rest, bif
      <3>2. /\ t.segments_outstanding \in Seq(Segments)
            /\ Len(t.segments_outstanding) = Len(s.segments_outstanding) - k
            /\ t.bytes_in_flight \in 0 .. N + 2
            /\ Queued(t, After(s, at, k))
        BY <1>1, <2>0, <3>1, PopQueued, Zenon
      <3>. QED  BY <2>5, <3>2
    <2>7. t \in SenderType
      <3>1. Typed(s) /\ RtTimeout \in Nat /\ 0 \in Nat
        BY <1>1, SenderFields, SenderAssumption
      <3>2. on \in BOOLEAN
        BY <2>2 DEF on
      <3>3. Typed(t)
        BY <2>5, <2>6, <3>1, <3>2, Zenon DEF Typed
      <3>. QED  BY <1>1, <2>5, <3>3, IsSender
    <2>8. HandedOut(t)
      BY <1>1, <2>5 DEF HandedOut
    <2>9. Timed(t)
      <3>1. bif = 0 <=> rest = <<>>
        BY <2>5, <2>6, <2>7, InFlightOrNot
      <3>2. RtTimeout = BackedOff(0)
        BY BackedOffProperties
      <3>3. on <=> rest # <<>>
        BY <2>2, <3>1 DEF on
      <3>. QED  BY <2>5, <3>2, <3>3 DEF Timed
    <2>10. Counted(t)
      BY <2>5 DEF Counted
    <2>11. Sends(t, After(s, at, k))
      BY <2>6, <2>7, <2>8, <2>9 DEF Sends
    <2>12. Popped(s, at, k, t)
      BY <2>5, <2>6, <2>10, <2>11 DEF Popped
    <2>. QED  BY <2>12 DEF t, p
  <1>. QED  BY <1>4, <1>5

\* An acknowledgment that is refused, but for the window it may set.
Refused(s, ackno, window_size) ==
  LET ack == unwrap(ackno, s.isn, s.next_seqno)
  IN  s.segments_outstanding = <<>> \/ Unacceptable(s, ack, window_size)

\* An acknowledgment that is accepted: some segments go, new ones come.
LEMMA AckAccepted ==
  ASSUME NEW s, NEW at, Sends(s, at), Counted(s),
         NEW ackno \in SeqNos, NEW window_size \in 0 .. MaxWindow,
         ~ Refused(s, ackno, window_size)
  PROVE  LET ack == unwrap(ackno, s.isn, s.next_seqno)
             u == [s EXCEPT !.receiver_window_size = window_size]
             k == Acknowledged(s, ack)
         IN  /\ k \in 0 .. Len(s.segments_outstanding)
             /\ \A i \in 1 .. k : at[i + 1] <= ack
             /\ k < Len(s.segments_outstanding) => ack < at[k + 2]
             /\ \E p, now : /\ Popped(u, at, k, p)
                            /\ Filled(p, After(u, at, k),
                                      ack_received(s, ackno, window_size), now)
  <1> DEFINE ack == unwrap(ackno, s.isn, s.next_seqno)
             u == [s EXCEPT !.receiver_window_size = window_size]
             k == Acknowledged(s, ack)
             p == StopTimer(Pop(u, k))
             t == ack_received(s, ackno, window_size)
  <1>1. s \in SenderType /\ Queued(s, at)
    BY DEF Sends
  <1>2. ack \in Int
    <2>1. s.isn \in SeqNos /\ s.next_seqno \in Nat
      BY <1>1, SenderNumbers DEF SenderType
    <2>2. ack \in Nat
      BY <2>1, UnwrapNearest, Zenon
    <2>. QED  BY <2>2
  <1>3. t = fill_window(p)
    BY DEF ack_received, Refused
  <1>4. s.segments_outstanding # <<>>
    BY DEF Refused
  <1>. HIDE DEF ack, t
  <1>5. /\ k \in 0 .. Len(s.segments_outstanding)
        /\ \A i \in 1 .. k : at[i + 1] <= ack
        /\ k < Len(s.segments_outstanding) => ack < at[k + 2]
    BY <1>1, <1>2, AcknowledgedProperties, SMTT(20)
  <1>. HIDE DEF k
  <1>6. Sends(u, at) /\ Counted(u) /\ u.segments_outstanding = s.segments_outstanding
    BY WindowKeeps
  <1>. HIDE DEF u
  <1>7. Popped(u, at, k, p)
    BY <1>4, <1>5, <1>6, PopKeeps
  <1>. HIDE DEF p
  <1>8. Sends(p, After(u, at, k)) /\ Counted(p)
    BY <1>7 DEF Popped
  <1>9. \E now : Filled(p, After(u, at, k), t, now)
    BY <1>3, <1>8, FillKeeps
  <1>. QED  BY <1>5, <1>7, <1>9 DEF t, k, u, ack

\* ack_received() preserves the inductive invariant.
LEMMA AckKeeps ==
  ASSUME NEW s, NEW at, Sends(s, at), Counted(s), Settled(s),
         NEW ackno \in SeqNos, NEW window_size \in 0 .. MaxWindow,
         NEW t, t = ack_received(s, ackno, window_size)
  PROVE  Counted(t) /\ Settled(t) /\ \E now : Sends(t, now)
  <1> DEFINE ack == unwrap(ackno, s.isn, s.next_seqno)
             u == [s EXCEPT !.receiver_window_size = window_size]
  <1>1. CASE Refused(s, ackno, window_size)
    <2>1. t = IF ack = s.next_seqno THEN u ELSE s
      BY <1>1 DEF ack_received, Refused
    <2>2. /\ Sends(u, at) /\ Counted(u) /\ u.stream = s.stream
          /\ u.segments_outstanding = s.segments_outstanding
          /\ u.syn = s.syn /\ u.fin = s.fin
      BY WindowKeeps
    <2>. HIDE DEF u
    <2>3. Settled(u)
      BY <2>2 DEF Settled, AllSent
    <2>. QED  BY <2>1, <2>2, <2>3
  <1>2. CASE ~ Refused(s, ackno, window_size)
    <2>1. PICK p, now : Filled(p, After(u, at, Acknowledged(s, ack)), t, now)
      BY <1>2, AckAccepted
    <2>. QED  BY <2>1 DEF Filled, Settled
  <1>. QED  BY <1>1, <1>2

-----------------------------------------------------------------------------
\* b differs from the sender only in what its owner took, or wrote.
Handled(b) ==
  /\ b.isn = sender.isn /\ b.next_seqno = sender.next_seqno /\ b.syn = sender.syn
  /\ b.segments_outstanding = sender.segments_outstanding
  /\ b.bytes_in_flight = sender.bytes_in_flight
  /\ b.receiver_window_size = sender.receiver_window_size

\* Whatever the owner does, the window is filled last.
LEMMA OwnerFills ==
  ASSUME NEW at, Sends(sender, at), Counted(sender),
         Connect \/ (\E len \in 1 .. N : Write(len)) \/ EndInput
  PROVE  \E b, now : /\ Sends(b, at) /\ Handled(b)
                     /\ Filled(b, at, sender', now)
  <1> DEFINE s == Taken
  <1>1. /\ Sends(s, at) /\ Counted(s) /\ Handled(s) /\ s.stream = sender.stream
    <2>1. s = [sender EXCEPT !.segments_out = <<>>]
      BY DEF Taken
    <2>. HIDE DEF s
    <2>. QED  BY <2>1, TakenKeeps DEF Handled
  <1>2. s \in SenderType
    BY <1>1 DEF Sends
  <1>. HIDE DEF s
  <1>3. SUFFICES \E b : Sends(b, at) /\ Counted(b) /\ Handled(b) /\ sender' = fill_window(b)
    BY FillKeeps
  <1>4. CASE Connect
    BY <1>1, <1>4 DEF Connect, s
  <1>5. ASSUME NEW len \in 1 .. N, Write(len)
        PROVE  \E b : Sends(b, at) /\ Counted(b) /\ Handled(b) /\ sender' = fill_window(b)
    <2> DEFINE st == write(s.stream, SubSeq(Stream, s.stream.write_count + 1,
                                            s.stream.write_count + len))
               b == [s EXCEPT !.stream = st]
    <2>1. /\ ~ s.stream.input_ended /\ s.stream.write_count + len <= N
          /\ sender' = fill_window(b)
      BY <1>1, <1>5 DEF Write, input_ended, s
    <2>2. len \in Nat
      BY SenderNumbers
    <2>. HIDE DEF st
    <2>3. Handled(b)
      BY <1>1, <1>2 DEF Handled, SenderType
    <2>4. Sends(b, at) /\ Counted(b)
      BY <1>1, <2>1, <2>2, WriteKeeps DEF st
    <2>. QED  BY <2>1, <2>3, <2>4
  <1>6. CASE EndInput
    <2> DEFINE b == [s EXCEPT !.stream = end_input(@)]
    <2>1. s.stream.write_count = N /\ sender' = fill_window(b)
      BY <1>1, <1>6 DEF EndInput, s
    <2>2. Handled(b)
      BY <1>1, <1>2 DEF Handled, SenderType
    <2>3. Sends(b, at) /\ Counted(b)
      BY <1>1, <2>1, EndKeeps
    <2>. QED  BY <2>1, <2>2, <2>3
  <1>. QED  BY <1>4, <1>5, <1>6

\* IInv with its bound variable left free.
LEMMA IInvOf ==
  ASSUME Counted(sender), Settled(sender), NEW at, Sends(sender, at)
  PROVE  IInv
  <1>1. at \in Positions(sender)
    BY DEF Sends, Queued, Positions
  <1>. QED  BY <1>1 DEF IInv

\* A new sender has nothing outstanding.
LEMMA InitHolds == Init => IInv
  <1>. SUFFICES ASSUME NEW isn \in Isns, sender = NewSender(Capacity, isn)
                PROVE  IInv
    BY DEF Init
  <1> DEFINE s == NewSender(Capacity, isn)
             at == [i \in 1 .. 1 |-> 0]
  <1>1. isn \in SeqNos /\ Capacity \in Nat /\ N \in Nat
    BY SenderSpecAssumption, SenderNumbers
  <1>2. s.stream \in OutStream
    <2>1. <<>> \in Seq(Byte) /\ 0 \in 0 .. N
      BY <1>1
    <2>. QED  BY <2>1 DEF NewSender, NewByteStream, OutStream
  <1>3. /\ s.segments_out = <<>> /\ s.segments_outstanding = <<>>
        /\ s.next_seqno = 0 /\ s.bytes_in_flight = 0 /\ s.isn = isn
        /\ s.syn = FALSE /\ s.fin = FALSE /\ s.timer_running = FALSE
        /\ s.consecutive_retransmissions = 0
        /\ s.stream.read_count = 0 /\ s.stream.write_count = 0
        /\ s.stream.buffer = <<>> /\ s.stream.input_ended = FALSE
    BY DEF NewSender, NewByteStream
  <1>4. s \in SenderType
    <2>1. /\ 0 \in 0 .. N + 2 /\ 1 \in 0 .. MaxWindow /\ <<>> \in Seq(Segments)
          /\ FALSE \in BOOLEAN /\ 0 \in Nat
      <3>1. MaxWindow \in Nat /\ MaxWindow >= 1
        BY SenderSpecAssumption
      <3>2. 0 \in 0 .. N + 2 /\ 1 \in 0 .. MaxWindow /\ 0 \in Nat
        BY <1>1, <3>1
      <3>. QED  BY <3>2
    <2>2. s.stream = NewByteStream(Capacity)
      BY DEF NewSender
    <2>3. NewByteStream(Capacity) \in OutStream
      BY <1>2, <2>2
    <2>. QED  BY <1>1, <2>1, <2>3 DEF NewSender, SenderType
  <1>5. Len(s.segments_outstanding) = 0 /\ Len(s.segments_out) = 0
    BY <1>3, EmptySeq
  <1>. HIDE DEF s
  <1>6. Queued(s, at)
    <2>1. at \in [1 .. 0 + 1 -> 0 .. 0] /\ at[1] = 0 - 0 /\ at[0 + 1] = 0
      OBVIOUS
    <2>2. \A i, j \in 1 .. 0 + 1 : ~(i < j)
      OBVIOUS
    <2>3. \A i \in 1 .. 0 : FALSE
      OBVIOUS
    <2>. HIDE DEF at
    <2>. QED  BY <1>3, <1>5, <2>1, <2>2, <2>3 DEF Queued
  <1>7. HandedOut(s)
    <2>1. \A i \in 1 .. 0 : FALSE
      OBVIOUS
    <2>. QED  BY <1>5, <2>1 DEF HandedOut
  <1>8. Timed(s)
    BY <1>3 DEF Timed
  <1>9. Counted(s)
    <2>1. SubSeq(Stream, 0 + 1, 0) = <<>>
      BY SenderNumbers, PartProperties DEF Part
    <2>2. Capacity >= 0 - 0 /\ 0 = 0 + 0 + 0
      BY <1>1
    <2>. QED  BY <1>1, <1>3, <2>1, <2>2 DEF Counted
  <1>10. Settled(s)
    BY <1>3 DEF Settled, AllSent
  <1>. QED  BY <1>4, <1>6, <1>7, <1>8, <1>9, <1>10, IInvOf DEF Sends, s

\* Every call of the owner preserves the inductive invariant.
LEMMA StepHolds == IInv /\ [Next]_sender => IInv'
  <1>. SUFFICES ASSUME IInv, [Next]_sender PROVE IInv'
    OBVIOUS
  <1>1. PICK at \in Positions(sender) : Sends(sender, at)
    BY DEF IInv
  <1>2. Counted(sender) /\ Settled(sender)
    BY DEF IInv
  <1>3. SUFFICES Counted(sender') /\ Settled(sender') /\ \E now : Sends(sender', now)
    <2>1. PICK now : Sends(sender', now)
      BY <1>3
    <2>2. now \in Positions(sender')
      BY <2>1 DEF Sends, Queued, Positions
    <2>. QED  BY <1>3, <2>1, <2>2 DEF IInv
  <1>4. CASE Connect \/ (\E len \in 1 .. N : Write(len)) \/ EndInput
    <2>1. PICK b, now : Filled(b, at, sender', now)
      BY <1>1, <1>2, <1>4, OwnerFills
    <2>. QED  BY <2>1 DEF Filled, Settled
  <1>5. Sends(Taken, at) /\ Counted(Taken) /\ Settled(Taken)
    <2>1. Taken = [sender EXCEPT !.segments_out = <<>>]
      BY DEF Taken
    <2>. QED  BY <1>1, <1>2, <2>1, TakenKeeps DEF Settled, AllSent
  <1>6. ASSUME NEW ackno \in SeqNos, NEW window_size \in 0 .. MaxWindow,
               AckReceived(ackno, window_size)
        PROVE  Counted(sender') /\ Settled(sender') /\ \E now : Sends(sender', now)
    BY <1>5, <1>6, AckKeeps DEF AckReceived
  <1>7. CASE Tick
    <2>1. sender' = sender_tick(Taken, 1)
      BY <1>7 DEF Tick
    <2>2. /\ Sends(sender', at) /\ Counted(sender') /\ sender'.stream = Taken.stream
          /\ sender'.segments_outstanding = Taken.segments_outstanding
          /\ sender'.syn = Taken.syn /\ sender'.fin = Taken.fin
      BY <1>5, <2>1, TickKeeps
    <2>3. Settled(sender')
      BY <1>5, <2>2 DEF Settled, AllSent
    <2>. QED  BY <2>2, <2>3
  <1>8. CASE UNCHANGED sender
    BY <1>1, <1>2, <1>8
  <1>. QED  BY <1>4, <1>6, <1>7, <1>8 DEF Next

\* The inductive invariant holds in every state.
LEMMA SpecKeeps == Spec => []IInv
  BY InitHolds, StepHolds, PTL DEF Spec

-----------------------------------------------------------------------------
\* bytes_in_flight, which is kept apart from the queue, is the total length of
\* the outstanding segments, and these follow one another without gap or
\* overlap up to next_seqno, whatever is acknowledged and however often the
\* segments go out again.
THEOREM InFlightIsOutstandingHolds == Spec => []InFlightIsOutstanding
  <1>1. IInv => InFlightIsOutstanding
    <2>. SUFFICES ASSUME IInv PROVE InFlightIsOutstanding
      OBVIOUS
    <2> DEFINE o == sender.segments_outstanding
               L == Len(o)
    <2>1. PICK at : sender \in SenderType /\ Queued(sender, at)
      BY DEF IInv, Sends
    <2>2. /\ o \in Seq(Segments) /\ sender.next_seqno \in 0 .. N + 2 /\ N \in Nat
          /\ sender.bytes_in_flight \in 0 .. N + 2
      BY <2>1, SenderNumbers DEF SenderType
    <2>3. L \in Nat /\ \A i \in 1 .. L : o[i] \in Segments
      BY <2>2, LenProperties, ElementOfSeq
    <2>4. \A i \in 1 .. L : length_in_sequence_space(o[i]) \in Nat
      BY <2>3, SegmentLength
    <2>5. /\ \A i \in 1 .. L + 1 : at[i] \in 0 .. sender.next_seqno
          /\ at[1] = sender.next_seqno - sender.bytes_in_flight
          /\ at[L + 1] = sender.next_seqno
          /\ \A i \in 1 .. L : at[i + 1] = at[i] + length_in_sequence_space(o[i])
      BY <2>1 DEF Queued
    <2>. HIDE DEF L, o
    <2>6. \A i \in 1 .. L + 1 : at[i] \in Int
      BY <2>2, <2>5
    <2>7. sender.bytes_in_flight = TotalLength(o)
      <3>1. TotalLength(o) = at[L + 1] - at[1]
        BY <2>3, <2>4, <2>5, <2>6, Telescopes DEF L
      <3>. QED  BY <2>2, <2>5, <3>1
    <2>8. ASSUME NEW i \in 1 .. L
          PROVE  StartOf(o[i]) + TotalLength(SubSeq(o, i, L)) = sender.next_seqno
      <3> DEFINE rest == SubSeq(o, i, L)
                 pos == [j \in 1 .. ((L - i) + 1) + 1 |-> at[(j + i) - 1]]
      <3>1. \A j \in i .. L : o[j] \in Segments
        BY <2>3
      <3>2. Len(rest) = (L - i) + 1 /\ \A j \in 1 .. (L - i) + 1 : rest[j] = o[(i + j) - 1]
        <4>1. i \in Int /\ L \in Int /\ i <= L
          BY <2>3
        <4>2. /\ Len(rest) = IF i <= L THEN L - i + 1 ELSE 0
              /\ \A j \in 1 .. L - i + 1 : rest[j] = o[i + j - 1]
          BY <3>1, <4>1, SubSeqProperties
        <4>. QED  BY <4>1, <4>2
      <3>3. \A j \in 1 .. (L - i) + 1 : /\ (i + j) - 1 \in 1 .. L /\ (j + i) - 1 = (i + j) - 1
                                        /\ ((j + 1) + i) - 1 = ((i + j) - 1) + 1
                                        /\ j \in 1 .. ((L - i) + 1) + 1
                                        /\ j + 1 \in 1 .. ((L - i) + 1) + 1
        BY <2>3
      <3>4. \A j \in 1 .. ((L - i) + 1) + 1 : (j + i) - 1 \in 1 .. L + 1
        BY <2>3
      <3>. HIDE DEF rest
      <3>5. \A j \in 1 .. (L - i) + 1 :
              /\ pos[j + 1] = pos[j] + length_in_sequence_space(rest[j])
              /\ length_in_sequence_space(rest[j]) \in Nat
        BY <2>4, <2>5, <3>2, <3>3, Zenon
      <3>6. \A j \in 1 .. ((L - i) + 1) + 1 : pos[j] \in Int
        BY <2>6, <3>4
      <3>7. (L - i) + 1 \in Nat
        BY <2>3
      <3>8. pos[((L - i) + 1) + 1] = at[L + 1] /\ pos[1] = at[i]
        <4>1. /\ ((((L - i) + 1) + 1) + i) - 1 = L + 1 /\ (1 + i) - 1 = i
              /\ 1 \in 1 .. ((L - i) + 1) + 1
              /\ ((L - i) + 1) + 1 \in 1 .. ((L - i) + 1) + 1
          BY <2>3
        <4>. QED  BY <4>1
      <3>. HIDE DEF pos
      <3>9. TotalLength(rest) = at[L + 1] - at[i]
        <4>1. TotalLength(rest) = pos[((L - i) + 1) + 1] - pos[1]
          BY <3>2, <3>5, <3>6, <3>7, Telescopes, Zenon
        <4>. QED  BY <3>8, <4>1
      <3>10. EndOf(sender, o[i]) = at[i + 1]
        BY <2>1, QueuedEnds DEF o, L
      <3>11. StartOf(o[i]) = at[i + 1] - length_in_sequence_space(o[i])
        BY <3>10 DEF StartOf
      <3>12. at[i] \in Int /\ at[L + 1] \in Int /\ length_in_sequence_space(o[i]) \in Nat
        <4>1. i \in 1 .. L + 1 /\ L + 1 \in 1 .. L + 1
          BY <2>3
        <4>. QED  BY <2>4, <2>6, <4>1
      <3>13. at[i + 1] = at[i] + length_in_sequence_space(o[i])
        BY <2>5
      <3>14. StartOf(o[i]) = at[i]
        BY <3>11, <3>12, <3>13
      <3>15. StartOf(o[i]) + TotalLength(rest) = at[L + 1]
        BY <3>9, <3>12, <3>14
      <3>. QED  BY <2>5, <3>15 DEF rest
    <2>. QED  BY <2>7, <2>8 DEF InFlightIsOutstanding, o, L
  <1>. QED  BY <1>1, SpecKeeps, PTL

\* A segment that carries what belongs at a is read as starting there.
LEMMA CarriedReads ==
  ASSUME sender \in SenderType, NEW seg \in Segments, NEW a \in 0 .. sender.next_seqno,
         Carries(seg, sender.isn, a)
  PROVE  /\ seg.syn <=> StartOf(seg) = 0
         /\ ~seg.syn => seg.payload
              = SubSeq(Stream, StartOf(seg), StartOf(seg) + Len(seg.payload) - 1)
         /\ seg.fin <=> EndOf(sender, seg) = N + 2
  <1>1. sender.next_seqno \in 0 .. N + 2 /\ sender.isn \in SeqNos /\ N \in Nat
    BY SenderNumbers DEF SenderType
  <1>2. a \in 0 .. N + 2 /\ a \in Nat
    BY <1>1
  <1>3. length_in_sequence_space(seg) \in Nat
    BY SegmentLength
  <1>4. seg.seqno = wrap(a, sender.isn)
    BY DEF Carries
  <1>5. EndOf(sender, seg) = a + length_in_sequence_space(seg)
    BY <1>1, <1>2, <1>4, ReadBack DEF EndOf
  <1>6. StartOf(seg) = a
    <2>1. StartOf(seg) = (a + length_in_sequence_space(seg)) - length_in_sequence_space(seg)
      BY <1>5 DEF StartOf
    <2>. QED  BY <1>2, <1>3, <2>1
  <1>. QED  BY <1>5, <1>6 DEF Carries

\* Every segment the sender hands out or keeps, new or sent again, carries the
\* owner's bytes for its sequence numbers; the SYN has number 0 and the FIN is
\* behind the last byte.
THEOREM SegmentsCarryStreamHolds == Spec => []SegmentsCarryStream
  <1>1. IInv => SegmentsCarryStream
    <2>. SUFFICES ASSUME IInv PROVE SegmentsCarryStream
      OBVIOUS
    <2>1. PICK at : sender \in SenderType /\ Queued(sender, at) /\ HandedOut(sender)
      BY DEF IInv, Sends
    <2>2. /\ sender.segments_outstanding \in Seq(Segments)
          /\ sender.segments_out \in Seq(Segments)
      BY <2>1 DEF SenderType
    <2>3. ASSUME NEW i \in 1 .. Len(sender.segments_outstanding)
          PROVE  \E a \in 0 .. sender.next_seqno :
                   Carries(sender.segments_outstanding[i], sender.isn, a)
      <3>1. i \in 1 .. Len(sender.segments_outstanding) + 1
        <4>1. Len(sender.segments_outstanding) \in Nat
          BY <2>2, LenProperties
        <4>. QED  BY <4>1
      <3>2. at[i] \in 0 .. sender.next_seqno
        BY <2>1, <3>1, SMTT(20) DEF Queued
      <3>. QED  BY <2>1, <3>2 DEF Queued
    <2>4. ASSUME NEW i \in 1 .. Len(sender.segments_out)
          PROVE  \E a \in 0 .. sender.next_seqno :
                   Carries(sender.segments_out[i], sender.isn, a)
      BY <2>1 DEF HandedOut
    <2>5. /\ \A i \in 1 .. Len(sender.segments_outstanding) :
               sender.segments_outstanding[i] \in Segments
          /\ \A i \in 1 .. Len(sender.segments_out) : sender.segments_out[i] \in Segments
      BY <2>2, ElementOfSeq
    <2>6. ASSUME NEW segs \in {sender.segments_out, sender.segments_outstanding},
                 NEW i \in 1 .. Len(segs)
          PROVE  /\ segs[i] \in Segments
                 /\ \E a \in 0 .. sender.next_seqno : Carries(segs[i], sender.isn, a)
      BY <2>3, <2>4, <2>5
    <2>. QED  BY <2>1, <2>6, CarriedReads, SMTT(20) DEF SegmentsCarryStream
  <1>. QED  BY <1>1, SpecKeeps, PTL

\* The timer runs exactly while something is outstanding, and its timeout has
\* doubled once per retransmission in a row since new data was acknowledged.
THEOREM TimerGuardsOutstandingHolds == Spec => []TimerGuardsOutstanding
  <1>1. IInv => TimerGuardsOutstanding
    BY DEF IInv, Sends, Timed, TimerGuardsOutstanding
  <1>. QED  BY <1>1, SpecKeeps, PTL

\* Unsent bytes, or an unsent FIN, are never left without a segment whose
\* acknowledgment or timeout calls the sender again.
THEOREM NeverStallsHolds == Spec => []NeverStalls
  <1>1. IInv => NeverStalls
    BY DEF IInv, Settled, AllSent, NeverStalls
  <1>. QED  BY <1>1, SpecKeeps, PTL
=============================================================================
