---------------------- MODULE StreamReassembler_proofs ----------------------
(***************************************************************************)
(* A StreamReassembler puts the stream together, counts what it stores and *)
(* keeps to its capacity, for every stream and every capacity.  What       *)
(* push_substring() and a read do is stated of any reassembler, whoever    *)
(* owns it: TCPReceiver_proofs uses these lemmas too.                      *)
(***************************************************************************)
EXTENDS StreamReassemblerSpec, SequenceTheorems, FiniteSetTheorems,
        WellFoundedInduction, TLAPS

\* A set of naturals that is not empty has a least member.
LEMMA LeastMember ==
  ASSUME NEW T, T \subseteq Nat, T # {}
  PROVE  \E x \in T : \A y \in T : x <= y
  <1>1. PICK x \in T : \A y \in T : ~ (<<y, x>> \in OpToRel(<, Nat))
    BY NatLessThanWellFounded, WFMin, Zenon
  <1>2. \A y \in T : y < x => <<y, x>> \in OpToRel(<, Nat)
    BY Zenon DEF OpToRel
  <1>3. \A y \in T : ~ (y < x)
    BY <1>1, <1>2
  <1>. QED  BY <1>3, SMT

\* The while loop of push_substring() stops at the first index that is not
\* marked, and all it passes are.
LEMMA RunEndProperties ==
  ASSUME NEW K \in Nat, NEW present, present \subseteq 0 .. K - 1, NEW n \in 0 .. K
  PROVE  /\ RunEnd(present, n) \in n .. K
         /\ RunEnd(present, n) \notin present
         /\ n .. RunEnd(present, n) - 1 \subseteq present
  <1> DEFINE gaps == {m \in n .. K : m \notin present}
             ends == {n} \cup {c + 1 : c \in present}
             right(m) == m >= n /\ m \notin present /\ n .. m - 1 \subseteq present
  <1>1. gaps \subseteq Nat /\ K \in gaps
    BY SMT
  <1>2. PICK m \in gaps : \A y \in gaps : m <= y
    BY <1>1, LeastMember
  <1>3. n .. m - 1 \subseteq present
    BY <1>2, SMT
  <1>4. m \in ends
    <2>1. CASE m = n
      BY <2>1
    <2>2. CASE m # n
      <3>1. m - 1 \in present /\ m = (m - 1) + 1
        BY <1>2, <1>3, <2>2, SMT
      <3>. QED  BY <3>1
    <2>. QED  BY <2>1, <2>2
  <1>5. right(m)
    BY <1>2, <1>3, SMT
  <1>6. RunEnd(present, n) \in ends /\ right(RunEnd(present, n))
    BY <1>4, <1>5 DEF RunEnd
  <1>7. \A e \in ends : e \in 0 .. K
    BY SMT
  <1>. QED  BY <1>6, <1>7, SMT

-----------------------------------------------------------------------------
OutputType == [buffer : Seq(Byte), capacity : {Capacity},
               read_count : Nat, write_count : Nat,
               input_ended : BOOLEAN, error : BOOLEAN]

ReassemblerType ==
  [output : OutputType, capacity : {Capacity}, first_unassembled : 0 .. N,
   unassembled : Nat, eof : BOOLEAN, m_exist : SUBSET (0 .. N - 1),
   m_char : UNION {[D -> Byte] : D \in SUBSET (0 .. N - 1)}]

\* unassembled counts the marked indices beyond the one that is due.
Counted(r) ==
  /\ r.first_unassembled \notin r.m_exist
  /\ 0 .. r.first_unassembled - 1 \subseteq r.m_exist
  /\ r.unassembled = Cardinality({c \in r.m_exist : c > r.first_unassembled})

\* The inductive invariant, of any reassembler r whose owner has read got.
\* Every index below first_unread + capacity may be marked, so what is marked
\* and what is assembled stay below it; reading only moves it up.  A byte kept
\* for later is the stream's byte at its index.
Assembled(r, got) ==
  /\ r \in ReassemblerType
  /\ got \in Seq(Byte)
  /\ got \o r.output.buffer = SubSeq(Stream, 1, r.first_unassembled)
  /\ Counted(r)
  /\ Len(got) = r.output.read_count
  /\ Len(got) + Len(r.output.buffer) = r.first_unassembled
  /\ r.output.write_count = r.first_unassembled
  /\ r.first_unassembled <= Limit(r)
  /\ \A c \in r.m_exist : c < Limit(r)
  /\ \A c \in r.m_exist : c > r.first_unassembled =>
       c \in DOMAIN r.m_char /\ r.m_char[c] = Stream[c + 1]

\* The bytes of the stream that a push hands over.
Bytes(index, len) == SubSeq(Stream, index + 1, index + len)

\* The stream is a sequence of bytes.
LEMMA StreamProperties ==
  /\ Stream \in Seq(Byte) /\ N \in Nat
  /\ \A i \in 1 .. N : Stream[i] \in Byte
  <1>1. Stream \in Seq(Byte)
    BY PeerStreamAssumption DEF Byte
  <1>2. N \in Nat
    BY <1>1, LenProperties DEF N
  <1>. QED  BY <1>1, <1>2, ElementOfSeq DEF N

\* A piece of the stream has the stream's bytes.
LEMMA PieceProperties ==
  ASSUME NEW index \in 0 .. N, NEW len \in 0 .. N - index
  PROVE  /\ Bytes(index, len) \in Seq(Byte)
         /\ Len(Bytes(index, len)) = len
         /\ \A k \in 1 .. len : Bytes(index, len)[k] = Stream[index + k]
  <1>1. /\ Stream \in Seq(Byte) /\ N \in Nat
        /\ \A i \in index + 1 .. index + len : Stream[i] \in Byte
    BY StreamProperties, SMT
  <1>2. index + 1 \in Int /\ index + len \in Int
    BY <1>1, SMT
  <1>3. /\ Bytes(index, len) \in Seq(Byte)
        /\ Len(Bytes(index, len)) = IF index + 1 <= index + len + 1 THEN index + len - (index + 1) + 1 ELSE 0
        /\ \A k \in 1 .. index + len - (index + 1) + 1 : Bytes(index, len)[k] = Stream[index + 1 + k - 1]
    BY <1>1, <1>2, SubSeqProperties DEF Bytes
  <1>4. /\ index + len - (index + 1) + 1 = len
        /\ \A k \in 1 .. len : index + 1 + k - 1 = index + k
        /\ index + 1 <= index + len + 1
    BY <1>1, SMT
  <1>. QED  BY <1>3, <1>4

\* What the invariant says of the indices.
LEMMA StateFacts ==
  ASSUME NEW r, NEW got, Assembled(r, got)
  PROVE  /\ N \in Nat /\ Capacity \in Nat \ {0}
         /\ r.first_unassembled \in 0 .. N
         /\ r.output.read_count \in Nat
         /\ Limit(r) = r.output.read_count + Capacity
         /\ Limit(r) \in Nat
         /\ r.first_unassembled <= Limit(r)
         /\ r.m_exist \subseteq 0 .. N - 1
         /\ \A c \in r.m_exist : c < Limit(r)
         /\ r.first_unassembled \notin r.m_exist
         /\ 0 .. r.first_unassembled - 1 \subseteq r.m_exist
  <1>1. /\ r.first_unassembled \in 0 .. N
        /\ r.output.read_count \in Nat
        /\ r.capacity = Capacity
        /\ r.m_exist \subseteq 0 .. N - 1
    BY DEF Assembled, ReassemblerType
  <1>2. Limit(r) = r.output.read_count + Capacity
    BY <1>1 DEF Limit
  <1>3. Capacity \in Nat \ {0} /\ Limit(r) \in Nat
    BY <1>1, <1>2, PeerStreamAssumption, SMT
  <1>. QED  BY <1>1, <1>2, <1>3, StreamProperties DEF Assembled, Counted

\* The for loop looks at the indices of the piece below the limit.
LEMMA SpanProperties ==
  ASSUME NEW r, NEW got, Assembled(r, got),
         NEW index \in 0 .. N, NEW len \in 0 .. N - index
  PROVE  \A c : c \in Span(r, Bytes(index, len), index) <=>
                  c \in index .. index + len - 1 /\ c < Limit(r)
  <1> DEFINE lim == Limit(r)
             end == AtMost(index + len, lim)
  <1>1. N \in Nat /\ lim \in Nat
    BY StateFacts
  <1>2. end \in Nat /\ \A c \in Int : c < end <=> c < index + len /\ c < lim
    BY <1>1, SMT DEF AtMost
  <1>3. Span(r, Bytes(index, len), index) = index .. end - 1
    BY PieceProperties DEF Span
  <1>. HIDE DEF lim, end
  <1>4. \A c : c \in index .. end - 1 <=> c \in index .. index + len - 1 /\ c < lim
    BY <1>1, <1>2, SMT
  <1>. QED  BY <1>3, <1>4 DEF lim

\* Where push_substring() leaves first_unassembled, and what it stores.
LEMMA DrainedProperties ==
  ASSUME NEW r, NEW got, Assembled(r, got),
         NEW index \in 0 .. N, NEW len \in 0 .. N - index,
         NEW S, S = Span(r, Bytes(index, len), index),
         NEW fu, fu = r.first_unassembled,
         NEW dr, dr = Drained(r, Bytes(index, len), index),
         NEW st, st = Stored(r, Bytes(index, len), index)
  PROVE  /\ dr \in fu .. N /\ dr <= Limit(r)
         /\ dr \notin r.m_exist \cup S
         /\ fu .. dr - 1 \subseteq r.m_exist \cup S
         /\ fu \in S => st = {} /\ \A c \in S : c < dr
         /\ fu \notin S => dr = fu /\ st = S \ r.m_exist
  <1> DEFINE piece == Bytes(index, len)
             lim == Limit(r)
             P == r.m_exist \cup S
             K == AtMost(N, lim)
             reached == Reached(r, piece, index)
  <1>1. /\ N \in Nat /\ lim \in Nat /\ fu \in 0 .. N /\ fu <= lim /\ fu \notin r.m_exist
        /\ 0 .. fu - 1 \subseteq r.m_exist
        /\ r.m_exist \subseteq 0 .. N - 1
        /\ \A c \in r.m_exist : c < lim
    BY StateFacts
  <1>2. Len(piece) = len
    BY PieceProperties
  <1>3. \A c : c \in S <=> c \in index .. index + len - 1 /\ c < lim
    BY SpanProperties
  <1>4. K \in Nat /\ K <= N /\ K <= lim /\ (K = N \/ K = lim) /\ fu \in 0 .. K
    BY <1>1, SMT DEF AtMost
  <1>. HIDE DEF lim, K
  <1>5. P \subseteq 0 .. K - 1
    BY <1>1, <1>3, <1>4, SMT
  <1>6. reached = IF fu \in S THEN AtMost(index + len, lim) ELSE fu
    BY <1>2 DEF Reached, lim
  <1>7. /\ reached \in fu .. K
        /\ fu \in S => /\ \A c \in S : c < reached
                       /\ fu .. reached - 1 \subseteq S
                       /\ reached = index + len \/ reached = lim
        /\ fu \notin S => reached = fu
    BY <1>1, <1>3, <1>4, <1>6, SMT DEF AtMost
  <1>8. dr = IF reached = index + len THEN RunEnd(P, reached) ELSE reached
    BY <1>2 DEF Drained
  <1>9. st = S \ (r.m_exist \cup fu .. reached - 1)
    BY DEF Stored
  <1>. HIDE DEF P, reached
  <1>10. reached \in 0 .. K
    BY <1>4, <1>7, SMT
  <1>11. /\ RunEnd(P, reached) \in reached .. K
         /\ RunEnd(P, reached) \notin P
         /\ reached .. RunEnd(P, reached) - 1 \subseteq P
    BY <1>4, <1>5, <1>10, RunEndProperties
  <1>12. dr \in reached .. K /\ dr \notin P /\ reached .. dr - 1 \subseteq P
    <2>1. CASE reached = index + len
      BY <2>1, <1>8, <1>11
    <2>2. CASE reached # index + len
      <3>1. dr = reached
        BY <2>2, <1>8
      <3>2. reached \notin P
        <4>1. CASE fu \in S
          <5>1. reached = lim
            BY <4>1, <2>2, <1>7
          <5>. QED  BY <5>1, <1>5, <1>4, <1>10, SMT
        <4>2. CASE fu \notin S
          BY <4>2, <1>1, <1>7 DEF P
        <4>. QED  BY <4>1, <4>2
      <3>. QED  BY <3>1, <3>2, <1>10, <1>4, SMT
    <2>. QED  BY <2>1, <2>2
  <1>13. fu .. dr - 1 \subseteq P
    <2>1. fu .. reached - 1 \subseteq P
      BY <1>1, <1>7, SMT DEF P
    <2>. QED  BY <2>1, <1>12, <1>7, <1>4, <1>1, SMT
  <1>14. fu \in S => st = {} /\ \A c \in S : c < dr
    <2>. SUFFICES ASSUME fu \in S
                  PROVE  st = {} /\ \A c \in S : c < dr
      OBVIOUS
    <2>1. \A c \in S : c < reached /\ (c < fu => c \in 0 .. fu - 1)
      BY <1>7, <1>3, <1>1, SMT
    <2>2. \A c \in S : c \in r.m_exist \cup fu .. reached - 1
      BY <2>1, <1>1, <1>3, <1>7, <1>4, SMT
    <2>. QED  BY <2>1, <2>2, <1>3, <1>9, <1>12, <1>4, <1>7, SMT
  <1>15. fu \notin S => dr = fu /\ st = S \ r.m_exist
    <2>. SUFFICES ASSUME fu \notin S
                  PROVE  dr = fu /\ st = S \ r.m_exist
      OBVIOUS
    <2>1. reached = fu /\ fu \notin P
      BY <1>1, <1>7 DEF P
    <2>2. dr = fu
      <3>1. ~ (fu < dr)
        BY <2>1, <1>13, <1>1, <1>12, <1>4, SMT
      <3>. QED  BY <3>1, <2>1, <1>12, <1>1, <1>4, SMT
    <2>3. fu .. fu - 1 = {}
      BY <1>1, SMT
    <2>. QED  BY <2>1, <2>2, <2>3, <1>9
  <1>. QED  BY <1>1, <1>4, <1>7, <1>12, <1>13, <1>14, <1>15, SMT DEF P, lim

\* unassembled stays the number of bytes kept beyond first_unassembled.
LEMMA UnassembledCounts ==
  ASSUME NEW r, NEW got, Assembled(r, got),
         NEW index \in 0 .. N, NEW len \in 0 .. N - index,
         NEW S, S = Span(r, Bytes(index, len), index),
         NEW dr, dr = Drained(r, Bytes(index, len), index)
  PROVE  Unassembled(r, Bytes(index, len), index)
           = Cardinality({c \in r.m_exist \cup S : c > dr})
  <1> DEFINE fu == r.first_unassembled
             E == r.m_exist
             st == Stored(r, Bytes(index, len), index)
             before == {c \in E : c > fu}
             after == {c \in E \cup S : c > dr}
             passed == (fu .. dr - 1) \cap E
  <1>1. /\ dr \in fu .. N /\ dr \notin E \cup S
        /\ fu \in S => st = {} /\ \A c \in S : c < dr
        /\ fu \notin S => dr = fu /\ st = S \ E
    BY DrainedProperties
  <1>2. /\ N \in Nat /\ fu \in 0 .. N /\ fu \notin E
        /\ 0 .. fu - 1 \subseteq E /\ E \subseteq 0 .. N - 1
    BY StateFacts
  <1>3. S \subseteq 0 .. N - 1
    BY <1>2, SpanProperties, SMT
  <1>4. Unassembled(r, Bytes(index, len), index)
          = Cardinality(before) + Cardinality(st) - Cardinality(passed)
    BY DEF Unassembled, Assembled, Counted
  <1>5. st \subseteq S
    BY DEF Stored
  <1>. HIDE DEF fu, E, st
  <1>6. /\ IsFiniteSet(before) /\ IsFiniteSet(after)
        /\ IsFiniteSet(passed) /\ IsFiniteSet(st)
    <2>1. IsFiniteSet(0 .. N - 1)
      BY <1>2, FS_Interval, SMT
    <2>2. /\ before \in SUBSET (0 .. N - 1) /\ after \in SUBSET (0 .. N - 1)
          /\ passed \in SUBSET (0 .. N - 1) /\ st \in SUBSET (0 .. N - 1)
      BY <1>2, <1>3, <1>5
    <2>. HIDE DEF before, after, passed
    <2>. QED  BY <2>1, <2>2, FS_Subset
  <1>7. CASE fu \in S
    <2>1. before = passed \cup after /\ passed \cap after = {}
      <3>1. /\ fu \in Int /\ dr \in Int /\ fu <= dr /\ fu \notin E /\ dr \notin E
            /\ \A c \in E : c \in Int
            /\ \A c \in S : c \in Int /\ c < dr
        BY <1>7, <1>1, <1>2, <1>3, SMT
      <3>2. \A c \in after : c \in E /\ c > dr
        BY <3>1, SMT
      <3>3. \A c \in before : c \in passed \/ c \in after
        BY <3>1, SMT
      <3>4. \A c \in passed : c \in before /\ c \notin after
        BY <3>1, SMT
      <3>5. \A c \in after : c \in before
        BY <3>1, <3>2, SMT
      <3>. HIDE DEF before, after, passed
      <3>. QED  BY <3>3, <3>4, <3>5
    <2>2. st = {}
      BY <1>7, <1>1
    <2>. HIDE DEF before, after, passed
    <2>3. /\ Cardinality(passed) \in Nat /\ Cardinality(after) \in Nat
          /\ Cardinality(before)
               = Cardinality(passed) + Cardinality(after) - Cardinality(passed \cap after)
      BY <1>6, <2>1, FS_Union, FS_CardinalityType
    <2>4. Cardinality(before) + Cardinality(st) - Cardinality(passed) = Cardinality(after)
      BY <2>1, <2>2, <2>3, FS_EmptySet, SMT
    <2>. QED  BY <1>4, <2>4 DEF after, before, passed, E
  <1>8. CASE fu \notin S
    <2>1. passed = {}
      BY <1>8, <1>1, <1>2, SMT
    <2>2. after = before \cup st /\ before \cap st = {}
      BY <1>8, <1>1, <1>2, <1>3, SMT
    <2>. HIDE DEF before, after, passed
    <2>3. /\ Cardinality(before) \in Nat /\ Cardinality(st) \in Nat
          /\ Cardinality(after)
               = Cardinality(before) + Cardinality(st) - Cardinality(before \cap st)
      BY <1>6, <2>2, FS_Union, FS_CardinalityType
    <2>4. Cardinality(before) + Cardinality(st) - Cardinality(passed) = Cardinality(after)
      BY <2>1, <2>2, <2>3, FS_EmptySet, SMT
    <2>. QED  BY <1>4, <2>4 DEF after, before, passed, E
  <1>. QED  BY <1>7, <1>8

\* What push_substring() writes is the next part of the stream, whichever of
\* the two loops wrote it.
LEMMA ToWriteIsNext ==
  ASSUME NEW r, NEW got, Assembled(r, got),
         NEW index \in 0 .. N, NEW len \in 0 .. N - index,
         NEW fu, fu = r.first_unassembled,
         NEW dr, dr = Drained(r, Bytes(index, len), index)
  PROVE  ToWrite(r, Bytes(index, len), index) = Bytes(fu, dr - fu)
  <1> DEFINE S == Span(r, Bytes(index, len), index)
             E == r.m_exist
             out == ToWrite(r, Bytes(index, len), index)
  <1>1. dr \in fu .. N /\ fu .. dr - 1 \subseteq E \cup S
    BY DrainedProperties
  <1>2. N \in Nat /\ fu \in 0 .. N /\ fu \notin E
    BY StateFacts
  <1>3. \A c \in S : c \in index .. index + len - 1
    BY SpanProperties
  <1>4. /\ Len(Bytes(index, len)) = len
        /\ \A k \in 1 .. len : Bytes(index, len)[k] = Stream[index + k]
    BY PieceProperties
  <1>5. \A c \in E : c > fu => r.m_char[c] = Stream[c + 1]
    BY DEF Assembled
  <1>6. out = [k \in 1 .. dr - fu |-> ByteAt(r, Bytes(index, len), index, fu + k - 1)]
    BY DEF ToWrite
  <1>. HIDE DEF out, S
  <1>7. ASSUME NEW k \in 1 .. dr - fu
        PROVE  ByteAt(r, Bytes(index, len), index, fu + k - 1) = Stream[fu + k]
    <2> DEFINE c == fu + k - 1
    <2>1. c \in fu .. dr - 1 /\ c + 1 = fu + k /\ c \in Int
      BY <1>1, <1>2, SMT
    <2>2. c \in E \cup S
      BY <1>1, <2>1
    <2>. HIDE DEF c
    <2>3. CASE c \in E
      <3>1. c > fu
        BY <2>1, <2>3, <1>1, <1>2, SMT
      <3>2. ByteAt(r, Bytes(index, len), index, c) = r.m_char[c]
        BY <2>3 DEF ByteAt
      <3>. QED  BY <3>1, <3>2, <2>1, <2>3, <1>5 DEF c
    <2>4. CASE c \notin E
      <3>1. c \in index .. index + len - 1
        BY <2>2, <2>4, <1>3
      <3>2. c - index + 1 \in 1 .. len /\ index + (c - index + 1) = c + 1
        BY <3>1, <1>2, SMT
      <3>3. ByteAt(r, Bytes(index, len), index, c) = Bytes(index, len)[c - index + 1]
        BY <2>4 DEF ByteAt
      <3>. QED  BY <3>2, <3>3, <2>1, <1>4 DEF c
    <2>. QED  BY <2>3, <2>4
  <1>8. dr - fu \in 0 .. N - fu
    BY <1>1, <1>2, SMT
  <1>9. /\ Bytes(fu, dr - fu) \in Seq(Byte) /\ Len(Bytes(fu, dr - fu)) = dr - fu
        /\ \A k \in 1 .. dr - fu : Bytes(fu, dr - fu)[k] = Stream[fu + k]
    BY <1>2, <1>8, PieceProperties
  <1>10. Bytes(fu, dr - fu) = [k \in 1 .. dr - fu |-> Bytes(fu, dr - fu)[k]]
    BY <1>9, LenProperties
  <1>11. \A k \in 1 .. dr - fu : ByteAt(r, Bytes(index, len), index, fu + k - 1)
                                   = Bytes(fu, dr - fu)[k]
    BY <1>7, <1>9
  <1>12. out = Bytes(fu, dr - fu)
    BY <1>6, <1>10, <1>11, Zenon
  <1>. QED  BY <1>12 DEF out

\* Concatenation is associative, over the bytes of this stream.
LEMMA Associative ==
  \A s, t, u \in Seq(Byte) : (s \o t) \o u = s \o (t \o u)
  BY ConcatAssociative

\* A sequence cut in two: both parts, and that they make up the whole.
LEMMA SplitProperties ==
  ASSUME NEW s \in Seq(Byte), NEW k \in 0 .. Len(s)
  PROVE  /\ SubSeq(s, 1, k) \in Seq(Byte) /\ Len(SubSeq(s, 1, k)) = k
         /\ SubSeq(s, k + 1, Len(s)) \in Seq(Byte)
         /\ Len(SubSeq(s, k + 1, Len(s))) = Len(s) - k
         /\ SubSeq(s, 1, k) \o SubSeq(s, k + 1, Len(s)) = s
  <1>1. Len(s) \in Nat
    BY LenProperties
  <1>2. \A i \in 1 .. Len(s) : s[i] \in Byte
    BY ElementOfSeq
  <1>3. SubSeq(s, 1, k) \in Seq(Byte) /\ Len(SubSeq(s, 1, k)) = k
    BY <1>1, <1>2, SubSeqProperties, SMT
  <1>4. /\ SubSeq(s, k + 1, Len(s)) \in Seq(Byte)
        /\ Len(SubSeq(s, k + 1, Len(s))) = Len(s) - k
    BY <1>1, <1>2, SubSeqProperties, SMT
  <1>5. 1 \in 1 .. Len(s) + 1 /\ k \in 1 - 1 .. Len(s) /\ Len(s) \in k .. Len(s)
    BY <1>1, SMT
  <1>6. SubSeq(s, 1, k) \o SubSeq(s, k + 1, Len(s)) = SubSeq(s, 1, Len(s))
    BY <1>5, ConcatAdjacentSubSeq
  <1>. QED  BY <1>3, <1>4, <1>6, SubSeqFull

\* out is r's output after everything up to index dr was written to it.
WrittenTo(r, got, dr, out) ==
  /\ out \in OutputType
  /\ out.read_count = r.output.read_count
  /\ out.write_count = dr
  /\ out.input_ended = r.output.input_ended
  /\ Len(out.buffer) = Len(r.output.buffer) + (dr - r.first_unassembled)
  /\ got \o out.buffer = SubSeq(Stream, 1, dr)

\* _output.write() takes all it is given: what is assembled lies below the
\* limit, so it fits in what the reader has left free.
LEMMA WriteTakesAll ==
  ASSUME NEW r, NEW got, Assembled(r, got),
         NEW dr \in r.first_unassembled .. N, dr <= Limit(r)
  PROVE  WrittenTo(r, got, dr, write(r.output, Bytes(r.first_unassembled,
                                                     dr - r.first_unassembled)))
  <1> DEFINE fu == r.first_unassembled
             out == r.output
             new == Bytes(fu, dr - fu)
             next == write(out, new)
  <1>1. /\ out \in OutputType /\ out.buffer \in Seq(Byte) /\ out.capacity = Capacity
        /\ out.write_count \in Nat /\ out.read_count \in Nat /\ got \in Seq(Byte)
    BY DEF Assembled, ReassemblerType, OutputType
  <1>2. Len(out.buffer) \in Nat /\ Len(got) \in Nat
    BY <1>1, LenProperties
  <1>3. /\ N \in Nat /\ fu \in 0 .. N /\ Capacity \in Nat
        /\ Limit(r) = out.read_count + Capacity
    BY StateFacts
  <1>4. out.read_count + Len(out.buffer) = fu
    BY DEF Assembled
  <1>5. dr - fu \in 0 .. N - fu /\ dr - fu <= Capacity - Len(out.buffer)
    <2>1. dr \in fu .. N /\ dr <= out.read_count + Capacity
      BY <1>3
    <2>2. out.read_count \in Nat /\ Len(out.buffer) \in Nat
      BY <1>1, <1>2
    <2>3. N \in Nat /\ Capacity \in Nat /\ fu \in Nat
      BY <1>3, SMT
    <2>. HIDE DEF out
    <2>4. dr - fu \in 0 .. N - fu
      BY <2>1, <2>3, SMT
    <2>5. dr - fu <= Capacity - Len(out.buffer)
      BY <2>1, <2>2, <2>3, <1>4, SMT
    <2>. QED  BY <2>4, <2>5
  <1>6. new \in Seq(Byte) /\ Len(new) = dr - fu
    BY <1>3, <1>5, PieceProperties
  <1>7. AtMost(Len(new), remaining_capacity(out)) = Len(new)
    <2>1. remaining_capacity(out) = Capacity - Len(out.buffer)
      BY <1>1 DEF remaining_capacity, buffer_size
    <2>. HIDE DEF out, new
    <2>2. /\ Len(new) \in Nat /\ remaining_capacity(out) \in Int
          /\ Len(new) <= remaining_capacity(out)
      BY <2>1, <1>2, <1>3, <1>5, <1>6, SMT
    <2>. HIDE DEF remaining_capacity
    <2>. QED  BY <2>2, SMT DEF AtMost
  <1>8. SubSeq(new, 1, Len(new)) = new
    BY <1>6, SubSeqFull
  <1>9. next = [out EXCEPT !.buffer = out.buffer \o new, !.write_count = out.write_count + Len(new)]
    BY <1>7, <1>8 DEF write
  <1>10. new = SubSeq(Stream, fu + 1, dr)
    <2>1. fu + (dr - fu) = dr
      BY <1>3, SMT
    <2>. QED  BY <2>1 DEF Bytes
  <1>. HIDE DEF out, new, next
  <1>11. /\ out.buffer \o new \in Seq(Byte)
         /\ Len(out.buffer \o new) = Len(out.buffer) + Len(new)
    BY <1>1, <1>6, ConcatProperties
  <1>12. out.write_count + Len(new) \in Nat
    BY <1>1, <1>5, <1>6, SMT
  <1>13. /\ next \in OutputType /\ next.buffer = out.buffer \o new
         /\ next.read_count = out.read_count
         /\ next.write_count = out.write_count + Len(new)
         /\ next.input_ended = out.input_ended
    BY <1>1, <1>9, <1>11, <1>12 DEF OutputType
  <1>14. got \o (out.buffer \o new) = SubSeq(Stream, 1, dr)
    <2>1. (got \o out.buffer) \o new = got \o (out.buffer \o new)
      BY <1>1, <1>6, Associative
    <2>2. got \o out.buffer = SubSeq(Stream, 1, fu)
      BY DEF Assembled, out
    <2>3. Stream \in Seq(Byte) /\ N = Len(Stream)
      BY StreamProperties DEF N
    <2>4. 1 \in 1 .. Len(Stream) + 1 /\ fu \in 1 - 1 .. Len(Stream) /\ dr \in fu .. Len(Stream)
      BY <1>3, <2>3, SMT
    <2>5. SubSeq(Stream, 1, fu) \o SubSeq(Stream, fu + 1, dr) = SubSeq(Stream, 1, dr)
      BY <2>3, <2>4, ConcatAdjacentSubSeq
    <2>. QED  BY <2>1, <2>2, <2>5, <1>10
  <1>15. out.write_count + Len(new) = dr
    <2>1. out.write_count = fu
      BY DEF Assembled, out
    <2>. QED  BY <2>1, <1>3, <1>6, SMT
  <1>. QED  BY <1>6, <1>11, <1>13, <1>14, <1>15 DEF WrittenTo, out, new, next

\* A call of push_substring() preserves the inductive invariant, marks the
\* indices it looks at, and ends the output when the end is known and nothing
\* is missing before it.
LEMMA PushKeeps ==
  ASSUME NEW r, NEW got, Assembled(r, got),
         NEW index \in 0 .. N, NEW len \in 0 .. N - index, NEW is_eof \in BOOLEAN,
         NEW nr, nr = push_substring(r, Bytes(index, len), index, is_eof)
  PROVE  /\ Assembled(nr, got)
         /\ nr.m_exist = r.m_exist \cup Span(r, Bytes(index, len), index)
         /\ nr.eof = Eof(r, Bytes(index, len), index, is_eof)
         /\ nr.output.input_ended <=>
              r.output.input_ended \/ (nr.unassembled = 0 /\ nr.eof)
  <1> DEFINE piece == Bytes(index, len)
             fu == r.first_unassembled
             S == Span(r, piece, index)
             dr == Drained(r, piece, index)
             st == Stored(r, piece, index)
             un == Unassembled(r, piece, index)
             ended == Eof(r, piece, index, is_eof)
             next == write(r.output, ToWrite(r, piece, index))
             output == IF un = 0 /\ ended THEN end_input(next) ELSE next
             chars == [c \in DOMAIN r.m_char \cup st |->
                         IF c \in st THEN piece[c - index + 1] ELSE r.m_char[c]]
  <1>1. /\ nr = [r EXCEPT !.output = output, !.first_unassembled = dr,
                                    !.unassembled = un, !.eof = ended,
                                    !.m_exist = r.m_exist \cup S, !.m_char = chars]
    BY DEF push_substring
  <1>2. /\ dr \in fu .. N /\ dr <= Limit(r) /\ dr \notin r.m_exist \cup S
        /\ fu .. dr - 1 \subseteq r.m_exist \cup S
        /\ fu \in S => st = {} /\ \A c \in S : c < dr
        /\ fu \notin S => dr = fu /\ st = S \ r.m_exist
    BY DrainedProperties
  <1>3. un = Cardinality({c \in r.m_exist \cup S : c > dr})
    BY UnassembledCounts
  <1>4. /\ next \in OutputType /\ next.read_count = r.output.read_count
        /\ next.write_count = dr /\ next.input_ended = r.output.input_ended
        /\ Len(next.buffer) = Len(r.output.buffer) + (dr - fu)
        /\ got \o next.buffer = SubSeq(Stream, 1, dr)
    <2>1. next = write(r.output, Bytes(fu, dr - fu))
      BY ToWriteIsNext
    <2>2. dr \in r.first_unassembled .. N /\ dr <= Limit(r)
      BY <1>2
    <2>. HIDE DEF next, dr
    <2>3. WrittenTo(r, got, dr, next)
      BY <2>1, <2>2, WriteTakesAll
    <2>. QED  BY <2>3 DEF WrittenTo
  <1>5. /\ output \in OutputType /\ output.read_count = r.output.read_count
        /\ output.buffer = next.buffer /\ output.write_count = dr
        /\ output.input_ended <=> r.output.input_ended \/ (un = 0 /\ ended)
    BY <1>4 DEF end_input, OutputType
  <1>6. /\ N \in Nat /\ Capacity \in Nat /\ fu \in 0 .. N /\ r.output.read_count \in Nat
        /\ Limit(r) = r.output.read_count + Capacity
        /\ fu <= Limit(r) /\ r.m_exist \subseteq 0 .. N - 1
        /\ \A c \in r.m_exist : c < Limit(r)
        /\ fu \notin r.m_exist /\ 0 .. fu - 1 \subseteq r.m_exist
    BY StateFacts
  <1>7. /\ \A c \in S : c \in index .. index + len - 1 /\ c < Limit(r)
        /\ S \subseteq 0 .. N - 1
    BY <1>6, SpanProperties, SMT
  <1>8. chars \in [DOMAIN r.m_char \cup st -> Byte] /\ DOMAIN r.m_char \cup st \subseteq 0 .. N - 1
    <2>1. r.m_char \in [DOMAIN r.m_char -> Byte] /\ DOMAIN r.m_char \subseteq 0 .. N - 1
      BY DEF Assembled, ReassemblerType
    <2>2. st \subseteq S
      BY DEF Stored
    <2>3. \A c \in st : piece[c - index + 1] \in Byte
      <3>. SUFFICES ASSUME NEW c \in st
                    PROVE  piece[c - index + 1] \in Byte
        OBVIOUS
      <3>1. piece \in Seq(Byte) /\ Len(piece) = len
        BY PieceProperties
      <3>2. c - index + 1 \in 1 .. len
        BY <2>2, <1>6, <1>7, SMT
      <3>. QED  BY <3>1, <3>2, ElementOfSeq
    <2>. HIDE DEF st, piece
    <2>. QED  BY <2>1, <2>2, <2>3, <1>7
  <1>9. \A c \in st : c \in DOMAIN chars /\ chars[c] = Stream[c + 1]
    <2>. SUFFICES ASSUME NEW c \in st
                  PROVE  c \in DOMAIN chars /\ chars[c] = Stream[c + 1]
      OBVIOUS
    <2>1. c \in S
      BY DEF Stored
    <2>2. c - index + 1 \in 1 .. len /\ index + (c - index + 1) = c + 1
      BY <2>1, <1>6, <1>7, SMT
    <2>3. piece[c - index + 1] = Stream[c + 1]
      BY <2>2, PieceProperties
    <2>. HIDE DEF st, piece
    <2>. QED  BY <2>3
  <1>10. \A c \in DOMAIN r.m_char \ st : c \in DOMAIN chars /\ chars[c] = r.m_char[c]
    OBVIOUS
  <1>. HIDE DEF piece, S, dr, st, un, ended, next, output, chars
  <1>11. un \in Nat
    <2>1. IsFiniteSet(0 .. N - 1)
      <3>1. 0 \in Int /\ N - 1 \in Int
        BY StreamProperties, SMT
      <3>. QED  BY <3>1, FS_Interval
    <2>2. {c \in r.m_exist \cup S : c > dr} \in SUBSET (0 .. N - 1)
      BY <1>6, <1>7
    <2>3. IsFiniteSet({c \in r.m_exist \cup S : c > dr})
      BY <2>1, <2>2, FS_Subset
    <2>. QED  BY <2>3, <1>3, FS_CardinalityType
  <1>12. ended \in BOOLEAN
    BY DEF Eof, ended, Assembled, ReassemblerType
  <1>13. dr \in 0 .. N
    BY <1>2, <1>6, SMT
  <1>14. /\ nr.output = output /\ nr.capacity = Capacity
         /\ nr.first_unassembled = dr /\ nr.unassembled = un
         /\ nr.m_exist = r.m_exist \cup S
         /\ nr.m_char = chars
         /\ nr.eof = ended /\ nr \in ReassemblerType
    <2>1. chars \in UNION {[D -> Byte] : D \in SUBSET (0 .. N - 1)}
      BY <1>8
    <2>2. r.m_exist \cup S \in SUBSET (0 .. N - 1)
      BY <1>6, <1>7
    <2>4. /\ DOMAIN r = {"output", "capacity", "first_unassembled", "unassembled", "eof",
                         "m_exist", "m_char"}
          /\ r.capacity = Capacity
          /\ r = [output |-> r.output, capacity |-> r.capacity,
                  first_unassembled |-> r.first_unassembled, unassembled |-> r.unassembled,
                  eof |-> r.eof, m_exist |-> r.m_exist, m_char |-> r.m_char]
      BY DEF Assembled, ReassemblerType
    <2>5. nr = [output |-> output, capacity |-> Capacity, first_unassembled |-> dr,
                          unassembled |-> un, eof |-> ended, m_exist |-> r.m_exist \cup S,
                          m_char |-> chars]
      BY <2>4, <1>1
    <2>6. nr \in ReassemblerType
      BY <2>1, <2>2, <2>5, <1>5, <1>11, <1>12, <1>13 DEF ReassemblerType
    <2>. QED  BY <2>5, <2>6
  <1>15. Limit(nr) = Limit(r)
    BY <1>5, <1>6, <1>14 DEF Limit
  <1>16. got \o nr.output.buffer = SubSeq(Stream, 1, nr.first_unassembled)
    BY <1>4, <1>5, <1>14
  <1>17. Counted(nr)
    <2>1. 0 .. dr - 1 \subseteq r.m_exist \cup S
      BY <1>2, <1>6, SMT
    <2>. QED  BY <2>1, <1>2, <1>3, <1>14 DEF Counted
  <1>18. /\ Len(got) = nr.output.read_count
         /\ Len(got) + Len(nr.output.buffer) = nr.first_unassembled
    <2>1. /\ Len(got) = r.output.read_count
          /\ Len(got) + Len(r.output.buffer) = fu
      BY DEF Assembled
    <2>2. Len(got) \in Nat /\ Len(r.output.buffer) \in Nat
      BY LenProperties DEF Assembled, ReassemblerType
    <2>3. Len(got) + (Len(r.output.buffer) + (dr - fu)) = dr
      <3>1. \A a, b \in Nat, d \in 0 .. N : a + (b + (d - (a + b))) = d
        BY StreamProperties, SMT
      <3>. QED  BY <3>1, <2>1, <2>2, <1>13
    <2>. QED  BY <2>1, <2>3, <1>1, <1>4, <1>5, <1>14
  <1>19. /\ nr.first_unassembled <= Limit(nr)
         /\ \A c \in nr.m_exist : c < Limit(nr)
    BY <1>2, <1>6, <1>7, <1>14, <1>15
  <1>20. \A c \in nr.m_exist : c > nr.first_unassembled =>
            c \in DOMAIN nr.m_char /\ nr.m_char[c] = Stream[c + 1]
    <2>. SUFFICES ASSUME NEW c \in r.m_exist \cup S, c > dr
                  PROVE  c \in DOMAIN chars /\ chars[c] = Stream[c + 1]
      BY <1>14
    <2>1. CASE c \in st
      BY <2>1, <1>9
    <2>2. CASE c \notin st
      <3>1. c \in r.m_exist
        <4>1. c \in S => ~ (c < dr)
          BY <1>7, <1>13, SMT
        <4>. QED  BY <4>1, <2>2, <1>2
      <3>2. c > fu
        BY <3>1, <1>2, <1>6, SMT
      <3>3. c \in DOMAIN r.m_char /\ r.m_char[c] = Stream[c + 1]
        BY <3>1, <3>2 DEF Assembled
      <3>. QED  BY <3>3, <2>2, <1>10
    <2>. QED  BY <2>1, <2>2
  <1>21. Assembled(nr, got)
    <2>1. got \in Seq(Byte)
      BY DEF Assembled
    <2>. QED  BY <2>1, <1>5, <1>14, <1>16, <1>17, <1>18, <1>19, <1>20 DEF Assembled
  <1>. QED  BY <1>5, <1>14, <1>21 DEF piece, S, ended

\* A read preserves the inductive invariant: it moves bytes from the buffer to
\* the owner, and the limit up.
LEMMA ReadKeeps ==
  ASSUME NEW r, NEW got, Assembled(r, got), NEW len \in 1 .. Capacity,
         NEW nr, nr = [r EXCEPT !.output = pop_output(r.output, len)],
         NEW ngot, ngot = got \o peek_output(r.output, len)
  PROVE  Assembled(nr, ngot)
  <1> DEFINE out == r.output
             k == AtMost(len, buffer_size(out))
             taken == SubSeq(out.buffer, 1, k)
             rest == SubSeq(out.buffer, k + 1, Len(out.buffer))
             output == [out EXCEPT !.buffer = rest, !.read_count = out.read_count + k]
  <1>1. /\ out \in OutputType /\ out.buffer \in Seq(Byte) /\ out.read_count \in Nat
        /\ got \in Seq(Byte) /\ r.capacity = Capacity /\ out.write_count = r.first_unassembled
    BY DEF Assembled, ReassemblerType, OutputType
  <1>2. Len(out.buffer) \in Nat /\ Len(got) \in Nat /\ Capacity \in Nat
    BY <1>1, LenProperties, PeerStreamAssumption
  <1>3. nr = [r EXCEPT !.output = output] /\ ngot = got \o taken
    BY DEF pop_output, peek_output
  <1>4. k \in 0 .. Len(out.buffer)
    <2>1. \A b \in Nat : AtMost(len, b) \in 0 .. b
      BY <1>2, SMT DEF AtMost
    <2>. QED  BY <2>1, <1>2 DEF buffer_size
  <1>. HIDE DEF k
  <1>5. /\ taken \in Seq(Byte) /\ Len(taken) = k
        /\ rest \in Seq(Byte) /\ Len(rest) = Len(out.buffer) - k
        /\ taken \o rest = out.buffer
    BY <1>1, <1>4, SplitProperties
  <1>. HIDE DEF taken, rest
  <1>6. got \o taken \in Seq(Byte) /\ Len(got \o taken) = Len(got) + k
    BY <1>1, <1>5, ConcatProperties
  <1>7. out.read_count + k \in Nat
    BY <1>1, <1>2, <1>4, SMT
  <1>8. /\ output \in OutputType /\ output.buffer = rest
        /\ output.read_count = out.read_count + k /\ output.write_count = out.write_count
    BY <1>1, <1>5, <1>7 DEF OutputType
  <1>. HIDE DEF output
  <1>9. /\ nr \in ReassemblerType /\ nr.output = output /\ nr.capacity = Capacity
        /\ nr.first_unassembled = r.first_unassembled
        /\ nr.unassembled = r.unassembled
        /\ nr.m_exist = r.m_exist /\ nr.m_char = r.m_char
    BY <1>1, <1>3, <1>6, <1>8 DEF Assembled, ReassemblerType, OutputType
  <1>10. ngot \o nr.output.buffer = SubSeq(Stream, 1, nr.first_unassembled)
    <2>1. (got \o taken) \o rest = got \o (taken \o rest)
      BY <1>1, <1>5, Associative
    <2>. QED  BY <2>1, <1>3, <1>5, <1>8, <1>9 DEF Assembled
  <1>11. Counted(nr)
    BY <1>9 DEF Assembled, Counted
  <1>12. /\ Len(ngot) = nr.output.read_count
         /\ Len(ngot) + Len(rest) = nr.first_unassembled
    <2>1. Len(got) = out.read_count /\ Len(got) + Len(out.buffer) = r.first_unassembled
      BY DEF Assembled
    <2>2. (Len(got) + k) + (Len(out.buffer) - k) = Len(got) + Len(out.buffer)
      <3>1. \A a, b \in Nat : \A i \in 0 .. b : (a + i) + (b - i) = a + b
        BY SMT
      <3>. QED  BY <3>1, <1>2, <1>4
    <2>. QED  BY <2>1, <2>2, <1>3, <1>5, <1>6, <1>8, <1>9
  <1>13. /\ Limit(nr) = Limit(r) + k /\ Limit(r) \in Nat
         /\ r.first_unassembled \in 0 .. N /\ r.first_unassembled <= Limit(r)
         /\ r.m_exist \subseteq 0 .. N - 1 /\ \A c \in r.m_exist : c < Limit(r)
    <2>1. Limit(nr) = (out.read_count + k) + Capacity
      BY <1>8, <1>9 DEF Limit
    <2>2. (out.read_count + k) + Capacity = (out.read_count + Capacity) + k
      BY <1>1, <1>2, <1>4, SMT
    <2>. QED  BY <2>1, <2>2, StateFacts
  <1>14. /\ r.first_unassembled <= Limit(nr)
         /\ \A c \in r.m_exist : c < Limit(nr)
    <2>1. \A a, l \in Int : \A b \in Nat : \A i \in 0 .. b :
            (a < l => a < l + i) /\ (a <= l => a <= l + i)
      BY SMT
    <2>2. r.first_unassembled \in Int /\ \A c \in r.m_exist : c \in Int
      BY <1>13, StreamProperties, SMT
    <2>3. \A a \in Int : /\ a < Limit(r) => a < Limit(r) + k
                         /\ a <= Limit(r) => a <= Limit(r) + k
      BY <2>1, <1>2, <1>4, <1>13
    <2>. QED  BY <2>2, <2>3, <1>13
  <1>15. ngot \in Seq(Byte) /\ nr.output.write_count = nr.first_unassembled
    BY <1>1, <1>3, <1>6, <1>8, <1>9
  <1>. QED  BY <1>8, <1>9, <1>10, <1>11, <1>12, <1>14, <1>15 DEF Assembled

\* Nothing is stored, nothing assembled.
LEMMA NewAssembled == Assembled(NewReassembler(Capacity), <<>>)
  <1> DEFINE r == NewReassembler(Capacity)
  <1>1. N \in Nat /\ Capacity \in Nat
    BY StreamProperties, PeerStreamAssumption
  <1>2. 0 .. 0 - 1 = {} /\ 0 \in 0 .. N
    BY <1>1, SMT
  <1>3. <<>> \in Seq(Byte) /\ Len(<<>>) = 0 /\ <<>> \in [{} -> Byte] /\ DOMAIN <<>> = {}
    BY EmptySeq, SMT
  <1>4. r \in ReassemblerType
    BY <1>1, <1>2, <1>3 DEF ReassemblerType, OutputType, NewReassembler, NewByteStream
  <1>5. <<>> \o r.output.buffer = SubSeq(Stream, 1, r.first_unassembled)
    <2>1. <<>> \o <<>> = <<>> /\ SubSeq(Stream, 1, 0) = <<>>
      BY <1>3, ConcatEmptySeq, SubSeqEmpty
    <2>. QED  BY <2>1 DEF NewReassembler, NewByteStream
  <1>6. Counted(r)
    <2>1. {c \in {} : c > 0} = {}
      OBVIOUS
    <2>. QED  BY <2>1, <1>2, FS_EmptySet DEF Counted, NewReassembler
  <1>. QED  BY <1>1, <1>3, <1>4, <1>5, <1>6 DEF Assembled, Limit, NewReassembler, NewByteStream

\* Every index kept beyond first_unassembled lies below the limit, so what is
\* buffered and what is stored fit in the capacity together.
LEMMA StorageBounded ==
  ASSUME NEW r, NEW got, Assembled(r, got)
  PROVE  buffer_size(r.output) + unassembled_bytes(r) <= Capacity
  <1> DEFINE fu == r.first_unassembled
             lim == Limit(r)
             kept == {c \in r.m_exist : c > fu}
             size == Len(r.output.buffer)
  <1>1. /\ fu \in Nat /\ lim \in Nat /\ Capacity \in Nat /\ fu <= lim
        /\ r.output.read_count \in Nat /\ lim = r.output.read_count + Capacity
        /\ \A c \in r.m_exist : c \in Int /\ c < lim
    BY StateFacts, SMT
  <1>2. /\ r.output.read_count + size = fu
        /\ r.unassembled = Cardinality(kept)
    BY DEF Assembled, Counted
  <1>3. size \in Nat
    BY LenProperties DEF Assembled, ReassemblerType, OutputType
  <1>4. fu + 1 \in Int /\ lim - 1 \in Int
    BY <1>1, SMT
  <1>5. /\ IsFiniteSet(fu + 1 .. lim - 1)
        /\ Cardinality(fu + 1 .. lim - 1)
             = IF fu + 1 > lim - 1 THEN 0 ELSE lim - 1 - (fu + 1) + 1
    BY <1>4, FS_Interval
  <1>6. kept \in SUBSET (fu + 1 .. lim - 1)
    BY <1>1, SMT
  <1>7. buffer_size(r.output) + unassembled_bytes(r) = size + Cardinality(kept)
    BY <1>2 DEF buffer_size, unassembled_bytes
  <1>. HIDE DEF fu, lim, kept, size
  <1>8. /\ IsFiniteSet(kept)
        /\ Cardinality(kept) <= Cardinality(fu + 1 .. lim - 1)
    BY <1>5, <1>6, FS_Subset
  <1>9. Cardinality(kept) \in Nat
    BY <1>8, FS_CardinalityType
  <1>10. Cardinality(kept) <= lim - fu
    <2>1. fu \in Nat /\ lim \in Nat /\ fu <= lim
      BY <1>1
    <2>2. (IF fu + 1 > lim - 1 THEN 0 ELSE lim - 1 - (fu + 1) + 1) <= lim - fu
      BY <2>1, SMT
    <2>3. \A n \in Nat : \A a, b \in Int : n <= a /\ a <= b => n <= b
      BY SMT
    <2>4. Cardinality(fu + 1 .. lim - 1) \in Int /\ lim - fu \in Int
      BY <2>1, <1>5, SMT
    <2>. QED  BY <2>2, <2>3, <2>4, <1>5, <1>8, <1>9
  <1>11. size + (lim - fu) = Capacity
    BY <1>1, <1>2, <1>3, SMT
  <1>. QED  BY <1>1, <1>3, <1>7, <1>9, <1>10, <1>11, SMT

-----------------------------------------------------------------------------
\* The end of the stream is known only when its last byte is marked, and the
\* output has ended exactly when nothing is missing before a known end.  An
\* owner that passes on an empty last substring too early does not keep this.
Ended(r) ==
  /\ r.eof => N = 0 \/ N - 1 \in r.m_exist
  /\ r.output.input_ended <=> r.eof /\ r.unassembled = 0

\* With the end known, nothing is stored exactly when nothing is missing.
LEMMA AllThere ==
  ASSUME NEW r, NEW got, Assembled(r, got), N = 0 \/ N - 1 \in r.m_exist
  PROVE  r.unassembled = 0 <=> r.first_unassembled = N
  <1> DEFINE fu == r.first_unassembled
             kept == {c \in r.m_exist : c > fu}
  <1>1. /\ N \in Nat /\ fu \in 0 .. N /\ fu \notin r.m_exist
        /\ r.m_exist \subseteq 0 .. N - 1
    BY StateFacts
  <1>2. r.unassembled = Cardinality(kept)
    BY DEF Assembled, Counted
  <1>3. IsFiniteSet(kept)
    <2>1. IsFiniteSet(0 .. N - 1)
      BY <1>1, FS_Interval, SMT
    <2>2. kept \in SUBSET (0 .. N - 1)
      BY <1>1
    <2>. HIDE DEF kept
    <2>. QED  BY <2>1, <2>2, FS_Subset
  <1>4. kept = {} <=> fu = N
    BY <1>1, SMT
  <1>. HIDE DEF kept
  <1>5. Cardinality(kept) = 0 <=> kept = {}
    BY <1>3, FS_EmptySet
  <1>. QED  BY <1>2, <1>4, <1>5

\* A call of push_substring() keeps it, if an empty last substring comes last.
LEMMA PushEnds ==
  ASSUME NEW r, NEW got, Assembled(r, got), Ended(r),
         NEW index \in 0 .. N, NEW len \in 0 .. N - index, NEW is_eof \in BOOLEAN,
         is_eof => index + len = N /\ (len > 0 \/ r.first_unassembled = N),
         NEW nr, nr = push_substring(r, Bytes(index, len), index, is_eof)
  PROVE  Ended(nr)
  <1> DEFINE S == Span(r, Bytes(index, len), index)
  <1>1. /\ Assembled(nr, got) /\ nr.m_exist = r.m_exist \cup S
        /\ nr.eof = Eof(r, Bytes(index, len), index, is_eof)
        /\ nr.output.input_ended <=>
             r.output.input_ended \/ (nr.unassembled = 0 /\ nr.eof)
    BY PushKeeps
  <1>2. /\ N \in Nat /\ Limit(r) \in Nat /\ r.first_unassembled \in 0 .. N
        /\ 0 .. r.first_unassembled - 1 \subseteq r.m_exist
    BY StateFacts
  <1>3. nr.eof <=> r.eof \/ (is_eof /\ index + len <= Limit(r))
    <2>1. Len(Bytes(index, len)) = len
      BY PieceProperties
    <2>. QED  BY <2>1, <1>1 DEF Eof
  <1>4. nr.eof => N = 0 \/ N - 1 \in nr.m_exist
    <2>. SUFFICES ASSUME nr.eof, N # 0
                  PROVE  N - 1 \in nr.m_exist
      OBVIOUS
    <2>1. CASE r.eof
      BY <2>1, <1>1 DEF Ended
    <2>2. CASE is_eof /\ index + len <= Limit(r) /\ len > 0
      <3>1. N - 1 \in index .. index + len - 1 /\ N - 1 < Limit(r)
        BY <2>2, <1>2, SMT
      <3>2. N - 1 \in S
        BY <3>1, SpanProperties
      <3>. QED  BY <3>2, <1>1
    <2>3. CASE is_eof /\ r.first_unassembled = N
      <3>1. N - 1 \in 0 .. r.first_unassembled - 1
        BY <2>3, <1>2, SMT
      <3>. QED  BY <3>1, <1>1, <1>2
    <2>. QED  BY <2>1, <2>2, <2>3, <1>3
  <1>5. ASSUME r.output.input_ended
        PROVE  nr.eof /\ nr.unassembled = 0
    <2>1. r.eof /\ r.unassembled = 0
      BY <1>5 DEF Ended
    <2>2. r.first_unassembled = N
      BY <2>1, AllThere DEF Ended
    <2>3. /\ nr.first_unassembled \in 0 .. N
          /\ nr.first_unassembled \notin nr.m_exist
      BY <1>1, StateFacts
    <2>4. nr.first_unassembled = N
      BY <2>2, <2>3, <1>1, <1>2, SMT
    <2>. QED  BY <2>1, <2>4, <1>1, <1>3, <1>4, AllThere
  <1>. QED  BY <1>1, <1>4, <1>5 DEF Ended

\* A read keeps it.
LEMMA ReadEnds ==
  ASSUME NEW r, NEW got, Assembled(r, got), Ended(r), NEW len
  PROVE  Ended([r EXCEPT !.output = pop_output(r.output, len)])
  BY DEF Assembled, ReassemblerType, OutputType, Ended, pop_output

\* An empty substring that is not the last changes nothing, whatever its index.
LEMMA EmptyPush ==
  ASSUME NEW r, NEW got, Assembled(r, got), Ended(r), NEW index \in Int
  PROVE  push_substring(r, <<>>, index, FALSE) = r
  <1> DEFINE fu == r.first_unassembled
             out == r.output
  <1>1. /\ N \in Nat /\ Limit(r) \in Nat /\ fu \in 0 .. N /\ fu \notin r.m_exist
        /\ r.m_exist \subseteq 0 .. N - 1
    BY StateFacts
  <1>2. Len(<<>>) = 0 /\ index + 0 = index
    BY SMT
  <1>3. Span(r, <<>>, index) = {}
    <2>1. \A lim \in Nat : index .. AtMost(index + 0, lim) - 1 = {}
      BY SMT DEF AtMost
    <2>. QED  BY <2>1, <1>1, <1>2 DEF Span
  <1>4. Reached(r, <<>>, index) = fu /\ Stored(r, <<>>, index) = {}
    BY <1>3 DEF Reached, Stored
  <1>5. Drained(r, <<>>, index) = fu
    <2>1. r.m_exist \cup Span(r, <<>>, index) = r.m_exist
      BY <1>3
    <2>2. RunEnd(r.m_exist, fu) = fu
      <3>1. /\ RunEnd(r.m_exist, fu) \in fu .. N
            /\ fu .. RunEnd(r.m_exist, fu) - 1 \subseteq r.m_exist
        BY <1>1, RunEndProperties
      <3>. QED  BY <3>1, <1>1, SMT
    <2>. QED  BY <2>1, <2>2, <1>4 DEF Drained
  <1>6. ToWrite(r, <<>>, index) = <<>>
    <2>1. 1 .. fu - fu = {}
      BY <1>1, SMT
    <2>2. ToWrite(r, <<>>, index) = [k \in {} |-> ByteAt(r, <<>>, index, fu + k - 1)]
      BY <2>1, <1>5 DEF ToWrite
    <2>. QED  BY <2>2, SMT
  <1>7. Unassembled(r, <<>>, index) = r.unassembled
    <2>1. (fu .. fu - 1) \cap r.m_exist = {}
      BY <1>1, SMT
    <2>2. r.unassembled \in Nat
      BY DEF Assembled, ReassemblerType
    <2>3. Unassembled(r, <<>>, index) = r.unassembled + 0 - 0
      BY <2>1, <1>4, <1>5, FS_EmptySet DEF Unassembled
    <2>. QED  BY <2>2, <2>3, SMT
  <1>8. Eof(r, <<>>, index, FALSE) = r.eof
    BY DEF Eof, Assembled, ReassemblerType
  <1>9. write(out, <<>>) = out
    <2>1. /\ out \in OutputType /\ out.buffer \in Seq(Byte) /\ out.capacity = Capacity
          /\ out.write_count \in Nat /\ r.capacity = Capacity
      BY DEF Assembled, ReassemblerType, OutputType
    <2>2. Len(out.buffer) \in Nat /\ Len(out.buffer) <= Capacity /\ Capacity \in Nat
      <3>1. buffer_size(out) + unassembled_bytes(r) <= Capacity
        BY StorageBounded
      <3>2. /\ r.unassembled \in Nat /\ Len(out.buffer) \in Nat /\ Capacity \in Nat
        BY <2>1, LenProperties, PeerStreamAssumption DEF Assembled, ReassemblerType
      <3>. QED  BY <3>1, <3>2, SMT DEF buffer_size, unassembled_bytes
    <2>3. AtMost(0, remaining_capacity(out)) = 0
      BY <2>1, <2>2, SMT DEF AtMost, remaining_capacity, buffer_size
    <2>4. SubSeq(<<>>, 1, 0) = <<>> /\ out.buffer \o <<>> = out.buffer
      BY <2>1, ConcatEmptySeq, SubSeqEmpty
    <2>5. out.write_count + 0 = out.write_count
      BY <2>1, SMT
    <2>6. write(out, <<>>) = [out EXCEPT !.buffer = out.buffer, !.write_count = out.write_count]
      BY <2>3, <2>4, <2>5, <1>2 DEF write
    <2>. QED  BY <2>1, <2>6 DEF OutputType
  <1>10. (r.unassembled = 0 /\ r.eof) => end_input(out) = out
    BY DEF Ended, end_input, Assembled, ReassemblerType, OutputType
  <1> DEFINE st == Stored(r, <<>>, index)
             chars == [c \in DOMAIN r.m_char \cup st |->
                         IF c \in st THEN <<>>[c - index + 1] ELSE r.m_char[c]]
             un == Unassembled(r, <<>>, index)
             ended == Eof(r, <<>>, index, FALSE)
             output == write(out, ToWrite(r, <<>>, index))
  <1>11. chars = r.m_char
    <2>1. st = {}
      BY <1>4
    <2>2. r.m_char = [c \in DOMAIN r.m_char |-> r.m_char[c]]
      BY DEF Assembled, ReassemblerType
    <2>. HIDE DEF st
    <2>. QED  BY <2>1, <2>2
  <1>12. push_substring(r, <<>>, index, FALSE)
           = [r EXCEPT !.output = IF un = 0 /\ ended THEN end_input(output) ELSE output,
                       !.first_unassembled = Drained(r, <<>>, index),
                       !.unassembled = un, !.eof = ended,
                       !.m_exist = r.m_exist \cup Span(r, <<>>, index), !.m_char = chars]
    BY DEF push_substring
  <1>13. /\ (IF un = 0 /\ ended THEN end_input(output) ELSE output) = r.output
         /\ Drained(r, <<>>, index) = r.first_unassembled
         /\ un = r.unassembled /\ ended = r.eof
         /\ r.m_exist \cup Span(r, <<>>, index) = r.m_exist
    BY <1>3, <1>5, <1>6, <1>7, <1>8, <1>9, <1>10
  <1>. HIDE DEF st, chars, un, ended, output
  <1>14. push_substring(r, <<>>, index, FALSE)
           = [r EXCEPT !.output = r.output, !.first_unassembled = r.first_unassembled,
                       !.unassembled = r.unassembled, !.eof = r.eof,
                       !.m_exist = r.m_exist, !.m_char = r.m_char]
    BY <1>11, <1>12, <1>13
  <1>. QED  BY <1>14 DEF Assembled, ReassemblerType

-----------------------------------------------------------------------------
\* The inductive invariant.
ReassemblerInv == Assembled(reassembler, read)

\* Nothing is stored, nothing assembled.
LEMMA ReassemblerInitHolds == ReassemblerInit => ReassemblerInv
  BY NewAssembled DEF ReassemblerInit, ReassemblerInv

\* Every step keeps the inductive invariant.
LEMMA ReassemblerStepHolds == ReassemblerInv /\ [ReassemblerNext]_reassembler_vars => ReassemblerInv'
  <1>. SUFFICES ASSUME ReassemblerInv, [ReassemblerNext]_reassembler_vars PROVE Assembled(reassembler', read')
    BY DEF ReassemblerInv
  <1>1. ASSUME NEW index \in 0 .. N, NEW len \in 0 .. N - index, NEW is_eof \in BOOLEAN,
               Push(index, len, is_eof)
        PROVE  Assembled(reassembler', read')
    <2>1. /\ reassembler' = push_substring(reassembler, Bytes(index, len), index, is_eof)
          /\ read' = read
      BY <1>1 DEF Push, Bytes
    <2>. QED  BY <2>1, PushKeeps DEF ReassemblerInv
  <1>2. ASSUME NEW len \in 1 .. Capacity, ReadOutput(len)
        PROVE  Assembled(reassembler', read')
    BY <1>2, ReadKeeps DEF ReadOutput, ReassemblerInv
  <1>3. CASE UNCHANGED reassembler_vars
    BY <1>3 DEF reassembler_vars, ReassemblerInv
  <1>. QED  BY <1>1, <1>2, <1>3 DEF ReassemblerNext

\* What is buffered and what is stored fit in the capacity together.
LEMMA CapacityBounded == ReassemblerInv => CapacityRespected
  BY StorageBounded DEF ReassemblerInv, CapacityRespected

\* Whatever the pieces of the stream and their order, the owner gets the
\* stream's bytes, each once and in order (push_substring(), _output.write()).
THEOREM OutputIsStreamPrefixHolds == ReassemblerSpec => []OutputIsStreamPrefix
  <1>1. ReassemblerInv => OutputIsStreamPrefix
    BY DEF ReassemblerInv, Assembled, OutputIsStreamPrefix
  <1>. QED  BY <1>1, ReassemblerInitHolds, ReassemblerStepHolds, PTL DEF ReassemblerSpec

\* unassembled_bytes() counts each byte stored once, however often it arrives,
\* and forgets it when it is passed on.
THEOREM StoredBytesCountedHolds == ReassemblerSpec => []StoredBytesCounted
  <1>1. ReassemblerInv => StoredBytesCounted
    BY DEF ReassemblerInv, Assembled, Counted, StoredBytesCounted
  <1>. QED  BY <1>1, ReassemblerInitHolds, ReassemblerStepHolds, PTL DEF ReassemblerSpec

\* What is assembled and not read, and what is stored out of order, never
\* exceed the capacity together, whatever is pushed.
THEOREM CapacityRespectedHolds == ReassemblerSpec => []CapacityRespected
  BY CapacityBounded, ReassemblerInitHolds, ReassemblerStepHolds, PTL DEF ReassemblerSpec

\* The fields of the class keep their types.
THEOREM ReassemblerTypeCorrect == ReassemblerSpec => []ReassemblerTypeOK
  <1>1. ReassemblerInv => ReassemblerTypeOK
    BY DEF ReassemblerInv, Assembled, ReassemblerType, OutputType, ReassemblerTypeOK
  <1>. QED  BY <1>1, ReassemblerInitHolds, ReassemblerStepHolds, PTL DEF ReassemblerSpec
=============================================================================
