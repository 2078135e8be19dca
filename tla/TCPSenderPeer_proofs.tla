------------------------ MODULE TCPSenderPeer_proofs ------------------------
(***************************************************************************)
(* A peer that follows the rules never gets more than it allowed, as long  *)
(* as its acknowledgments arrive in order; and whatever the peer does, the *)
(* sender is the one of TCPSenderSpec.                                     *)
(***************************************************************************)
EXTENDS TCPSenderPeerSpec, TCPSender_proofs

\* The peer's right edge.
PeerEdge == peer.next + Room(PeerWindow(peer))

\* pos gives the absolute sequence numbers of the acknowledgments on their way,
\* between the edges low and high.  Neither these nor the right edges they
\* announce ever move back, and each is where an outstanding segment starts or
\* ends.
InOrder(queue, isn, at, low, next, high, pos) ==
  LET Edge(j) == pos[j] + Room(queue[j].win)
  IN  /\ \A j \in 1 .. Len(queue) :
           /\ queue[j].ackno = wrap(pos[j], isn)
           /\ pos[j] > 0
           /\ \E i \in DOMAIN at : pos[j] = at[i]
           /\ low <= Edge(j) /\ Edge(j) <= high /\ pos[j] <= next
      /\ \A i, j \in 1 .. Len(queue) :
           i < j => pos[i] <= pos[j] /\ Edge(i) <= Edge(j)

\* A peer that follows the rules: what is in flight fits the window last
\* accepted, which lies within the edge.
Follows(at) ==
  /\ \E i \in DOMAIN at : peer.next = at[i]
  /\ edge <= PeerEdge
  /\ ~sender.syn => sender.receiver_window_size = 1
  /\ sender.bytes_in_flight <= Room(sender.receiver_window_size)
  /\ at[1] + Room(sender.receiver_window_size) <= edge
  /\ \E pos \in [1 .. Len(acks) -> 0 .. sender.next_seqno] :
       InOrder(acks, sender.isn, at, edge, peer.next, PeerEdge, pos)

\* What every peer keeps to: it announces a window it really has.
PeerTyped ==
  /\ peer \in [kind : PeerKinds, next : 0 .. N + 2, read : 0 .. N]
  /\ peer.read <= BytesBelow(peer.next)
  /\ BytesBelow(peer.next) - peer.read <= PeerCapacity
  /\ edge \in Nat
  /\ acks \in Seq([ackno : SeqNos, win : 0 .. PeerCapacity])

\* The inductive invariant of TCPSenderPeerSpec.
PeerIInv ==
  /\ IInv /\ PeerTyped
  /\ Conforming /\ ~Reordering =>
       \E at \in Positions(sender) : Sends(sender, at) /\ Follows(at)

-----------------------------------------------------------------------------
\* The bounds are numbers, and a window leaves room for one byte at least.
LEMMA PeerNumbers ==
  /\ N \in Nat /\ PeerCapacity \in Nat /\ MaxWindow \in Nat /\ PeerCapacity <= MaxWindow
  /\ 0 .. PeerCapacity \subseteq 0 .. MaxWindow
  /\ MaxAcks \in Nat /\ Reordering \in BOOLEAN
  /\ \A w \in Nat : Room(w) \in Nat /\ Room(w) >= 1 /\ Room(w) >= w
  <1>1. N \in Nat /\ MaxWindow \in Nat
    BY SenderNumbers
  <1>2. PeerCapacity \in Nat /\ PeerCapacity <= MaxWindow
    BY <1>1, PeerAssumption
  <1>3. 0 .. PeerCapacity \subseteq 0 .. MaxWindow
    BY <1>1, <1>2
  <1>4. \A w \in Nat : Room(w) \in Nat /\ Room(w) >= 1 /\ Room(w) >= w
    BY DEF Room
  <1>. QED  BY <1>1, <1>2, <1>3, <1>4, PeerAssumption

\* Bytes are no more than sequence numbers.
LEMMA BytesBelowProperties ==
  ASSUME NEW n \in 0 .. N + 2
  PROVE  /\ BytesBelow(n) \in 0 .. N
         /\ \A m \in 0 .. n : /\ BytesBelow(m) <= BytesBelow(n)
                              /\ BytesBelow(n) - BytesBelow(m) <= n - m
  <1>1. N \in Nat
    BY SenderNumbers
  <1>. QED  BY <1>1 DEF BytesBelow, AtMost

\* The peer starts with nothing received.
LEMMA PeerInitTyped == PeerInit => PeerTyped
  <1>. SUFFICES ASSUME PeerInit PROVE PeerTyped
    OBVIOUS
  <1>1. /\ peer \in [kind : PeerKinds, next : 0 .. N + 2, read : 0 .. N]
        /\ peer.read = 0 /\ peer.next = 0
    <2>1. 0 \in 0 .. N + 2 /\ 0 \in 0 .. N
      BY PeerNumbers
    <2>. QED  BY <2>1 DEF PeerInit
  <1>2. BytesBelow(0) = 0
    BY DEF BytesBelow
  <1>3. 0 <= 0 /\ 0 - 0 <= PeerCapacity /\ 1 \in Nat
    BY PeerNumbers
  <1>4. acks \in Seq([ackno : SeqNos, win : 0 .. PeerCapacity]) /\ edge \in Nat
    BY <1>3 DEF PeerInit
  <1>. QED  BY <1>1, <1>2, <1>3, <1>4 DEF PeerTyped

\* The acknowledgments with one of them taken away.
LEMMA WithoutProperties ==
  ASSUME NEW S, acks \in Seq(S), NEW i \in 1 .. Len(acks)
  PROVE  /\ Without(i) \in Seq(S) /\ Len(Without(i)) = Len(acks) - 1
         /\ \A j \in 1 .. Len(acks) - 1 :
              Without(i)[j] = acks[IF j < i THEN j ELSE j + 1]
  <1> DEFINE L == Len(acks)
             a == SubSeq(acks, 1, i - 1)
             b == SubSeq(acks, i + 1, L)
  <1>1. L \in Nat /\ \A j \in 1 .. L : acks[j] \in S
    BY LenProperties, ElementOfSeq
  <1>2. /\ i \in Int /\ i - 1 \in Int /\ i + 1 \in Int /\ L \in Int /\ 1 \in Int
        /\ \A j \in 1 .. i - 1 : j \in 1 .. L
        /\ \A j \in i + 1 .. L : j \in 1 .. L
    BY <1>1
  <1>3. /\ a \in Seq(S) /\ Len(a) = IF 1 <= i - 1 THEN (i - 1) - 1 + 1 ELSE 0
        /\ \A j \in 1 .. (i - 1) - 1 + 1 : a[j] = acks[1 + j - 1]
    <2>1. \A j \in 1 .. i - 1 : acks[j] \in S
      BY <1>1, <1>2
    <2>. QED  BY <1>2, <2>1, SubSeqProperties
  <1>4. /\ b \in Seq(S) /\ Len(b) = IF i + 1 <= L THEN L - (i + 1) + 1 ELSE 0
        /\ \A j \in 1 .. L - (i + 1) + 1 : b[j] = acks[(i + 1) + j - 1]
    <2>1. \A j \in i + 1 .. L : acks[j] \in S
      BY <1>1, <1>2
    <2>. QED  BY <1>2, <2>1, SubSeqProperties
  <1>. HIDE DEF a, b
  <1>5. /\ a \o b \in Seq(S) /\ Len(a \o b) = Len(a) + Len(b)
        /\ \A j \in 1 .. Len(a) + Len(b) :
             (a \o b)[j] = IF j <= Len(a) THEN a[j] ELSE b[j - Len(a)]
    BY <1>3, <1>4, ConcatProperties, Zenon
  <1>6. Len(a) = i - 1 /\ Len(b) = L - i
    BY <1>1, <1>3, <1>4
  <1>7. Without(i) = a \o b
    BY DEF Without, a, b
  <1>. HIDE DEF L
  <1>8. Len(a) + Len(b) = L - 1
    BY <1>1, <1>6
  <1>9. ASSUME NEW j \in 1 .. L - 1
        PROVE  (a \o b)[j] = acks[IF j < i THEN j ELSE j + 1]
    <2>1. CASE j < i
      <3>1. j <= i - 1 /\ j \in 1 .. (i - 1) - 1 + 1 /\ 1 + j - 1 = j
        BY <1>1, <2>1
      <3>. QED  BY <1>3, <1>5, <1>6, <1>8, <2>1, <3>1
    <2>2. CASE ~(j < i)
      <3>1. /\ ~(j <= i - 1) /\ j - (i - 1) \in 1 .. L - (i + 1) + 1
            /\ (i + 1) + (j - (i - 1)) - 1 = j + 1
        BY <1>1, <2>2
      <3>2. (a \o b)[j] = b[j - (i - 1)]
        BY <1>5, <1>6, <1>8, <3>1, Zenon
      <3>3. b[j - (i - 1)] = acks[(i + 1) + (j - (i - 1)) - 1]
        BY <1>4, <3>1
      <3>. QED  BY <2>2, <3>1, <3>2, <3>3
    <2>. QED  BY <2>1, <2>2, Zenon
  <1>. QED  BY <1>5, <1>7, <1>8, <1>9 DEF L

\* The peer may receive what was sent: its window stays within its capacity.
LEMMA ReceivesTyped ==
  ASSUME IInv, PeerTyped, NEW n \in 0 .. N + 2, PeerReceives(n)
  PROVE  /\ PeerTyped'
         /\ peer'.kind = peer.kind /\ peer'.next = n /\ peer'.read = peer.read
         /\ PeerWindow(peer') \in 0 .. PeerCapacity
  <1>1. /\ peer.next \in 0 .. N + 2 /\ peer.read \in 0 .. N /\ peer.kind \in PeerKinds
        /\ peer.read <= BytesBelow(peer.next) /\ N \in Nat /\ PeerCapacity \in Nat
        /\ edge' = edge /\ edge \in Nat /\ sender.isn \in SeqNos
    BY PeerNumbers DEF PeerTyped, PeerReceives, IInv, Sends, SenderType
  <1>2. /\ peer' \in [kind : PeerKinds, next : 0 .. N + 2, read : 0 .. N]
        /\ peer'.next = n /\ peer'.read = peer.read /\ peer'.kind = peer.kind
    BY <1>1, Zenon DEF PeerTyped, PeerReceives
  <1>3. BytesBelow(n) \in 0 .. N /\ BytesBelow(peer.next) <= BytesBelow(n)
    <2>1. peer.next \in 0 .. n
      BY <1>1 DEF PeerReceives
    <2>. QED  BY <2>1, BytesBelowProperties
  <1>4. BytesBelow(n) - peer.read <= PeerCapacity
    BY DEF PeerReceives
  <1>5. BytesBelow(peer.next) \in 0 .. N
    BY <1>1, BytesBelowProperties, Zenon
  <1>6. peer.read <= BytesBelow(n)
    BY <1>1, <1>3, <1>5
  <1>7. PeerCapacity - (BytesBelow(n) - peer.read) \in 0 .. PeerCapacity
    BY <1>1, <1>3, <1>4, <1>6
  <1>8. PeerWindow(peer') \in 0 .. PeerCapacity
    BY <1>2, <1>7 DEF PeerWindow
  <1>9. acks' \in Seq([ackno : SeqNos, win : 0 .. PeerCapacity])
    <2>1. acks \in Seq([ackno : SeqNos, win : 0 .. PeerCapacity])
      BY DEF PeerTyped
    <2>2. wrap(n, sender.isn) \in SeqNos
      <3>1. n \in Int /\ sender.isn \in Int
        BY <1>1 DEF SeqNos
      <3>. QED  BY <3>1, WrapType
    <2>3. [ackno |-> wrap(n, sender.isn), win |-> PeerWindow(peer')]
            \in [ackno : SeqNos, win : 0 .. PeerCapacity]
      BY <1>8, <2>2
    <2>. QED  BY <2>1, <2>3, AppendProperties, Zenon DEF PeerReceives
  <1>. QED  BY <1>1, <1>2, <1>4, <1>6, <1>8, <1>9 DEF PeerTyped

\* A byte the peer reads opens its window by one.
LEMMA ReadsTyped ==
  ASSUME PeerTyped, PeerReads
  PROVE  /\ PeerTyped'
         /\ peer'.kind = peer.kind /\ peer'.next = peer.next /\ peer'.read = peer.read + 1
         /\ PeerWindow(peer) \in Nat /\ PeerWindow(peer') = PeerWindow(peer) + 1
  <1>1. /\ peer.next \in 0 .. N + 2 /\ peer.read \in 0 .. N /\ peer.kind \in PeerKinds
        /\ peer.read < BytesBelow(peer.next) /\ N \in Nat /\ PeerCapacity \in Nat
        /\ BytesBelow(peer.next) - peer.read <= PeerCapacity
    BY PeerNumbers DEF PeerTyped, PeerReads
  <1>2. BytesBelow(peer.next) \in 0 .. N
    BY <1>1, BytesBelowProperties, Zenon
  <1>3. /\ peer.read + 1 \in 0 .. N /\ peer.read + 1 <= BytesBelow(peer.next)
        /\ BytesBelow(peer.next) - (peer.read + 1) <= PeerCapacity
        /\ PeerCapacity - (BytesBelow(peer.next) - peer.read) \in Nat
        /\ PeerCapacity - (BytesBelow(peer.next) - (peer.read + 1))
             = PeerCapacity - (BytesBelow(peer.next) - peer.read) + 1
    BY <1>1, <1>2
  <1>4. /\ peer' \in [kind : PeerKinds, next : 0 .. N + 2, read : 0 .. N]
        /\ peer'.kind = peer.kind /\ peer'.next = peer.next /\ peer'.read = peer.read + 1
    BY <1>1, <1>3, Zenon DEF PeerTyped, PeerReads
  <1>. QED  BY <1>3, <1>4 DEF PeerTyped, PeerReads, PeerWindow

\* An acknowledgment on its way has the fields of one.
LEMMA AckTyped ==
  ASSUME PeerTyped, NEW i \in 1 .. Len(acks)
  PROVE  /\ acks[i].ackno \in SeqNos /\ acks[i].win \in 0 .. PeerCapacity
         /\ acks[i].win \in 0 .. MaxWindow /\ acks[i].win \in Nat
  <1>1. acks[i] \in [ackno : SeqNos, win : 0 .. PeerCapacity]
    BY ElementOfSeq, Zenon DEF PeerTyped
  <1>2. acks[i].ackno \in SeqNos /\ acks[i].win \in 0 .. PeerCapacity
    BY <1>1
  <1>2a. PeerCapacity \in Nat
    BY PeerNumbers
  <1>3. acks[i].win \in Nat
    BY <1>2, <1>2a
  <1>. QED  BY <1>2, <1>3, PeerNumbers, Zenon

\* A delivered acknowledgment is a step of the sender.
LEMMA DeliverTyped ==
  ASSUME IInv, PeerTyped, NEW i, Deliver(i)
  PROVE  PeerTyped' /\ Next
  <1>1. i \in 1 .. Len(acks)
    BY DEF Deliver
  <1>2. /\ acks[i].ackno \in SeqNos /\ acks[i].win \in Nat /\ acks[i].win \in 0 .. MaxWindow
    BY <1>1, AckTyped
  <1>3. Next
    BY <1>2 DEF Next, Deliver
  <1>4. acks' \in Seq([ackno : SeqNos, win : 0 .. PeerCapacity])
    BY <1>1, WithoutProperties DEF PeerTyped, Deliver
  <1>5. edge' \in Nat
    <2>1. sender.isn \in SeqNos /\ sender.next_seqno \in Nat
      <3>1. sender.next_seqno \in 0 .. N + 2 /\ sender.isn \in SeqNos
        BY DEF IInv, Sends, SenderType
      <3>. QED  BY <3>1, PeerNumbers
    <2> DEFINE ack == unwrap(acks[i].ackno, sender.isn, sender.next_seqno)
    <2>2. ack \in Nat
      BY <1>2, <2>1, UnwrapNearest, Zenon
    <2>. HIDE DEF ack
    <2>3. ack + (IF acks[i].win = 0 THEN 1 ELSE acks[i].win) \in Nat
      BY <1>2, <2>2
    <2>. QED  BY <2>3 DEF PeerTyped, Deliver, ack
  <1>. QED  BY <1>3, <1>4, <1>5 DEF PeerTyped, Deliver

\* Every step with this peer is a step of the sender, or none.
LEMMA PeerStepTyped ==
  ASSUME IInv, PeerTyped, [PeerNext]_peervars
  PROVE  PeerTyped' /\ [Next]_sender
  <1>1. CASE OwnerActs \/ TimePasses \/ AnyAck
    <2>1. Next
      BY <1>1 DEF OwnerActs, TimePasses, AnyAck, Next
    <2>2. UNCHANGED <<peer, acks, edge>>
      BY <1>1 DEF OwnerActs, TimePasses, AnyAck
    <2>. QED  BY <2>1, <2>2 DEF PeerTyped
  <1>2. ASSUME NEW n \in 0 .. N + 2, PeerReceives(n)
        PROVE  PeerTyped' /\ [Next]_sender
    BY <1>2, ReceivesTyped DEF PeerReceives
  <1>3. CASE PeerReads
    BY <1>3, ReadsTyped DEF PeerReads
  <1>4. ASSUME NEW i \in 1 .. MaxAcks, Lose(i)
        PROVE  PeerTyped' /\ [Next]_sender
    <2>1. acks' \in Seq([ackno : SeqNos, win : 0 .. PeerCapacity])
      BY <1>4, WithoutProperties DEF PeerTyped, Lose
    <2>. QED  BY <1>4, <2>1 DEF PeerTyped, Lose
  <1>5. ASSUME NEW i \in 1 .. MaxAcks, Deliver(i)
        PROVE  PeerTyped' /\ [Next]_sender
    BY <1>5, DeliverTyped
  <1>6. CASE UNCHANGED peervars
    BY <1>6 DEF peervars, PeerTyped
  <1>. QED  BY <1>1, <1>2, <1>3, <1>4, <1>5, <1>6 DEF PeerNext

\* The sender's inductive invariant holds with this peer too.
LEMMA PeerSpecKeeps == PeerSpec => [](IInv /\ PeerTyped)
  <1>1. PeerInit => IInv /\ PeerTyped
    BY InitHolds, PeerInitTyped DEF PeerInit
  <1>2. IInv /\ PeerTyped /\ [PeerNext]_peervars => (IInv /\ PeerTyped)'
    BY PeerStepTyped, StepHolds
  <1>. QED  BY <1>1, <1>2, PTL DEF PeerSpec

\* Between a sender and a peer of either kind, with acknowledgments that are
\* lost or overtake one another, the sender takes only the steps of the sender
\* on its own, so that what is proved of that one holds here.
THEOREM PeerImplementsSender == PeerSpec => Spec
  <1>1. PeerInit => Init
    BY DEF PeerInit
  <1>2. IInv /\ PeerTyped /\ [PeerNext]_peervars => [Next]_sender
    BY PeerStepTyped
  <1>. QED  BY <1>1, <1>2, PeerSpecKeeps, PTL DEF PeerSpec, Spec

-----------------------------------------------------------------------------
\* What is in flight fits the window, which ends at e.
Fits(s, at, e) ==
  /\ s.bytes_in_flight <= Room(s.receiver_window_size)
  /\ at[1] + Room(s.receiver_window_size) <= e

\* The sender after an acknowledgment of what lies before at[m]: from there on
\* its positions are what they were.
Moved(s, at, m, t, now, e) ==
  /\ Sends(t, now) /\ Fits(t, now, e)
  /\ t.isn = s.isn /\ t.syn /\ t.next_seqno >= s.next_seqno
  /\ \A i \in m .. Len(s.segments_outstanding) + 1 : \E j \in DOMAIN now : at[i] = now[j]

\* An acknowledgment on a boundary, whose window reaches at least as far as the
\* one before: what is then in flight fits the new window.
LEMMA AckMoves ==
  ASSUME NEW s, NEW at, Sends(s, at), Counted(s), s.syn,
         NEW m \in 1 .. Len(s.segments_outstanding) + 1,
         NEW w \in 0 .. MaxWindow, NEW e \in Nat, Fits(s, at, e), e <= at[m] + Room(w)
  PROVE  \E now : Moved(s, at, m, ack_received(s, wrap(at[m], s.isn), w), now,
                        at[m] + Room(w))
  <1> DEFINE o == s.segments_outstanding
             L == Len(o)
             n == at[m]
             ackno == wrap(n, s.isn)
             u == [s EXCEPT !.receiver_window_size = w]
             t == ack_received(s, ackno, w)
             next == s.next_seqno
             bif == s.bytes_in_flight
  <1>1. s \in SenderType /\ Queued(s, at)
    BY DEF Sends
  <1>2. /\ o \in Seq(Segments) /\ next \in 0 .. N + 2 /\ N \in Nat /\ s.isn \in SeqNos
        /\ bif \in 0 .. N + 2 /\ s.receiver_window_size \in 0 .. MaxWindow
    BY <1>1, SenderNumbers DEF SenderType
  <1>3. L \in Nat
    BY <1>2, LenProperties
  <1>4. /\ at \in [1 .. L + 1 -> 0 .. next] /\ at[1] = next - bif /\ at[L + 1] = next
        /\ \A i, j \in 1 .. L + 1 : i < j => at[i] < at[j]
    BY <1>1 DEF Queued
  <1>5. n \in 0 .. N + 2 /\ n \in 0 .. next /\ n \in Nat
    <2>1. n \in 0 .. next
      BY <1>4
    <2>. QED  BY <1>2, <2>1
  <1>6. ackno \in SeqNos
    <2>1. n \in Int /\ s.isn \in Int
      BY <1>2, <1>5 DEF SeqNos
    <2>. QED  BY <2>1, WrapType
  <1>7. unwrap(ackno, s.isn, next) = n
    BY <1>2, <1>5, ReadBack
  <1>8. /\ w \in Nat /\ Room(w) \in Nat /\ Room(w) >= w /\ Room(w) >= 1
        /\ s.receiver_window_size \in Nat /\ Room(s.receiver_window_size) \in Nat
    <2>1. w \in Nat /\ s.receiver_window_size \in Nat
      BY <1>2, PeerNumbers, SMTT(20)
    <2>. QED  BY <2>1, PeerNumbers, Zenon
  <1>9. next <= n + Room(w) /\ e <= n + Room(w)
    BY <1>2, <1>4, <1>5, <1>8, SMTT(20) DEF Fits
  <1>10. /\ Sends(u, at) /\ Counted(u) /\ u.isn = s.isn /\ u.next_seqno = next
         /\ u.segments_outstanding = o /\ u.bytes_in_flight = bif /\ u.syn = s.syn
         /\ u.receiver_window_size = w
    <2>1. u = [s EXCEPT !.receiver_window_size = w]
      OBVIOUS
    <2>. HIDE DEF u
    <2>2. /\ Sends(u, at) /\ Counted(u) /\ u.isn = s.isn /\ u.next_seqno = next
          /\ u.segments_outstanding = o /\ u.bytes_in_flight = bif
          /\ u.receiver_window_size = w
      BY <2>1, WindowKeeps
    <2>3. u.syn = s.syn
      BY <1>1, <2>1, Zenon DEF SenderType
    <2>. QED  BY <2>2, <2>3
  <1>11. \A i \in m .. L + 1 : i \in DOMAIN at
    BY <1>3, <1>4
  <1>. HIDE DEF n, L, u
  <1>12. CASE Refused(s, ackno, w)
    <2>1. t = IF n = next THEN u ELSE s
      BY <1>7, <1>12 DEF ack_received, Refused, u
    <2>2. CASE o = <<>>
      <3>1. L = 0
        BY <2>2, EmptySeq DEF L
      <3>2. m = 1
        <4>1. m \in 1 .. L + 1
          BY DEF L
        <4>. QED  BY <3>1, <4>1
      <3>3. n = next /\ bif = 0 /\ at[1] = n
        <4>1. at[1] = next
          BY <1>4, <3>1
        <4>. QED  BY <1>2, <1>4, <3>2, <4>1 DEF n
      <3>4. t = u
        BY <2>1, <3>3
      <3>5. bif <= Room(w) /\ n + Room(w) <= n + Room(w)
        BY <1>5, <1>8, <3>3
      <3>6. Fits(u, at, n + Room(w))
        BY <1>10, <3>3, <3>5 DEF Fits
      <3>7. next >= next
        BY <1>2
      <3>8. Moved(s, at, m, u, at, n + Room(w))
        BY <1>10, <1>11, <3>6, <3>7 DEF Moved, L
      <3>. QED  BY <3>4, <3>8 DEF n
    <2>3. CASE o # <<>> /\ Unacceptable(s, n, w)
      <3>1. L >= 1
        BY <1>2, <1>3, <2>3, EmptySeq DEF L
      <3>2. Head(o) = o[1]
        BY DEF Head
      <3>3. EndOf(s, Head(o)) = at[2]
        <4>1. 1 \in 1 .. Len(s.segments_outstanding)
          BY <1>3, <3>1 DEF L
        <4>2. EndOf(s, o[1]) = at[1 + 1]
          BY <1>1, <4>1, QueuedEnds
        <4>. QED  BY <3>2, <4>2
      <3>4. at[2] \in Nat /\ at[2] <= next
        <4>1. 2 \in 1 .. L + 1
          BY <1>3, <3>1
        <4>2. at[2] \in 0 .. next
          BY <1>4, <4>1
        <4>. QED  BY <1>2, <4>2
      <3>5. n # next
        <4>1. \/ n > next
              \/ n + w - (IF w = 0 THEN 0 ELSE 1) < at[2]
          BY <2>3, <3>3 DEF Unacceptable
        <4>. QED  BY <1>2, <1>5, <1>8, <3>4, <4>1, SMTT(20)
      <3>6. t = s
        BY <2>1, <3>5
      <3>7. Fits(s, at, n + Room(w))
        <4>1. at[1] \in Int
          BY <1>2, <1>4
        <4>2. at[1] + Room(s.receiver_window_size) <= n + Room(w)
          BY <1>5, <1>8, <1>9, <4>1 DEF Fits
        <4>. QED  BY <4>2 DEF Fits
      <3>8. next >= next
        BY <1>2
      <3>9. Moved(s, at, m, s, at, n + Room(w))
        BY <1>11, <3>7, <3>8 DEF Moved, L
      <3>. QED  BY <3>6, <3>9 DEF n
    <2>. QED  BY <1>7, <1>12, <2>2, <2>3 DEF Refused
  <1>13. CASE ~ Refused(s, ackno, w)
    <2> DEFINE k == Acknowledged(s, n)
               q == After(u, at, k)
    <2>1. /\ k \in 0 .. L
          /\ \A i \in 1 .. k : at[i + 1] <= n
          /\ k < L => n < at[k + 2]
          /\ \E p, now : Popped(u, at, k, p) /\ Filled(p, q, t, now)
      BY <1>6, <1>7, <1>13, AckAccepted, SMTT(20) DEF L, u
    <2>2. PICK p, now : Popped(u, at, k, p) /\ Filled(p, q, t, now)
      BY <2>1
    <2>. HIDE DEF k
    <2>3. m = k + 1 /\ n = at[k + 1]
      <3>1. m \in 1 .. L + 1
        BY DEF L
      <3>2. k + 1 \in 1 .. L + 1 /\ at[k + 1] \in Nat
        <4>1. k + 1 \in 1 .. L + 1
          BY <1>3, <2>1
        <4>2. at[k + 1] \in 0 .. next
          BY <1>4, <4>1
        <4>. QED  BY <1>2, <4>1, <4>2
      <3>3. ~(m < k + 1)
        <4>. SUFFICES ASSUME m < k + 1 PROVE FALSE
          OBVIOUS
        <4>1. k \in 1 .. k
          BY <1>3, <2>1, <3>1
        <4>2. n < at[k + 1] /\ at[k + 1] <= n
          BY <1>4, <2>1, <3>1, <3>2, <4>1 DEF n
        <4>. QED  BY <1>5, <3>2, <4>2
      <3>4. ~(k + 1 < m)
        <4>. SUFFICES ASSUME k + 1 < m PROVE FALSE
          OBVIOUS
        <4>1. k < L /\ k + 2 \in 1 .. L + 1 /\ (k + 2 = m \/ k + 2 < m)
          BY <1>3, <2>1, <3>1
        <4>2. n < at[k + 2] /\ (at[k + 2] = n \/ at[k + 2] < n)
          BY <1>4, <2>1, <3>1, <4>1 DEF n
        <4>3. at[k + 2] \in Nat
          <5>1. at[k + 2] \in 0 .. next
            BY <1>4, <4>1
          <5>. QED  BY <1>2, <5>1
        <4>. QED  BY <1>5, <4>2, <4>3
      <3>5. m = k + 1
        BY <1>3, <2>1, <3>1, <3>3, <3>4
      <3>. QED  BY <3>5 DEF n
    <2>4. q = [i \in 1 .. (L - k) + 1 |-> at[i + k]]
      BY <1>10 DEF After, L
    <2>. HIDE DEF q
    <2>5. /\ Sends(p, q) /\ p.isn = s.isn /\ p.next_seqno = next /\ p.syn
          /\ p.receiver_window_size = w /\ Len(p.segments_outstanding) = L - k
      BY <1>10, <2>2 DEF Popped, L, q
    <2>6. /\ Sends(t, now) /\ t.syn /\ t.isn = s.isn /\ t.receiver_window_size = w
          /\ t.next_seqno >= next
          /\ t.next_seqno - t.bytes_in_flight = next - p.bytes_in_flight
          /\ t.bytes_in_flight <= p.bytes_in_flight + Remain(p)
          /\ Len(t.segments_outstanding) >= L - k
          /\ \A i \in 1 .. (L - k) + 1 : now[i] = q[i]
      BY <2>2, <2>5 DEF Filled, RoomFor
    <2>. HIDE DEF t
    <2>7. /\ p \in SenderType /\ t \in SenderType
          /\ q[1] = next - p.bytes_in_flight /\ now[1] = t.next_seqno - t.bytes_in_flight
          /\ DOMAIN now = 1 .. Len(t.segments_outstanding) + 1
      BY <2>5, <2>6 DEF Sends, Queued
    <2>8. /\ p.bytes_in_flight \in 0 .. N + 2 /\ t.bytes_in_flight \in 0 .. N + 2
          /\ t.next_seqno \in 0 .. N + 2 /\ t.segments_outstanding \in Seq(Segments)
      BY <2>7 DEF SenderType
    <2>9. q[1] = n
      <3>1. 1 \in 1 .. (L - k) + 1 /\ 1 + k = k + 1
        BY <1>3, <2>1
      <3>. QED  BY <2>3, <2>4, <3>1
    <2>10. p.bytes_in_flight <= Room(p.receiver_window_size)
      <3>1. p.bytes_in_flight <= Room(w)
        <4>1. n = next - p.bytes_in_flight
          BY <2>7, <2>9
        <4>2. /\ next \in Int /\ p.bytes_in_flight \in Int /\ Room(w) \in Int
              /\ next <= n + Room(w)
          BY <1>2, <1>8, <1>9, <2>8
        <4>. QED  BY <4>1, <4>2
      <3>. QED  BY <2>5, <3>1
    <2>11. Remain(p) = Room(w) - p.bytes_in_flight
      BY <2>5, <2>7, <2>10, RemainProperties
    <2>12. t.bytes_in_flight <= Room(w) /\ now[1] + Room(w) <= n + Room(w)
      <3>1. t.bytes_in_flight <= Room(w)
        BY <1>8, <2>6, <2>8, <2>11
      <3>2. now[1] = n
        BY <2>6, <2>7, <2>9
      <3>. QED  BY <1>5, <1>8, <3>1, <3>2
    <2>13. Fits(t, now, n + Room(w))
      BY <2>6, <2>12 DEF Fits
    <2>14. ASSUME NEW i \in m .. L + 1
           PROVE  \E j \in DOMAIN now : at[i] = now[j]
      <3>1. Len(t.segments_outstanding) \in Nat
        BY <2>8, LenProperties
      <3>2. /\ i - k \in 1 .. (L - k) + 1 /\ (i - k) + k = i
            /\ i - k \in 1 .. Len(t.segments_outstanding) + 1
        BY <1>3, <2>1, <2>3, <2>6, <3>1
      <3>3. now[i - k] = at[i]
        BY <2>4, <2>6, <3>2
      <3>. QED  BY <2>7, <3>2, <3>3
    <2>15. Moved(s, at, m, t, now, n + Room(w))
      BY <2>6, <2>13, <2>14 DEF Moved, L
    <2>. QED  BY <2>15 DEF t, n
  <1>. QED  BY <1>12, <1>13

-----------------------------------------------------------------------------
\* What follows another peer's step, or only the clock's.
LEMMA EdgeGrows ==
  ASSUME PeerTyped, PeerTyped', peer'.next >= peer.next, peer'.read >= peer.read
  PROVE  PeerEdge \in Nat /\ PeerEdge' \in Nat /\ PeerEdge <= PeerEdge'
  <1> DEFINE n == peer.next
             n2 == peer'.next
             b == BytesBelow(n)
             b2 == BytesBelow(n2)
             w == PeerCapacity - (b - peer.read)
             w2 == PeerCapacity - (b2 - peer'.read)
  <1>1. /\ n \in 0 .. N + 2 /\ n2 \in 0 .. N + 2
        /\ peer.read \in 0 .. N /\ peer'.read \in 0 .. N
        /\ peer.read <= b /\ b - peer.read <= PeerCapacity
        /\ peer'.read <= b2 /\ b2 - peer'.read <= PeerCapacity
    BY DEF PeerTyped
  <1>2. N \in Nat /\ PeerCapacity \in Nat
    BY PeerNumbers
  <1>3. /\ b \in 0 .. N /\ b2 \in 0 .. N /\ b <= b2 /\ b2 - b <= n2 - n
    <2>1. n \in 0 .. n2
      BY <1>1, <1>2
    <2>. QED  BY <1>1, <2>1, BytesBelowProperties
  <1>4. PeerEdge = n + Room(w) /\ PeerEdge' = n2 + Room(w2)
    BY DEF PeerEdge, PeerWindow
  <1>. HIDE DEF b, b2
  <1>5. w \in Nat /\ w2 \in Nat /\ n + w <= n2 + w2
    BY <1>1, <1>2, <1>3
  <1>6. n = n2 => w <= w2
    BY <1>1, <1>5
  <1>. HIDE DEF n, n2, w, w2
  <1>7. n \in Nat /\ n2 \in Nat /\ n <= n2
    BY <1>1, <1>2 DEF n, n2
  <1>8. n + Room(w) <= n2 + Room(w2)
    BY <1>5, <1>6, <1>7 DEF Room
  <1>9. n + Room(w) \in Nat /\ n2 + Room(w2) \in Nat
    BY <1>5, <1>7 DEF Room
  <1>. QED  BY <1>4, <1>8, <1>9

\* The same acknowledgments between other edges and other positions.
LEMMA StillInOrder ==
  ASSUME NEW queue, NEW isn, NEW at, NEW low, NEW next, NEW high, NEW pos,
         InOrder(queue, isn, at, low, next, high, pos),
         NEW now, \A j \in 1 .. Len(queue) : \E i \in DOMAIN now : pos[j] = now[i],
         NEW low2, \A j \in 1 .. Len(queue) : low2 <= pos[j] + Room(queue[j].win),
         NEW next2, \A j \in 1 .. Len(queue) : pos[j] <= next2,
         NEW high2, \A j \in 1 .. Len(queue) : pos[j] + Room(queue[j].win) <= high2
  PROVE  InOrder(queue, isn, now, low2, next2, high2, pos)
  BY DEF InOrder

\* The positions with one of them taken away.
Skip(pos, L, i) == [j \in 1 .. L - 1 |-> pos[IF j < i THEN j ELSE j + 1]]

\* Acknowledgments stay in order when one of them is taken out.
LEMMA WithoutInOrder ==
  ASSUME NEW S, acks \in Seq(S), NEW i \in 1 .. Len(acks),
         NEW isn, NEW at, NEW low, NEW next, NEW high, NEW pos,
         InOrder(acks, isn, at, low, next, high, pos)
  PROVE  InOrder(Without(i), isn, at, low, next, high, Skip(pos, Len(acks), i))
  <1> DEFINE L == Len(acks)
             q == Without(i)
             p == Skip(pos, L, i)
             f(j) == IF j < i THEN j ELSE j + 1
  <1>1. L \in Nat
    BY LenProperties
  <1>2. Len(q) = L - 1 /\ \A j \in 1 .. L - 1 : q[j] = acks[f(j)]
    BY WithoutProperties, Zenon
  <1>3. \A j \in 1 .. L - 1 : p[j] = pos[f(j)]
    BY DEF Skip
  <1>4. /\ \A j \in 1 .. L - 1 : f(j) \in 1 .. L
        /\ \A j, k \in 1 .. L - 1 : j < k => f(j) < f(k)
    <2>1. i \in 1 .. L
      OBVIOUS
    <2>. QED  BY <1>1, <2>1
  <1>. HIDE DEF f, p, q, L
  <1>5. ASSUME NEW j \in 1 .. L - 1
        PROVE  /\ q[j].ackno = wrap(p[j], isn)
               /\ p[j] > 0
               /\ \E k \in DOMAIN at : p[j] = at[k]
               /\ low <= p[j] + Room(q[j].win) /\ p[j] + Room(q[j].win) <= high
               /\ p[j] <= next
    BY <1>2, <1>3, <1>4, ZenonT(30) DEF InOrder, L
  <1>6. ASSUME NEW j \in 1 .. L - 1, NEW k \in 1 .. L - 1, j < k
        PROVE  p[j] <= p[k] /\ p[j] + Room(q[j].win) <= p[k] + Room(q[k].win)
    <2>1. f(j) \in 1 .. L /\ f(k) \in 1 .. L /\ f(j) < f(k)
      BY <1>4, <1>6
    <2>. QED  BY <1>2, <1>3, <2>1, Zenon DEF InOrder, L
  <1>7. InOrder(q, isn, at, low, next, high, p)
    BY <1>2, <1>5, <1>6 DEF InOrder
  <1>. QED  BY <1>7 DEF p, q, L

\* Taking one place out of a list of places.
LEMMA SkipType ==
  ASSUME NEW T, NEW L \in Nat, NEW i \in 1 .. L, NEW pos \in [1 .. L -> T]
  PROVE  Skip(pos, L, i) \in [1 .. L - 1 -> T]
  <1>1. \A j \in 1 .. L - 1 : (IF j < i THEN j ELSE j + 1) \in 1 .. L
    OBVIOUS
  <1>. QED  BY <1>1 DEF Skip

\* One more acknowledgment, at n and with the edge high2.
Extend(pos, L, n) == [j \in 1 .. L + 1 |-> IF j <= L THEN pos[j] ELSE n]

\* An acknowledgment of what came last may be appended.
LEMMA AppendInOrder ==
  ASSUME NEW S, NEW queue \in Seq(S), NEW r \in S, NEW isn, NEW at,
         NEW low \in Nat, NEW next \in Nat, NEW high \in Nat, NEW pos,
         InOrder(queue, isn, at, low, next, high, pos),
         \A j \in 1 .. Len(queue) : pos[j] \in Nat /\ Room(queue[j].win) \in Nat,
         NEW n \in Nat, n > 0, next <= n, r.ackno = wrap(n, isn),
         \E i \in DOMAIN at : n = at[i],
         NEW high2 \in Nat, high2 = n + Room(r.win), low <= high, high <= high2
  PROVE  InOrder(Append(queue, r), isn, at, low, n, high2, Extend(pos, Len(queue), n))
  <1> DEFINE L == Len(queue)
             q == Append(queue, r)
             p == Extend(pos, L, n)
             Edge(j) == p[j] + Room(q[j].win)
  <1>1. L \in Nat
    BY LenProperties
  <1>2. Len(q) = L + 1 /\ q[L + 1] = r /\ \A j \in 1 .. L : q[j] = queue[j]
    BY AppendProperties
  <1>3. \A j \in 1 .. L : j \in 1 .. L + 1 /\ j <= L
    BY <1>1
  <1>4. L + 1 \in 1 .. L + 1 /\ ~(L + 1 <= L)
    BY <1>1
  <1>5. p[L + 1] = n /\ \A j \in 1 .. L : p[j] = pos[j]
    BY <1>3, <1>4 DEF Extend
  <1>6. \A j \in 1 .. L + 1 : j \in 1 .. L \/ j = L + 1
    BY <1>1
  <1>. HIDE DEF p, q, L
  <1>7. ASSUME NEW j \in 1 .. L
        PROVE  /\ q[j].ackno = wrap(p[j], isn) /\ p[j] > 0
               /\ \E i \in DOMAIN at : p[j] = at[i]
               /\ low <= Edge(j) /\ Edge(j) <= high2 /\ p[j] <= n
    <2>1. /\ queue[j].ackno = wrap(pos[j], isn) /\ pos[j] > 0
          /\ \E i \in DOMAIN at : pos[j] = at[i]
          /\ low <= pos[j] + Room(queue[j].win) /\ pos[j] + Room(queue[j].win) <= high
          /\ pos[j] <= next
      BY SMTT(20) DEF InOrder, L
    <2>2. pos[j] \in Nat /\ Room(queue[j].win) \in Nat
      BY DEF L
    <2>3. pos[j] + Room(queue[j].win) <= high2 /\ pos[j] <= n
      BY <2>1, <2>2
    <2>4. q[j] = queue[j] /\ p[j] = pos[j]
      BY <1>2, <1>5
    <2>. QED  BY <2>1, <2>3, <2>4
  <1>8. /\ q[L + 1].ackno = wrap(p[L + 1], isn) /\ p[L + 1] > 0
        /\ \E i \in DOMAIN at : p[L + 1] = at[i]
        /\ low <= Edge(L + 1) /\ Edge(L + 1) <= high2 /\ p[L + 1] <= n
        /\ Edge(L + 1) = high2
    <2>1. low <= high2 /\ high2 <= high2 /\ n <= n
      OBVIOUS
    <2>. QED  BY <1>2, <1>5, <2>1
  <1>9. ASSUME NEW i \in 1 .. L + 1, NEW j \in 1 .. L + 1, i < j
        PROVE  p[i] <= p[j] /\ Edge(i) <= Edge(j)
    <2>1. CASE j \in 1 .. L
      <3>1. i \in 1 .. L
        BY <1>1, <1>9, <2>1
      <3>. QED  BY <1>2, <1>5, <1>9, <2>1, <3>1, Zenon DEF InOrder, L
    <2>2. CASE j = L + 1
      <3>1. i \in 1 .. L
        BY <1>1, <1>9, <2>2
      <3>. QED  BY <1>5, <1>7, <1>8, <2>2, <3>1
    <2>. QED  BY <1>6, <2>1, <2>2
  <1>10. \A j \in 1 .. L + 1 :
           /\ q[j].ackno = wrap(p[j], isn) /\ p[j] > 0
           /\ \E i \in DOMAIN at : p[j] = at[i]
           /\ low <= Edge(j) /\ Edge(j) <= high2 /\ p[j] <= n
    BY <1>6, <1>7, <1>8
  <1>11. InOrder(q, isn, at, low, n, high2, p)
    BY <1>2, <1>9, <1>10 DEF InOrder
  <1>. QED  BY <1>11 DEF p, q, L

\* The acknowledgments on their way, in the order they were sent.
Way(at, pos) ==
  /\ pos \in [1 .. Len(acks) -> 0 .. sender.next_seqno]
  /\ InOrder(acks, sender.isn, at, edge, peer.next, PeerEdge, pos)

\* The places the acknowledgments stand for are numbers.
LEMMA WayNumbers ==
  ASSUME IInv, PeerTyped, NEW at, NEW pos, Way(at, pos)
  PROVE  /\ Len(acks) \in Nat
         /\ \A j \in 1 .. Len(acks) :
              /\ pos[j] \in Nat /\ pos[j] \in 0 .. sender.next_seqno
              /\ Room(acks[j].win) \in Nat
  <1>1. acks \in Seq([ackno : SeqNos, win : 0 .. PeerCapacity])
    BY DEF PeerTyped
  <1>2. Len(acks) \in Nat
    BY <1>1, LenProperties
  <1>3. sender.next_seqno \in 0 .. N + 2 /\ N \in Nat
    BY PeerNumbers DEF IInv, Sends, SenderType
  <1>4. ASSUME NEW j \in 1 .. Len(acks)
        PROVE  /\ pos[j] \in Nat /\ pos[j] \in 0 .. sender.next_seqno
               /\ Room(acks[j].win) \in Nat
    <2>1. pos[j] \in 0 .. sender.next_seqno
      BY DEF Way
    <2>2. pos[j] \in Nat
      BY <1>3, <2>1
    <2>. QED  BY <2>1, <2>2, AckTyped, PeerNumbers
  <1>. QED  BY <1>2, <1>4

\* A segment that arrives keeps the acknowledgments within what was sent.
LEMMA FollowsReceives ==
  ASSUME IInv, PeerTyped, NEW at, Sends(sender, at), Follows(at),
         NEW n \in 0 .. N + 2, PeerReceives(n)
  PROVE  Follows(at)'
  <1>1. sender' = sender /\ edge' = edge /\ n >= peer.next
    BY DEF PeerReceives
  <1>2. /\ PeerTyped' /\ peer'.next = n /\ peer'.read = peer.read
        /\ PeerWindow(peer') \in 0 .. PeerCapacity
    BY ReceivesTyped
  <1>3. /\ peer.read \in 0 .. N /\ edge \in Nat /\ peer.next \in 0 .. N + 2 /\ N \in Nat
        /\ acks \in Seq([ackno : SeqNos, win : 0 .. PeerCapacity])
    BY PeerNumbers DEF PeerTyped
  <1>4. n \in Nat /\ peer.next \in Nat /\ peer'.read >= peer.read
    BY <1>2, <1>3
  <1>5. PeerEdge \in Nat /\ PeerEdge' \in Nat /\ PeerEdge <= PeerEdge'
    BY <1>1, <1>2, <1>4, EdgeGrows
  <1>6. edge <= PeerEdge /\ edge <= PeerEdge'
    BY <1>3, <1>5 DEF Follows
  <1>7. \E i \in DOMAIN at : n = at[i]
    <2>1. CASE n = peer.next
      BY <2>1 DEF Follows
    <2>2. ASSUME NEW i \in 1 .. Len(sender.segments_outstanding),
                 n = EndOf(sender, sender.segments_outstanding[i])
          PROVE  \E j \in DOMAIN at : n = at[j]
      <3>1. sender \in SenderType /\ Queued(sender, at)
        BY DEF Sends
      <3>2. n = at[i + 1]
        BY <2>2, <3>1, QueuedEnds
      <3>3. Len(sender.segments_outstanding) \in Nat
        BY <3>1, LenProperties DEF SenderType
      <3>4. i + 1 \in 1 .. Len(sender.segments_outstanding) + 1
        BY <3>3
      <3>. QED  BY <3>1, <3>2, <3>4 DEF Queued
    <2>. QED  BY <2>1, <2>2 DEF PeerReceives
  <1>8. PICK pos : Way(at, pos)
    BY DEF Follows, Way
  <1>9. /\ Len(acks) \in Nat
        /\ \A j \in 1 .. Len(acks) :
             /\ pos[j] \in Nat /\ pos[j] \in 0 .. sender.next_seqno
             /\ Room(acks[j].win) \in Nat
    BY <1>8, WayNumbers
  <1>10. InOrder(acks, sender.isn, at, edge, peer.next, PeerEdge, pos)
    BY <1>8 DEF Way
  <1>11. \E p : Way(at, p)'
    <2>1. CASE n = 0
      <3>1. acks' = acks
        BY <2>1 DEF PeerReceives
      <3>2. ASSUME NEW j \in 1 .. Len(acks)
            PROVE  /\ pos[j] <= n /\ pos[j] + Room(acks[j].win) <= PeerEdge'
                   /\ edge <= pos[j] + Room(acks[j].win)
                   /\ \E i \in DOMAIN at : pos[j] = at[i]
        <4>1. /\ pos[j] <= peer.next /\ pos[j] + Room(acks[j].win) <= PeerEdge
              /\ edge <= pos[j] + Room(acks[j].win)
              /\ \E i \in DOMAIN at : pos[j] = at[i]
          BY <1>10 DEF InOrder
        <4>. QED  BY <1>1, <1>4, <1>5, <1>9, <4>1, SMTT(20)
      <3>3. InOrder(acks, sender.isn, at, edge, n, PeerEdge', pos)
        BY <1>10, <3>2, StillInOrder, Zenon
      <3>4. pos \in [1 .. Len(acks) -> 0 .. sender.next_seqno]
        BY <1>8 DEF Way
      <3>. QED  BY <1>1, <1>2, <3>1, <3>3, <3>4 DEF Way
    <2>2. CASE n # 0
      <3> DEFINE r == [ackno |-> wrap(n, sender.isn), win |-> PeerWindow(peer')]
                 p == Extend(pos, Len(acks), n)
      <3>1. acks' = Append(acks, r)
        BY <2>2 DEF PeerReceives
      <3>2. r \in [ackno : SeqNos, win : 0 .. PeerCapacity]
        <4>1. sender.isn \in SeqNos
          BY DEF Sends, SenderType
        <4>2. n \in Int /\ sender.isn \in Int
          BY <1>4, <4>1 DEF SeqNos
        <4>. QED  BY <1>2, <4>2, WrapType
      <3>3. PeerEdge' = n + Room(r.win) /\ r.ackno = wrap(n, sender.isn)
        BY <1>2 DEF PeerEdge
      <3>4. n > 0 /\ peer.next <= n
        BY <1>1, <1>4, <2>2
      <3>. HIDE DEF r
      <3>5. InOrder(Append(acks, r), sender.isn, at, edge, n, PeerEdge', p)
        BY <1>3, <1>4, <1>5, <1>6, <1>7, <1>9, <1>10, <3>2, <3>3, <3>4, AppendInOrder, Zenon
      <3>6. n \in 0 .. sender.next_seqno
        <4>1. at \in [1 .. Len(sender.segments_outstanding) + 1 -> 0 .. sender.next_seqno]
          BY DEF Sends, Queued
        <4>. QED  BY <1>7, <4>1
      <3>7. Len(Append(acks, r)) = Len(acks) + 1
        BY <1>3, <3>2, AppendProperties
      <3>8. p \in [1 .. Len(acks) + 1 -> 0 .. sender.next_seqno]
        <4>1. \A j \in 1 .. Len(acks) + 1 : j <= Len(acks) => j \in 1 .. Len(acks)
          BY <1>9
        <4>2. \A j \in 1 .. Len(acks) + 1 :
                (IF j <= Len(acks) THEN pos[j] ELSE n) \in 0 .. sender.next_seqno
          BY <1>9, <3>6, <4>1
        <4>. QED  BY <4>2 DEF Extend
      <3>. HIDE DEF p
      <3>. QED  BY <1>1, <1>2, <3>1, <3>5, <3>7, <3>8 DEF Way
    <2>. QED  BY <2>1, <2>2
  <1>12. \E i \in DOMAIN at : peer'.next = at[i]
    BY <1>2, <1>7
  <1>. QED  BY <1>1, <1>6, <1>11, <1>12 DEF Follows, Way

\* A peer that reads keeps it.
LEMMA FollowsReads ==
  ASSUME IInv, PeerTyped, NEW at, Follows(at), PeerReads
  PROVE  Follows(at)'
  <1>1. sender' = sender /\ edge' = edge /\ acks' = acks
    BY DEF PeerReads
  <1>2. PeerTyped' /\ peer'.next = peer.next /\ peer'.read = peer.read + 1
    BY ReadsTyped
  <1>3. /\ peer.read \in 0 .. N /\ edge \in Nat /\ peer.next \in 0 .. N + 2 /\ N \in Nat
    BY PeerNumbers DEF PeerTyped
  <1>4. peer'.next >= peer.next /\ peer'.read >= peer.read
    BY <1>2, <1>3
  <1>5. PeerEdge \in Nat /\ PeerEdge' \in Nat /\ PeerEdge <= PeerEdge'
    BY <1>2, <1>4, EdgeGrows
  <1>6. edge <= PeerEdge'
    BY <1>3, <1>5 DEF Follows
  <1>7. PICK pos : Way(at, pos)
    BY DEF Follows, Way
  <1>8. \A j \in 1 .. Len(acks) : pos[j] \in Nat /\ Room(acks[j].win) \in Nat
    BY <1>7, WayNumbers
  <1>9. InOrder(acks, sender.isn, at, edge, peer.next, PeerEdge, pos)
    BY <1>7 DEF Way
  <1>10. ASSUME NEW j \in 1 .. Len(acks)
         PROVE  /\ pos[j] <= peer.next /\ pos[j] + Room(acks[j].win) <= PeerEdge'
                /\ edge <= pos[j] + Room(acks[j].win)
                /\ \E i \in DOMAIN at : pos[j] = at[i]
    <2>1. /\ pos[j] <= peer.next /\ pos[j] + Room(acks[j].win) <= PeerEdge
          /\ edge <= pos[j] + Room(acks[j].win)
          /\ \E i \in DOMAIN at : pos[j] = at[i]
      BY <1>9 DEF InOrder
    <2>. QED  BY <1>5, <1>8, <2>1
  <1>11. InOrder(acks, sender.isn, at, edge, peer.next, PeerEdge', pos)
    BY <1>9, <1>10, StillInOrder
  <1>12. pos \in [1 .. Len(acks) -> 0 .. sender.next_seqno]
    BY <1>7 DEF Way
  <1>13. Way(at, pos)'
    BY <1>1, <1>2, <1>11, <1>12 DEF Way
  <1>. QED  BY <1>1, <1>2, <1>6, <1>13 DEF Follows, Way

\* An acknowledgment that is lost keeps it.
LEMMA FollowsLose ==
  ASSUME IInv, PeerTyped, NEW at, Follows(at), NEW i, Lose(i)
  PROVE  Follows(at)'
  <1>1. sender' = sender /\ edge' = edge /\ peer' = peer /\ acks' = Without(i)
    BY DEF Lose
  <1>2. i \in 1 .. Len(acks)
    BY DEF Lose
  <1>3. acks \in Seq([ackno : SeqNos, win : 0 .. PeerCapacity])
    BY DEF PeerTyped
  <1>4. PICK pos : Way(at, pos)
    BY DEF Follows, Way
  <1>5. Len(acks) \in Nat /\ Len(Without(i)) = Len(acks) - 1
    BY <1>2, <1>3, LenProperties, WithoutProperties
  <1>6. PeerEdge' = PeerEdge
    BY <1>1 DEF PeerEdge
  <1> DEFINE p == Skip(pos, Len(acks), i)
  <1>7. InOrder(Without(i), sender.isn, at, edge, peer.next, PeerEdge, p)
    BY <1>2, <1>3, <1>4, WithoutInOrder DEF Way
  <1>8. p \in [1 .. Len(acks) - 1 -> 0 .. sender.next_seqno]
    BY <1>2, <1>4, <1>5, SkipType, Zenon DEF Way
  <1>. HIDE DEF p
  <1>9. \E q : Way(at, q)'
    BY <1>1, <1>5, <1>6, <1>7, <1>8 DEF Way
  <1>. QED  BY <1>1, <1>6, <1>9 DEF Follows, Way

\* The sender changes; the peer and the acknowledgments on their way do not.
LEMMA FollowsSender ==
  ASSUME IInv, PeerTyped, NEW at, Sends(sender, at), Follows(at),
         UNCHANGED <<peer, acks, edge>>,
         NEW now, Sends(sender', now), Fits(sender', now, edge),
         sender'.isn = sender.isn, sender'.next_seqno >= sender.next_seqno,
         ~ sender'.syn => sender'.receiver_window_size = 1,
         \A i \in DOMAIN at : \E j \in DOMAIN now : at[i] = now[j]
  PROVE  Follows(now)'
  <1>1. PeerEdge' = PeerEdge /\ peer' = peer /\ acks' = acks /\ edge' = edge
    BY DEF PeerEdge
  <1>2. PICK pos : Way(at, pos)
    BY DEF Follows, Way
  <1>3. InOrder(acks, sender.isn, at, edge, peer.next, PeerEdge, pos)
    BY <1>2 DEF Way
  <1>4. ASSUME NEW j \in 1 .. Len(acks)
        PROVE  /\ pos[j] <= peer.next /\ pos[j] + Room(acks[j].win) <= PeerEdge
               /\ edge <= pos[j] + Room(acks[j].win)
               /\ \E i \in DOMAIN now : pos[j] = now[i]
    BY <1>3 DEF InOrder
  <1>5. InOrder(acks, sender.isn, now, edge, peer.next, PeerEdge, pos)
    BY <1>3, <1>4, StillInOrder
  <1>6. pos \in [1 .. Len(acks) -> 0 .. sender'.next_seqno]
    <2>1. sender.next_seqno \in 0 .. N + 2 /\ sender'.next_seqno \in 0 .. N + 2 /\ N \in Nat
      BY PeerNumbers DEF Sends, SenderType
    <2>2. \A x \in 0 .. sender.next_seqno : x \in 0 .. sender'.next_seqno
      BY <2>1
    <2>. QED  BY <1>2, <2>2 DEF Way
  <1>7. Way(now, pos)'
    BY <1>1, <1>5, <1>6 DEF Way
  <1>8. \E i \in DOMAIN now : peer.next = now[i]
    BY DEF Follows
  <1>. QED  BY <1>1, <1>7, <1>8 DEF Follows, Way, Fits

\* What the owner does keeps it, with the segments that it adds.
LEMMA FollowsOwner ==
  ASSUME IInv, PeerTyped, NEW at, Sends(sender, at), Follows(at), OwnerActs
  PROVE  \E now : Sends(sender', now) /\ Follows(now)'
  <1>1. Counted(sender)
    BY DEF IInv
  <1>2. PICK b, now : Sends(b, at) /\ Handled(b) /\ Filled(b, at, sender', now)
    BY <1>1, OwnerFills DEF OwnerActs
  <1> DEFINE t == sender'
             L == Len(sender.segments_outstanding)
             room == Room(sender.receiver_window_size)
  <1>3. /\ Sends(t, now) /\ t.syn /\ t.isn = sender.isn
        /\ t.receiver_window_size = sender.receiver_window_size
        /\ t.next_seqno >= sender.next_seqno
        /\ t.next_seqno - t.bytes_in_flight = sender.next_seqno - sender.bytes_in_flight
        /\ t.bytes_in_flight <= sender.bytes_in_flight + RoomFor(b)
        /\ Len(t.segments_outstanding) >= L
        /\ \A i \in 1 .. L + 1 : now[i] = at[i]
    BY <1>2 DEF Filled, Handled
  <1>4. /\ b \in SenderType /\ sender \in SenderType /\ t \in SenderType
        /\ Queued(sender, at) /\ Queued(t, now)
    BY <1>2, <1>3 DEF Sends
  <1>5. /\ sender.bytes_in_flight \in 0 .. N + 2 /\ t.bytes_in_flight \in 0 .. N + 2
        /\ sender.next_seqno \in 0 .. N + 2 /\ t.next_seqno \in 0 .. N + 2 /\ N \in Nat
        /\ sender.segments_outstanding \in Seq(Segments)
        /\ t.segments_outstanding \in Seq(Segments)
        /\ sender.receiver_window_size \in 0 .. MaxWindow
    BY <1>4, PeerNumbers DEF SenderType
  <1>6. L \in Nat /\ Len(t.segments_outstanding) \in Nat
    BY <1>5, LenProperties
  <1>7. room \in Nat
    <2>1. sender.receiver_window_size \in Nat
      BY <1>5, PeerNumbers
    <2>. QED  BY <2>1, PeerNumbers
  <1>8. sender.bytes_in_flight <= room /\ at[1] + room <= edge
    BY DEF Follows
  <1>9. t.bytes_in_flight <= room
    <2>1. CASE sender.syn
      <3>1. RoomFor(b) = Remain(b)
        BY <1>2, <2>1 DEF RoomFor, Handled
      <3>2. Remain(b) = room - sender.bytes_in_flight
        BY <1>2, <1>4, <1>8, RemainProperties DEF Handled
      <3>. QED  BY <1>3, <1>5, <1>7, <3>1, <3>2
    <2>2. CASE ~ sender.syn
      <3>1. RoomFor(b) = 1 /\ room = 1
        BY <1>2, <2>2 DEF RoomFor, Handled, Follows, Room
      <3>2. sender.next_seqno = 0
        <4>1. ~ sender.fin /\ sender.stream.read_count = 0
          BY <1>1, <2>2 DEF Counted
        <4>2. sender.next_seqno = 0 + 0 + 0
          BY <1>1, <2>2, <4>1 DEF Counted
        <4>. QED  BY <4>2
      <3>3. sender.bytes_in_flight = 0
        <4>1. at[1] \in 0 .. sender.next_seqno
          <5>1. 1 \in 1 .. L + 1
            BY <1>6
          <5>. QED  BY <1>4, <5>1 DEF Queued
        <4>2. at[1] = sender.next_seqno - sender.bytes_in_flight
          BY <1>4 DEF Queued
        <4>. QED  BY <1>5, <3>2, <4>1, <4>2
      <3>. QED  BY <1>3, <1>5, <3>1, <3>3
    <2>. QED  BY <2>1, <2>2
  <1>10. now[1] = at[1]
    <2>1. 1 \in 1 .. L + 1
      BY <1>6
    <2>. QED  BY <1>3, <2>1
  <1>11. Fits(t, now, edge)
    BY <1>3, <1>8, <1>9, <1>10 DEF Fits
  <1>12. \A i \in DOMAIN at : \E j \in DOMAIN now : at[i] = now[j]
    <2>1. DOMAIN at = 1 .. L + 1 /\ DOMAIN now = 1 .. Len(t.segments_outstanding) + 1
      BY <1>4 DEF Queued
    <2>2. \A i \in 1 .. L + 1 : i \in 1 .. Len(t.segments_outstanding) + 1
      BY <1>3, <1>6
    <2>. QED  BY <1>3, <2>1, <2>2
  <1>13. Follows(now)'
    BY <1>3, <1>11, <1>12, FollowsSender DEF OwnerActs
  <1>. QED  BY <1>3, <1>13

\* A retransmission keeps it: nothing new is sent.
LEMMA FollowsTime ==
  ASSUME IInv, PeerTyped, NEW at, Sends(sender, at), Follows(at), TimePasses
  PROVE  Sends(sender', at) /\ Follows(at)'
  <1>1. Counted(sender) /\ sender' = sender_tick(Taken, 1)
    BY DEF IInv, TimePasses, Tick
  <1>2. /\ Sends(Taken, at) /\ Counted(Taken)
        /\ Taken.isn = sender.isn /\ Taken.next_seqno = sender.next_seqno
        /\ Taken.bytes_in_flight = sender.bytes_in_flight /\ Taken.syn = sender.syn
        /\ Taken.receiver_window_size = sender.receiver_window_size
    <2>1. Taken = [sender EXCEPT !.segments_out = <<>>]
      BY DEF Taken
    <2>. QED  BY <1>1, <2>1, TakenKeeps
  <1>3. /\ Sends(sender', at)
        /\ sender'.isn = sender.isn /\ sender'.next_seqno = sender.next_seqno
        /\ sender'.bytes_in_flight = sender.bytes_in_flight /\ sender'.syn = sender.syn
        /\ sender'.receiver_window_size = sender.receiver_window_size
    BY <1>1, <1>2, TickKeeps
  <1>4. sender'.next_seqno >= sender.next_seqno
    <2>1. sender.next_seqno \in 0 .. N + 2 /\ N \in Nat
      BY PeerNumbers DEF Sends, SenderType
    <2>. QED  BY <1>3, <2>1
  <1>5. Fits(sender', at, edge) /\ (~ sender'.syn => sender'.receiver_window_size = 1)
    BY <1>3 DEF Follows, Fits
  <1>6. Follows(at)'
    BY <1>3, <1>4, <1>5, FollowsSender DEF TimePasses
  <1>. QED  BY <1>3, <1>6

\* Without reordering it is the oldest acknowledgment that arrives.
LEMMA FollowsDeliver ==
  ASSUME IInv, PeerTyped, NEW at, Sends(sender, at), Follows(at), Deliver(1)
  PROVE  \E now : Sends(sender', now) /\ Follows(now)'
  <1>1. PICK pos : Way(at, pos)
    BY DEF Follows, Way
  <1>2. /\ Len(acks) \in Nat
        /\ \A j \in 1 .. Len(acks) :
             /\ pos[j] \in Nat /\ pos[j] \in 0 .. sender.next_seqno
             /\ Room(acks[j].win) \in Nat
    BY <1>1, WayNumbers
  <1>3. 1 \in 1 .. Len(acks)
    BY DEF Deliver
  <1>4. InOrder(acks, sender.isn, at, edge, peer.next, PeerEdge, pos)
    BY <1>1 DEF Way
  <1> DEFINE n == pos[1]
             w == acks[1].win
             L == Len(sender.segments_outstanding)
             e == n + Room(w)
  <1>5. /\ acks[1].ackno = wrap(n, sender.isn) /\ n > 0 /\ edge <= e
        /\ \E i \in DOMAIN at : n = at[i]
    BY <1>3, <1>4 DEF InOrder
  <1>6. /\ sender \in SenderType /\ Queued(sender, at) /\ Counted(sender)
    BY DEF IInv, Sends
  <1>7. /\ sender.next_seqno \in 0 .. N + 2 /\ sender.isn \in SeqNos /\ N \in Nat
        /\ sender.segments_outstanding \in Seq(Segments) /\ edge \in Nat
    BY <1>6, PeerNumbers DEF SenderType, PeerTyped
  <1>8. /\ DOMAIN at = 1 .. L + 1 /\ L \in Nat
        /\ \A i \in 1 .. L + 1 : at[i] \in 0 .. sender.next_seqno
        /\ \A i, j \in 1 .. L + 1 : i < j => at[i] < at[j]
    BY <1>6, <1>7, LenProperties, SMTT(20) DEF Queued
  <1>9. n \in Nat /\ n \in 0 .. sender.next_seqno /\ e \in Nat
    BY <1>2, <1>3
  <1>10. sender.syn
    <2>. SUFFICES ASSUME ~ sender.syn PROVE FALSE
      OBVIOUS
    <2>1. ~ sender.fin /\ sender.stream.read_count = 0
      BY <1>6 DEF Counted
    <2>2. sender.next_seqno = 0 + 0 + 0
      BY <1>6, <2>1 DEF Counted
    <2>. QED  BY <1>5, <1>9, <2>2
  <1>11. PICK m \in 1 .. L + 1 : n = at[m]
    BY <1>5, <1>8
  <1>12. /\ Sends(Taken, at) /\ Counted(Taken) /\ Fits(Taken, at, edge) /\ Taken.syn
         /\ Taken.isn = sender.isn /\ Taken.next_seqno = sender.next_seqno
         /\ Taken.segments_outstanding = sender.segments_outstanding
    <2>1. Taken = [sender EXCEPT !.segments_out = <<>>]
      BY DEF Taken
    <2>2. /\ Sends(Taken, at) /\ Counted(Taken)
          /\ Taken.isn = sender.isn /\ Taken.next_seqno = sender.next_seqno
          /\ Taken.segments_outstanding = sender.segments_outstanding
          /\ Taken.bytes_in_flight = sender.bytes_in_flight
          /\ Taken.receiver_window_size = sender.receiver_window_size
      BY <1>6, <2>1, TakenKeeps
    <2>3. Taken.syn = sender.syn
      BY <1>6, <2>1 DEF SenderType
    <2>. QED  BY <1>10, <2>2, <2>3 DEF Fits, Follows
  <1>13. sender' = ack_received(Taken, wrap(at[m], Taken.isn), w)
    BY <1>5, <1>11, <1>12 DEF Deliver, AckReceived
  <1>14. w \in 0 .. MaxWindow
    BY <1>3, AckTyped
  <1>15. PICK now : Moved(Taken, at, m, sender', now, e)
    BY <1>5, <1>7, <1>11, <1>12, <1>13, <1>14, AckMoves
  <1>16. edge' = e
    <2>1. unwrap(acks[1].ackno, sender.isn, sender.next_seqno) = n
      <3>1. n \in 0 .. N + 2
        BY <1>7, <1>9
      <3>. QED  BY <1>5, <1>7, <3>1, ReadBack
    <2>2. edge' = IF e > edge THEN e ELSE edge
      BY <2>1 DEF Deliver, Room
    <2>. QED  BY <1>5, <1>7, <1>9, <2>2
  <1>17. /\ Sends(sender', now) /\ Fits(sender', now, e) /\ sender'.isn = sender.isn
         /\ sender'.syn /\ sender'.next_seqno >= sender.next_seqno
         /\ \A i \in m .. L + 1 : \E j \in DOMAIN now : at[i] = now[j]
    BY <1>12, <1>15 DEF Moved
  <1>18. ASSUME NEW x, x \in Nat, n <= x, \E i \in DOMAIN at : x = at[i]
         PROVE  \E j \in DOMAIN now : x = now[j]
    <2>1. PICK i \in 1 .. L + 1 : x = at[i]
      BY <1>8, <1>18
    <2>2. ~(i < m)
      <3>. SUFFICES ASSUME i < m PROVE FALSE
        OBVIOUS
      <3>1. x < n
        BY <1>8, <1>11, <2>1
      <3>. QED  BY <1>9, <1>18, <3>1
    <2>3. i \in m .. L + 1
      BY <1>8, <2>2
    <2>. QED  BY <1>17, <2>1, <2>3
  <1>19. PeerEdge' = PeerEdge /\ peer' = peer /\ acks' = Without(1)
    BY DEF Deliver, PeerEdge
  <1>20. ASSUME NEW j \in 1 .. Len(acks)
         PROVE  /\ pos[j] <= peer.next /\ pos[j] + Room(acks[j].win) <= PeerEdge
                /\ e <= pos[j] + Room(acks[j].win)
                /\ \E i \in DOMAIN now : pos[j] = now[i]
    <2>1. /\ pos[j] <= peer.next /\ pos[j] + Room(acks[j].win) <= PeerEdge
          /\ \E i \in DOMAIN at : pos[j] = at[i]
      BY <1>4 DEF InOrder
    <2>2. n <= pos[j] /\ e <= pos[j] + Room(acks[j].win)
      <3>1. CASE j = 1
        BY <1>9, <3>1
      <3>2. CASE j # 1
        <4>1. 1 < j
          BY <1>2, <3>2
        <4>. QED  BY <1>3, <1>4, <4>1 DEF InOrder
      <3>. QED  BY <3>1, <3>2
    <2>3. pos[j] \in Nat
      BY <1>2
    <2>. QED  BY <1>18, <2>1, <2>2, <2>3
  <1>. HIDE DEF e
  <1>21. InOrder(acks, sender.isn, now, e, peer.next, PeerEdge, pos)
    BY <1>4, <1>20, StillInOrder, Zenon
  <1>22. acks \in Seq([ackno : SeqNos, win : 0 .. PeerCapacity])
    BY DEF PeerTyped
  <1>23. InOrder(Without(1), sender.isn, now, e, peer.next, PeerEdge,
                 Skip(pos, Len(acks), 1))
    BY <1>3, <1>21, <1>22, WithoutInOrder
  <1>24. Len(Without(1)) = Len(acks) - 1
    BY <1>3, <1>22, WithoutProperties
  <1>25. Skip(pos, Len(acks), 1) \in [1 .. Len(acks) - 1 -> 0 .. sender'.next_seqno]
    <2>1. sender'.next_seqno \in 0 .. N + 2
      BY <1>17 DEF Sends, SenderType
    <2>2. \A x \in 0 .. sender.next_seqno : x \in 0 .. sender'.next_seqno
      BY <1>7, <1>17, <2>1
    <2>3. pos \in [1 .. Len(acks) -> 0 .. sender'.next_seqno]
      BY <1>1, <2>2 DEF Way
    <2>. QED  BY <1>2, <1>3, <2>3, SkipType, Zenon
  <1>26. \E q : Way(now, q)'
    BY <1>16, <1>17, <1>19, <1>23, <1>24, <1>25 DEF Way
  <1>27. e <= PeerEdge
    BY <1>3, <1>4 DEF InOrder, e
  <1>28. \E i \in DOMAIN now : peer.next = now[i]
    <2>1. n <= peer.next
      BY <1>3, <1>20
    <2>2. peer.next \in Nat
      <3>1. peer.next \in 0 .. N + 2
        BY DEF PeerTyped
      <3>. QED  BY <1>7, <3>1
    <2>. QED  BY <1>18, <2>1, <2>2 DEF Follows
  <1>29. Follows(now)'
    BY <1>16, <1>17, <1>19, <1>26, <1>27, <1>28 DEF Follows, Way, Fits
  <1>. QED  BY <1>17, <1>29

\* It holds when nothing was sent.
LEMMA PeerInitHolds == PeerInit => PeerIInv
  <1>. SUFFICES ASSUME PeerInit PROVE PeerIInv
    OBVIOUS
  <1>1. IInv /\ PeerTyped
    BY InitHolds, PeerInitTyped DEF PeerInit
  <1>2. PICK at \in Positions(sender) : Sends(sender, at)
    BY <1>1 DEF IInv
  <1>3. /\ sender.next_seqno = 0 /\ sender.bytes_in_flight = 0
        /\ sender.segments_outstanding = <<>>
        /\ sender.receiver_window_size = 1 /\ ~ sender.syn
        /\ acks = <<>> /\ edge = 1 /\ peer.next = 0 /\ peer.read = 0
    BY DEF PeerInit, Init, NewSender
  <1>4. at \in [1 .. 0 + 1 -> 0 .. 0] /\ at[0 + 1] = 0
    <2>1. Len(sender.segments_outstanding) = 0
      BY <1>3, EmptySeq
    <2>. QED  BY <1>2, <1>3, <2>1 DEF Sends, Queued
  <1>5. 1 \in DOMAIN at /\ at[1] = 0
    BY <1>4
  <1>6. Room(1) = 1 /\ 0 <= 1 /\ 0 + 1 <= 1
    BY DEF Room
  <1>7. edge <= PeerEdge
    <2>1. PeerWindow(peer) \in Nat
      <3>1. PeerWindow(peer) = PeerCapacity - (0 - 0)
        BY <1>3 DEF PeerWindow, BytesBelow
      <3>. QED  BY <3>1, PeerNumbers
    <2>2. Room(PeerWindow(peer)) \in Nat /\ Room(PeerWindow(peer)) >= 1
      BY <2>1, PeerNumbers
    <2>. QED  BY <1>3, <2>2 DEF PeerEdge
  <1>8. \E pos \in [1 .. Len(acks) -> 0 .. sender.next_seqno] :
          InOrder(acks, sender.isn, at, edge, peer.next, PeerEdge, pos)
    <2>1. Len(acks) = 0 /\ \A j \in 1 .. 0 : FALSE
      BY <1>3, EmptySeq
    <2>2. [j \in 1 .. 0 |-> 0] \in [1 .. 0 -> 0 .. sender.next_seqno]
      BY <2>1
    <2>3. \A pos : InOrder(acks, sender.isn, at, edge, peer.next, PeerEdge, pos)
      BY <2>1 DEF InOrder
    <2>. QED  BY <2>1, <2>2, <2>3, Zenon
  <1>9. Follows(at)
    BY <1>3, <1>5, <1>6, <1>7, <1>8, Zenon DEF Follows
  <1>. QED  BY <1>1, <1>2, <1>9 DEF PeerIInv

\* One step of the sender, the peer or the network preserves it.
LEMMA PeerStepHolds == PeerIInv /\ [PeerNext]_peervars => PeerIInv'
  <1>. SUFFICES ASSUME PeerIInv, [PeerNext]_peervars PROVE PeerIInv'
    OBVIOUS
  <1>1. IInv /\ PeerTyped
    BY DEF PeerIInv
  <1>2. IInv' /\ PeerTyped'
    BY <1>1, PeerStepTyped, StepHolds
  <1>3. Conforming' = Conforming
    <2>1. peer'.kind = peer.kind
      <3>1. ASSUME NEW n \in 0 .. N + 2, PeerReceives(n) PROVE peer'.kind = peer.kind
        BY <1>1, <3>1, ReceivesTyped
      <3>2. CASE PeerReads
        BY <1>1, <3>2, ReadsTyped
      <3>. QED  BY <3>1, <3>2 DEF PeerNext, OwnerActs, TimePasses, AnyAck, Lose, Deliver,
                                  peervars
    <2>. QED  BY <2>1 DEF Conforming
  <1>4. SUFFICES ASSUME Conforming, ~Reordering
                 PROVE  \E now : Sends(sender', now) /\ Follows(now)'
    <2>1. \A now : Sends(sender', now) => now \in Positions(sender')
      BY DEF Sends, Queued, Positions
    <2>. QED  BY <1>2, <1>3, <1>4, <2>1 DEF PeerIInv
  <1>5. PICK at \in Positions(sender) : Sends(sender, at) /\ Follows(at)
    BY <1>4 DEF PeerIInv
  <1>6. CASE OwnerActs
    BY <1>1, <1>5, <1>6, FollowsOwner
  <1>7. CASE TimePasses
    BY <1>1, <1>5, <1>7, FollowsTime
  <1>8. ASSUME NEW n \in 0 .. N + 2, PeerReceives(n)
        PROVE  Sends(sender', at) /\ Follows(at)'
    BY <1>1, <1>5, <1>8, FollowsReceives DEF PeerReceives
  <1>9. ~ AnyAck
    BY <1>4 DEF AnyAck
  <1>10. CASE PeerReads
    <2>1. Follows(at)'
      BY <1>1, <1>5, <1>10, FollowsReads
    <2>. QED  BY <1>5, <1>10, <2>1 DEF PeerReads
  <1>11. ASSUME NEW i, Lose(i)
         PROVE  Sends(sender', at) /\ Follows(at)'
    <2>1. Follows(at)'
      BY <1>1, <1>5, <1>11, FollowsLose
    <2>. QED  BY <1>5, <1>11, <2>1 DEF Lose
  <1>12. ASSUME NEW i, Deliver(i)
         PROVE  \E now : Sends(sender', now) /\ Follows(now)'
    <2>1. i = 1
      BY <1>4, <1>12 DEF Deliver
    <2>. QED  BY <1>1, <1>5, <1>12, <2>1, FollowsDeliver
  <1>13. CASE UNCHANGED peervars
    <2>1. sender' = sender /\ peer' = peer /\ acks' = acks /\ edge' = edge
      BY <1>13 DEF peervars
    <2>2. Follows(at)'
      BY <1>5, <2>1 DEF Follows, PeerEdge
    <2>. QED  BY <1>5, <2>1, <2>2
  <1>. QED  BY <1>6, <1>7, <1>8, <1>9, <1>10, <1>11, <1>12, <1>13 DEF PeerNext

\* As long as acknowledgments do not overtake one another, a peer that follows
\* the rules never gets a sequence number beyond a window it has announced, or
\* the one byte that probes a window of zero, however many of its
\* acknowledgments are lost.
THEOREM WindowRespectedHolds ==
  ASSUME ~Reordering
  PROVE  PeerSpec => []WindowRespected
  <1>1. PeerIInv => WindowRespected
    <2>. SUFFICES ASSUME PeerIInv, Conforming PROVE sender.next_seqno <= edge
      BY DEF WindowRespected
    <2>1. PICK at : Sends(sender, at) /\ Follows(at)
      BY DEF PeerIInv
    <2> DEFINE room == Room(sender.receiver_window_size)
    <2>2. /\ at[1] = sender.next_seqno - sender.bytes_in_flight
          /\ sender.bytes_in_flight <= room /\ at[1] + room <= edge
      BY <2>1 DEF Sends, Queued, Follows
    <2>3. /\ sender.next_seqno \in 0 .. N + 2 /\ sender.bytes_in_flight \in 0 .. N + 2
          /\ N \in Nat /\ edge \in Nat /\ sender.receiver_window_size \in 0 .. MaxWindow
      BY <2>1, PeerNumbers DEF Sends, SenderType, PeerIInv, PeerTyped
    <2>4. room \in Nat
      <3>1. sender.receiver_window_size \in Nat
        BY <2>3, PeerNumbers
      <3>. QED  BY <3>1, PeerNumbers
    <2>. HIDE DEF room
    <2>. QED  BY <2>2, <2>3, <2>4
  <1>. QED  BY <1>1, PeerInitHolds, PeerStepHolds, PTL DEF PeerSpec
=============================================================================
