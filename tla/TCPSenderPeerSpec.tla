------------------------- MODULE TCPSenderPeerSpec -------------------------
(***************************************************************************)
(* A TCPSender and its peer.  One kind of peer sends anything.  The other  *)
(* follows the rules of TCP: it acknowledges what it received without a    *)
(* gap, never takes a byte beyond the window it announced, and never moves *)
(* that window's right edge back.  It is any TCP, not the receiver of this *)
(* library.  Its acknowledgments may be lost and, when Reordering is set,  *)
(* overtake one another.                                                   *)
(***************************************************************************)
EXTENDS TCPSenderSpec

CONSTANTS
  PeerKinds,       \* the peers that are tried: "any", "conforming"
  PeerCapacity,    \* how many bytes the peer buffers
  MaxAcks,         \* how many acknowledgments are on their way at once
  Reordering

ASSUME PeerAssumption ==
  /\ PeerCapacity \in 1 .. MaxWindow
  /\ MaxAcks \in Nat \ {0}
  /\ Reordering \in BOOLEAN

VARIABLES
  peer,    \* [kind, next: the absolute ackno it is at, read: bytes its owner read]
  acks,    \* acknowledgments on their way, oldest first
  edge     \* the first sequence number the sender was not yet allowed to use

peervars == <<sender, peer, acks, edge>>

PeerInit ==
  /\ Init
  /\ \E kind \in PeerKinds : peer = [kind |-> kind, next |-> 0, read |-> 0]
  /\ acks = <<>>
  /\ edge = 1

Conforming == peer.kind = "conforming"

\* The stream bytes among the sequence numbers below n.
BytesBelow(n) == IF n = 0 THEN 0 ELSE AtMost(n - 1, N)

PeerWindow(p) == PeerCapacity - (BytesBelow(p.next) - p.read)

\* Some of what is outstanding arrives, up to and with the segment that ends
\* at n and fits the window, and everything received is acknowledged.
PeerReceives(n) ==
  /\ Conforming /\ n >= peer.next
  /\ \/ n = peer.next
     \/ \E i \in 1 .. Len(sender.segments_outstanding) :
          n = EndOf(sender, sender.segments_outstanding[i])
  /\ BytesBelow(n) - peer.read <= PeerCapacity
  /\ Len(acks) < MaxAcks
  /\ peer' = [peer EXCEPT !.next = n]
  /\ acks' = IF n = 0 THEN acks
             ELSE Append(acks, [ackno |-> wrap(n, sender.isn),
                                win |-> PeerWindow(peer')])
  /\ UNCHANGED <<sender, edge>>

\* The other kind of peer.
AnyAck ==
  /\ ~Conforming
  /\ \E ackno \in SeqNos, window_size \in 0 .. MaxWindow :
       AckReceived(ackno, window_size)
  /\ UNCHANGED <<peer, acks, edge>>

PeerReads ==
  /\ peer.read < BytesBelow(peer.next)
  /\ peer' = [peer EXCEPT !.read = @ + 1]
  /\ UNCHANGED <<sender, acks, edge>>

Without(i) == SubSeq(acks, 1, i - 1) \o SubSeq(acks, i + 1, Len(acks))

Lose(i) ==
  /\ i \in 1 .. Len(acks)
  /\ acks' = Without(i)
  /\ UNCHANGED <<sender, peer, edge>>

\* An announced window of zero still allows a probe of one byte.
Deliver(i) ==
  /\ i \in 1 .. Len(acks)
  /\ i = 1 \/ Reordering
  /\ AckReceived(acks[i].ackno, acks[i].win)
  /\ LET allowed == unwrap(acks[i].ackno, sender.isn, sender.next_seqno)
                      + (IF acks[i].win = 0 THEN 1 ELSE acks[i].win)
     IN  edge' = IF allowed > edge THEN allowed ELSE edge
  /\ acks' = Without(i)
  /\ UNCHANGED peer

OwnerActs ==
  /\ \/ Connect
     \/ \E len \in 1 .. N : Write(len)
     \/ EndInput
  /\ UNCHANGED <<peer, acks, edge>>

TimePasses == Tick /\ UNCHANGED <<peer, acks, edge>>

PeerNext ==
  \/ OwnerActs
  \/ TimePasses
  \/ \E n \in 0 .. N + 2 : PeerReceives(n)
  \/ AnyAck
  \/ PeerReads
  \/ \E i \in 1 .. MaxAcks : Lose(i)
  \/ \E i \in 1 .. MaxAcks : Deliver(i)

PeerSpec == PeerInit /\ [][PeerNext]_peervars

\* Exactly when TimePasses changes something.
TickDue ==
  /\ sender.consecutive_retransmissions <= MAX_RETX_ATTEMPTS
  /\ sender_tick(Taken, 1) # sender

\* The peer takes something new, which fits its window.
PeerTakes == \E n \in 1 .. N + 2 : n > peer.next /\ PeerReceives(n)

\* The clock keeps going; the peer takes what fits and answers what does not,
\* its owner reads, and its network does not lose every acknowledgment.  The
\* last two lines are weak and strong fairness with the enabling condition
\* spelled out, since TLC evaluates ENABLED of the sender's handlers slowly.
PeerFairness ==
  /\ WF_peervars(PeerTakes) /\ WF_peervars(PeerReceives(peer.next))
  /\ WF_peervars(PeerReads)
  /\ []<>(~TickDue) \/ []<><<TimePasses>>_peervars
  /\ <>[](acks = <<>>) \/ []<><<Deliver(1)>>_peervars

FairPeerSpec == PeerSpec /\ PeerFairness

-----------------------------------------------------------------------------
\* "a full window of nonzero size should be respected" (tests/send_extra.cc:363)
\* and "Repeated ACKs and outdated ACKs are harmless" (tests/send_extra.cc:399):
\* whatever is sent lies within a window the peer has announced, or is the one
\* byte that probes a window of zero.
WindowRespected == Conforming => sender.next_seqno <= edge

\* Once the owner has ended its stream, every byte and the FIN are acknowledged
\* and read, unless the connection gives up after too many retransmissions.
AllAcknowledged ==
  Conforming /\ input_ended(sender.stream) ~>
    (\/ sender.fin /\ sender.segments_outstanding = <<>> /\ peer.read = N
     \/ sender.consecutive_retransmissions > MAX_RETX_ATTEMPTS)
=============================================================================
