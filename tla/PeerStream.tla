----------------------------- MODULE PeerStream -----------------------------
(***************************************************************************)
(* The byte stream of a peer, and the room there is for it: what the       *)
(* specifications of a StreamReassembler and of a TCPReceiver share.       *)
(***************************************************************************)
EXTENDS Integers, Sequences

CONSTANTS
  Stream,     \* the bytes the peer sends
  Capacity    \* StreamReassembler::_capacity, TCPReceiver::_capacity

ASSUME PeerStreamAssumption ==
  /\ Stream \in Seq({Stream[i] : i \in DOMAIN Stream})
  /\ Capacity \in Nat \ {0}

N == Len(Stream)
Byte == {Stream[i] : i \in DOMAIN Stream}
=============================================================================
