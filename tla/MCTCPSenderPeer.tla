-------------------------- MODULE MCTCPSenderPeer --------------------------
(***************************************************************************)
(* TLC's instance of TCPSenderPeerSpec: the stream is longer than the      *)
(* peer's buffer, so that its window closes and opens again.               *)
(***************************************************************************)
EXTENDS TCPSenderPeerSpec

FiveBytes == [i \in 1 .. 5 |-> i]
=============================================================================
