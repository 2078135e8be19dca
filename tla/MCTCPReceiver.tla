--------------------------- MODULE MCTCPReceiver ---------------------------
(***************************************************************************)
(* TLC's instance of TCPReceiverSpec.  The stream is longer than the       *)
(* sequence space, so that its sequence numbers are used more than once.   *)
(***************************************************************************)
EXTENDS TCPReceiverSpec

TenBytes == [i \in 1 .. 10 |-> i]
=============================================================================
