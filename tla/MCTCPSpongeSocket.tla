------------------------- MODULE MCTCPSpongeSocket -------------------------
(***************************************************************************)
(* TLC's instance of TCPSpongeSocketSpec.                                  *)
(***************************************************************************)
EXTENDS TCPSpongeSocketSpec

At(ip, port) == [ip |-> ip, port |-> port]

SocketAndPeer == [socket |-> At("here", 1), peer |-> At("there", 2), any |-> At("any", 0)]

\* A reset from another port of the peer's host.
OtherPeer == Packet(At("there", 3), At("here", 1), [Segment EXCEPT !.rst = TRUE])

TwoBytes == [i \in 1 .. 2 |-> i]

Scenario(role, kind, room, bytes, stray_packets, goes, drops) ==
  [role |-> role, kind |-> kind, room |-> room, bytes |-> bytes,
   stray |-> stray_packets, goes |-> goes, drops |-> drops]

\* A short socket pair and a socket dropped at any time; a packet of another
\* connection; a peer that goes away; both, for a socket that listens.
Chosen ==
  { Scenario("listen", "ip", 1, <<"a">>, {}, FALSE, TRUE),
    Scenario("connect", "ip", 1, <<>>, {OtherPeer}, FALSE, FALSE),
    Scenario("connect", "udp", 2, <<>>, {}, TRUE, FALSE),
    Scenario("listen", "ip", 2, <<>>, {OtherPeer}, TRUE, FALSE) }

\* A peer that goes away while its bytes wait for the owner.
ShortAndGoing == { Scenario("connect", "udp", 1, <<>>, {}, TRUE, FALSE) }

=============================================================================
