----------------------------- MODULE MCTCPPair -----------------------------
(***************************************************************************)
(* TLC's instances of TCPPairSpec.                                         *)
(***************************************************************************)
EXTENDS TCPPairSpec, TLC

CONSTANTS client, server

Two == {client, server}
Client == {client}
OneAndNone == client :> <<"a">> @@ server :> <<>>
Undisturbed == {Condition(FALSE, FALSE, {}, 5)}
Losing == {Condition(TRUE, FALSE, {}, 5)}
LosingOrReordering ==
  {Condition(TRUE, FALSE, {client}, 5), Condition(FALSE, TRUE, {}, 10)}
TwoIsns == client :> 14 @@ server :> 3

Upward ==
  INSTANCE ReliableStream WITH
    written <- Written(client), ended <- Ended(client),
    delivered <- Arrived(server), told <- Told(server)

Downward ==
  INSTANCE ReliableStream WITH
    written <- Written(server), ended <- Ended(server),
    delivered <- Arrived(client), told <- Told(client)

\* Each direction implements ReliableStream as long as no segment is sent before
\* the one ahead of it is acknowledged (RecvCapacity 1): whatever is lost, sent
\* again or overtaken, the bytes come in in order, none missing and none twice,
\* and the end comes in after the last of them.
ReliableBothWays == Upward!Spec /\ Downward!Spec
=============================================================================
