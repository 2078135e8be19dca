----------------------------- MODULE MCInternet -----------------------------
(***************************************************************************)
(* TLC's instance of InternetSpec: two hosts behind one router.  Addresses *)
(* have three bits; the second host is on the network 10x, everything else *)
(* goes to the first host's network by the default route.                  *)
(***************************************************************************)
EXTENDS InternetSpec, TLC

CONSTANTS a, b, r

TwoHosts == {a, b}
OneRouter == {r}
ThreeBits == {1, 2, 4, 5}
RouterAndHosts == a :> <<1>> @@ r :> <<2, 5>> @@ b :> <<4>>
TwoLinks == {{<<a, 1>>, <<r, 1>>}, {<<r, 2>>, <<b, 1>>}}
ByPrefix == r :> << Route(0, 0, Direct, 1), Route(4, 2, Direct, 2), Route(7, 2, 1, 1) >>
ToRouter == a :> 2 @@ b :> 5
ByTable == 4 :> b @@ 6 :> a
TwoOrOneEach == {a :> 2 @@ b :> 0, a :> 1 @@ b :> 1}

=============================================================================
