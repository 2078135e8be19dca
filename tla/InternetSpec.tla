---------------------------- MODULE InternetSpec ----------------------------
(***************************************************************************)
(* Hosts and routers on Ethernet links, as apps/lab7.cc and                *)
(* apps/network_simulator.cc put them together.  A link is as reliable as  *)
(* LossyTypes says; the nodes' clocks advance together.                    *)
(***************************************************************************)
EXTENDS Router

CONSTANTS
  Hosts, Routers,
  Addresses,      \* each node's IP addresses, one per interface
  Links,          \* sets of interfaces <<node, number>> that hear each other
  Tables,         \* each router's route table
  Gateway,        \* each host's _next_hop
  RoutedTo,       \* the host a datagram should come to, for each destination
  Hops,           \* the number of routers between any two hosts
  Ttls,           \* the TTLs hosts put into their datagrams
  Budgets,        \* bound: how many datagrams each host sends, the choices
  MaxFrames,      \* bound: frames an interface holds when time passes
  LossyTypes,     \* the types of frames a link may lose
  TickStep        \* the time between two ticks

Nodes == Hosts \cup Routers
Interfaces == UNION Links

ASSUME InternetAssumption ==
  /\ Hosts \cap Routers = {}
  /\ \A n \in Nodes : Addresses[n] \in Seq(IpAddress)
  /\ Interfaces \subseteq UNION {{<<n, k>> : k \in DOMAIN Addresses[n]} : n \in Nodes}
  /\ Budgets \subseteq [Hosts -> Nat] /\ MaxFrames \in Nat
  /\ TickStep \in 1 .. ArpResponseTtl - 1

VARIABLES
  node,    \* each node's AsyncNetworkInterfaces
  sent     \* the datagrams each host has sent

vars == <<node, sent>>

Init ==
  /\ node = [n \in Nodes |-> [k \in DOMAIN Addresses[n] |->
                                NewAsyncInterface(<<n, k>>, Addresses[n][k])]]
  /\ sent = [h \in Hosts |-> <<>>]

AddressOf(h) == Addresses[h][1]
FramesOut(i) == node[i[1]][i[2]].interface.frames_out

\* Host::send_to(destination, ttl)
Send(h, dst, ttl) ==
  LET dgram == [src |-> AddressOf(h), dst |-> dst, ttl |-> ttl, id |-> Len(sent[h]) + 1]
  IN  /\ \E max \in Budgets : /\ Len(sent[h]) < max[h]
                             /\ \A g \in Hosts : Len(sent[g]) <= max[g]
      /\ sent' = [sent EXCEPT ![h] = Append(@, dgram)]
      /\ node' = [node EXCEPT ![h][1].interface = send_datagram(@, dgram, Gateway[h])]

\* An interface takes a frame in; a router then routes, a host keeps the
\* datagrams for its owner.
Take(n, k, frame) ==
  LET got == [node[n] EXCEPT ![k] = async_recv_frame(@, frame)]
  IN  IF n \in Routers THEN route(got, Tables[n]) ELSE got

Popped(i) == [node[i[1]] EXCEPT ![i[2]].interface.frames_out = Tail(@)]

\* The oldest frame of an interface reaches all others on its link.
Carry(i) ==
  LET link == CHOOSE l \in Links : i \in l
      hears(n) == {j \in link : j[1] = n /\ n # i[1]}
  IN  /\ FramesOut(i) # <<>>
      /\ node' = [n \in Nodes |->
                    IF n = i[1] THEN Popped(i)
                    ELSE IF hears(n) = {} THEN node[n]
                    ELSE Take(n, (CHOOSE j \in hears(n) : TRUE)[2], Head(FramesOut(i)))]
      /\ UNCHANGED sent

Lose(i) ==
  /\ FramesOut(i) # <<>> /\ Head(FramesOut(i)).type \in LossyTypes
  /\ node' = [node EXCEPT ![i[1]] = Popped(i)]
  /\ UNCHANGED sent

\* Time passes for every node alike.
Ticked ==
  [n \in Nodes |-> [k \in DOMAIN node[n] |->
     [node[n][k] EXCEPT !.interface = tick(@, TickStep)]]]

CanTick ==
  /\ \A i \in Interfaces : Len(Ticked[i[1]][i[2]].interface.frames_out) <= MaxFrames
  /\ Ticked # node

Tick ==
  /\ CanTick
  /\ node' = Ticked
  /\ UNCHANGED sent

Next ==
  \/ \E h \in Hosts, dst \in DOMAIN RoutedTo, ttl \in Ttls : Send(h, dst, ttl)
  \/ \E i \in Interfaces : Carry(i)
  \/ \E i \in Interfaces : Lose(i)
  \/ Tick

Spec == Init /\ [][Next]_vars

\* Clocks run, and a link does not lose all it is given for ever.  Fairness is
\* spelled out with the enabling conditions, which TLC evaluates faster.
Fairness ==
  /\ \A i \in Interfaces : <>[](FramesOut(i) = <<>>) \/ []<><<Carry(i)>>_vars
  /\ []<>(~CanTick) \/ []<><<Tick>>_vars

FairSpec == Spec /\ Fairness

-----------------------------------------------------------------------------
Interface(i) == node[i[1]][i[2]].interface

\* Whatever is learnt, from requests or replies, however late, is true: an
\* entry names the interface that owns the address, on the same link.
ArpTableIsTrue ==
  \A i \in Interfaces : \A ip \in DOMAIN Interface(i).arp_table :
    LET owner == Interface(i).arp_table[ip].eth_addr
    IN  /\ \E link \in Links : {i, owner} \subseteq link
        /\ Addresses[owner[1]][owner[2]] = ip

\* What should have come from h to g by the end, and what has.
Expected(h, g) ==
  LET due == SelectSeq(sent[h], LAMBDA d : RoutedTo[d.dst] = g /\ d.ttl > Hops)
  IN  [i \in DOMAIN due |-> [due[i] EXCEPT !.ttl = @ - Hops]]
Arrived(h, g) ==
  SelectSeq(node[g][1].datagrams_out, LAMBDA d : d.src = AddressOf(h))

\* "received unexpected Internet datagram" (apps/network_simulator.cc:135): each
\* datagram comes to the host it is for, once, in order, after as many
\* decrements as there are routers on its way, or not at all.
OnlyExpectedArrive ==
  \A g, h \in Hosts :
    \E n \in 0 .. Len(Expected(h, g)) : Arrived(h, g) = SubSeq(Expected(h, g), 1, n)

\* "did NOT receive an expected Internet datagram" (apps/network_simulator.cc:144):
\* however many requests and replies are lost, and however often entries
\* expire, what was sent with hops to spare arrives.
AllArrive ==
  []<>(\A g, h \in Hosts : Arrived(h, g) = Expected(h, g))
=============================================================================
