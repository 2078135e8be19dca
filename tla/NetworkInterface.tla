-------------------------- MODULE NetworkInterface --------------------------
(***************************************************************************)
(* libsponge/network_interface.{hh,cc}: sends IP datagrams as Ethernet     *)
(* frames.  The Ethernet address of the next hop comes from a table that   *)
(* ARP fills; datagrams wait while it is asked for.                        *)
(*                                                                         *)
(* _waiting_arp_internet_datagrams is one list of (next hop, datagram) in  *)
(* the code; only the order among datagrams with the same next hop shows,  *)
(* so here waiting_datagrams has one sequence per next hop.  Payloads are  *)
(* records: what serialising and parsing do to them is module Codec's.     *)
(***************************************************************************)
EXTENDS Integers, Sequences, FiniteSets

CONSTANTS
  IpAddress,            \* the IP addresses in use
  ETHERNET_BROADCAST,
  NoEthernetAddress,    \* {}, the target of a request
  ArpEntryTtl,          \* _arp_entry_deafult_ttl, 30 s
  ArpResponseTtl        \* _arp_response_default_ttl, 5 s

ASSUME InterfaceAssumption ==
  /\ ArpEntryTtl \in Nat \ {0} /\ ArpResponseTtl \in Nat \ {0}
  /\ ETHERNET_BROADCAST # NoEthernetAddress

\* NetworkInterface(ethernet_address, ip_address), all tables empty.
NewInterface(ethernet_address, ip_address) ==
  [ethernet_address |-> ethernet_address, ip_address |-> ip_address,
   frames_out |-> <<>>, arp_table |-> <<>>, waiting_response |-> <<>>,
   waiting_datagrams |-> [ip \in IpAddress |-> <<>>]]

Without(f, x) == [z \in DOMAIN f \ {x} |-> f[z]]
With(f, x, y) == [z \in DOMAIN f \cup {x} |-> IF z = x THEN y ELSE f[z]]

ArpFrame(n, dst, opcode, target_eth, target_ip) ==
  [dst |-> dst, src |-> n.ethernet_address, type |-> "ARP",
   payload |-> [opcode |-> opcode, sender_eth |-> n.ethernet_address,
                sender_ip |-> n.ip_address,
                target_eth |-> target_eth, target_ip |-> target_ip]]

Request(n, ip) == ArpFrame(n, ETHERNET_BROADCAST, "REQUEST", NoEthernetAddress, ip)
Reply(n, msg) == ArpFrame(n, msg.sender_eth, "REPLY", msg.sender_eth, msg.sender_ip)

IPv4Frame(n, dst, dgram) ==
  [dst |-> dst, src |-> n.ethernet_address, type |-> "IPv4", payload |-> dgram]

\* send_datagram(dgram, next_hop): a frame if the address is known; otherwise
\* the datagram waits, and its next hop is asked for unless it has been.
send_datagram(n, dgram, next_hop) ==
  IF next_hop \in DOMAIN n.arp_table THEN
    [n EXCEPT !.frames_out =
       Append(@, IPv4Frame(n, n.arp_table[next_hop].eth_addr, dgram))]
  ELSE LET waits == [n EXCEPT !.waiting_datagrams[next_hop] = Append(@, dgram)]
       IN  IF next_hop \in DOMAIN n.waiting_response THEN waits
           ELSE [waits EXCEPT !.frames_out = Append(@, Request(n, next_hop)),
                              !.waiting_response = With(@, next_hop, ArpResponseTtl)]

IsForMe(n, frame) == frame.dst \in {n.ethernet_address, ETHERNET_BROADCAST}

ValidRequest(n, msg) == msg.opcode = "REQUEST" /\ msg.target_ip = n.ip_address
ValidReply(n, msg) == msg.opcode = "REPLY" /\ msg.target_eth = n.ethernet_address

\* Slips: the datagrams stay in the queue when they have been sent, or the
\* address is taken for answered while it is still unknown.
learn_keeps_waiting(n, msg) ==
  [n EXCEPT
     !.arp_table = With(@, msg.sender_ip, [eth_addr |-> msg.sender_eth, ttl |-> ArpEntryTtl]),
     !.frames_out = @ \o [i \in DOMAIN n.waiting_datagrams[msg.sender_ip] |->
                           IPv4Frame(n, msg.sender_eth, n.waiting_datagrams[msg.sender_ip][i])],
     !.waiting_response = Without(@, msg.sender_ip)]
learn_from_target(n, msg) ==
  [n EXCEPT
     !.arp_table = With(@, msg.target_ip, [eth_addr |-> msg.sender_eth, ttl |-> ArpEntryTtl]),
     !.waiting_response = Without(@, msg.target_ip)]

\* The sender's addresses go into the table, the datagrams that waited for
\* them go out, and nobody has to be asked any more.
learn(n, msg) ==
  LET ip == msg.sender_ip
      frame(dgram) == IPv4Frame(n, msg.sender_eth, dgram)
  IN  [n EXCEPT
         !.arp_table = With(@, ip, [eth_addr |-> msg.sender_eth, ttl |-> ArpEntryTtl]),
         !.frames_out = @ \o [i \in DOMAIN n.waiting_datagrams[ip] |->
                                frame(n.waiting_datagrams[ip][i])],
         !.waiting_datagrams[ip] = <<>>,
         !.waiting_response = Without(@, ip)]

\* recv_frame(frame): the interface afterwards ...
recv_frame(n, frame) ==
  LET msg == frame.payload
  IN  IF ~IsForMe(n, frame) \/ frame.type # "ARP" THEN n
      ELSE IF ValidRequest(n, msg)
        THEN learn([n EXCEPT !.frames_out = Append(@, Reply(n, msg))], msg)
      ELSE IF ValidReply(n, msg) THEN learn(n, msg)
      ELSE n

\* ... and the datagram it returns, if any.
Received(n, frame) ==
  IF IsForMe(n, frame) /\ frame.type = "IPv4" THEN <<frame.payload>> ELSE <<>>

\* Slip: what has exactly the step left lives on.
Expired_late(ttls, ms) == {x \in DOMAIN ttls : ttls[x] < ms}

Expired(ttls, ms) == {x \in DOMAIN ttls : ttls[x] <= ms}

\* tick() looks again at a request it has just renewed: one renewed for no
\* longer than the step is expired at once, and the loop goes on for ever.
TickReturns(n, ms) == Expired(n.waiting_response, ms) # {} => ms < ArpResponseTtl

\* Slip: an unanswered request is forgotten, not repeated.
tick_forgets(n, ms) ==
  LET old == {ip \in DOMAIN n.arp_table : n.arp_table[ip].ttl <= ms}
      asked == Expired(n.waiting_response, ms)
  IN  [n EXCEPT
         !.arp_table = [ip \in DOMAIN @ \ old |-> [n.arp_table[ip] EXCEPT !.ttl = @ - ms]],
         !.waiting_response = [ip \in DOMAIN @ \ asked |-> @[ip] - ms]]

\* What a set has, in some order: that of the hash table.
InSomeOrder(S) ==
  CHOOSE f \in [1 .. Cardinality(S) -> S] : \A x \in S : \E i \in DOMAIN f : f[i] = x

\* tick(ms): entries expire, unanswered requests are repeated, in the order of
\* the hash table, and renewed; the renewal loses the step that expired it.
tick(n, ms) ==
  LET old == {ip \in DOMAIN n.arp_table : n.arp_table[ip].ttl <= ms}
      asked == Expired(n.waiting_response, ms)
      again == InSomeOrder(asked)
  IN  [n EXCEPT
         !.arp_table = [ip \in DOMAIN @ \ old |-> [n.arp_table[ip] EXCEPT !.ttl = @ - ms]],
         !.frames_out = @ \o [i \in DOMAIN again |-> Request(n, again[i])],
         !.waiting_response =
           [ip \in DOMAIN @ |-> (IF ip \in asked THEN ArpResponseTtl
                                ELSE n.waiting_response[ip]) - ms]]

-----------------------------------------------------------------------------
\* What is true of an interface between any two calls: a datagram waits
\* exactly for the addresses that were asked for, none of which is known.
\* A datagram that waited for anything else would wait for ever.
WaitsForAnswer(n) ==
  /\ DOMAIN n.waiting_response
       = {ip \in IpAddress : n.waiting_datagrams[ip] # <<>>}
  /\ DOMAIN n.waiting_response \cap DOMAIN n.arp_table = {}
=============================================================================
