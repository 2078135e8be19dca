------------------------------- MODULE Router -------------------------------
(***************************************************************************)
(* libsponge/router.{hh,cc}: moves datagrams between the interfaces of a   *)
(* router, by the route with the longest prefix that matches.              *)
(***************************************************************************)
EXTENDS NetworkInterface

CONSTANTS
  AddressBits,    \* the bits of an IP address, 32 in the code
  Direct          \* a route without a next hop

\* AsyncNetworkInterface: keeps what recv_frame() returns in datagrams_out.
NewAsyncInterface(ethernet_address, ip_address) ==
  [interface |-> NewInterface(ethernet_address, ip_address), datagrams_out |-> <<>>]

async_recv_frame(a, frame) ==
  [interface |-> recv_frame(a.interface, frame),
   datagrams_out |-> a.datagrams_out \o Received(a.interface, frame)]

\* add_route(): a table is what a sequence of calls has added.
Route(route_prefix, prefix_length, next_hop, interface_num) ==
  [route_prefix |-> route_prefix, prefix_length |-> prefix_length,
   next_hop |-> next_hop, interface_num |-> interface_num]

\* address >> count.  A shift by the whole width is undefined; the processor takes
\* the count modulo the width.
Shifted(address, count) == address \div 2 ^ (count % AddressBits)

AgreeInPrefix(item, dst) ==
  LET count == AddressBits - item.prefix_length
  IN  Shifted(item.route_prefix, count) = Shifted(dst, count)

\* Slip: the default route is no special case.
Matches_shifting_all(item, dst) == AgreeInPrefix(item, dst)

\* A route fits if its prefix has no bits, or the addresses agree in them.
Matches(item, dst) == item.prefix_length = 0 \/ AgreeInPrefix(item, dst)

\* One turn of the loop in match_entry: item i, or the best so far, 0 when there
\* is none.
Better(table, dst, best, i) ==
  IF /\ Matches(table[i], dst)
     /\ best = 0 \/ table[best].prefix_length < table[i].prefix_length
  THEN i ELSE best

\* match_entry: the loop keeps the first of the longest matching items.
match_entry(table, dst) ==
  LET best[i \in 0 .. Len(table)] ==
        IF i = 0 THEN 0 ELSE Better(table, dst, best[i - 1], i)
  IN  best[Len(table)]

\* ttl--, in eight bits.
Decremented(ttl) == (ttl - 1) % 256

\* Slip: the TTL is looked at after the decrement, where 0 has become 255.
route_one_datagram_late(interfaces, table, dgram) ==
  LET match == match_entry(table, dgram.dst)
      item == table[match]
      next_hop == IF item.next_hop = Direct THEN dgram.dst ELSE item.next_hop
  IN  IF match = 0 \/ Decremented(dgram.ttl) = 0 THEN interfaces
      ELSE [interfaces EXCEPT ![item.interface_num].interface =
              send_datagram(@, [dgram EXCEPT !.ttl = Decremented(@)], next_hop)]

\* route_one_datagram(dgram): dropped without a route, or unless the TTL was more
\* than one before its decrement.
route_one_datagram(interfaces, table, dgram) ==
  LET match == match_entry(table, dgram.dst)
      item == table[match]
      next_hop == IF item.next_hop = Direct THEN dgram.dst ELSE item.next_hop
  IN  IF match = 0 \/ dgram.ttl <= 1 THEN interfaces
      ELSE [interfaces EXCEPT ![item.interface_num].interface =
              send_datagram(@, [dgram EXCEPT !.ttl = Decremented(@)], next_hop)]

\* The queue of one interface, in route().
route_queue(interfaces, table, queue) ==
  LET routed[k \in 0 .. Len(queue)] ==
        IF k = 0 THEN interfaces ELSE route_one_datagram(routed[k - 1], table, queue[k])
  IN  routed[Len(queue)]

\* route(): every queue is emptied, interface by interface.
route(interfaces, table) ==
  LET routed[i \in 0 .. Len(interfaces)] ==
        IF i = 0 THEN interfaces
        ELSE route_queue(routed[i - 1], table, interfaces[i].datagrams_out)
      all == routed[Len(interfaces)]
  IN  [i \in DOMAIN all |-> [all[i] EXCEPT !.datagrams_out = <<>>]]
=============================================================================
