------------------------ MODULE NetworkInterfaceSpec ------------------------
(***************************************************************************)
(* One NetworkInterface in any surroundings: its owner sends and takes the *)
(* frames out in any order, and any ARP message at all may come in.        *)
(***************************************************************************)
EXTENDS NetworkInterface

CONSTANTS
  OwnEthernet, OwnIp,   \* the interface's addresses
  EthernetAddress,      \* the addresses of the others
  Datagrams,            \* what is sent
  Steps,                \* the times between two ticks
  MaxOut, MaxWaiting    \* bounds: frames not yet taken, datagrams that wait

ASSUME SurroundingsAssumption ==
  OwnIp \in IpAddress /\ Steps \subseteq Nat /\ MaxOut \in Nat /\ MaxWaiting \in Nat

VARIABLE interface

IfInit == interface = NewInterface(OwnEthernet, OwnIp)

SendDatagram(dgram, next_hop) ==
  /\ Len(interface.waiting_datagrams[next_hop]) < MaxWaiting
  /\ interface' = send_datagram(interface, dgram, next_hop)

AnyMessage ==
  [opcode : {"REQUEST", "REPLY"}, sender_eth : EthernetAddress, sender_ip : IpAddress,
   target_eth : {OwnEthernet, NoEthernetAddress}, target_ip : IpAddress]

\* frames_out() gives the owner the queue, to take frames from.
TakeFrame ==
  /\ interface.frames_out # <<>>
  /\ interface' = [interface EXCEPT !.frames_out = Tail(@)]

RecvMessage(dst, msg) ==
  interface' = recv_frame(interface, [dst |-> dst, src |-> msg.sender_eth,
                                      type |-> "ARP", payload |-> msg])

IfTick(ms) ==
  /\ TickReturns(interface, ms)
  /\ interface' = tick(interface, ms)

IfNext ==
  /\ \/ \E dgram \in Datagrams, ip \in IpAddress : SendDatagram(dgram, ip)
     \/ TakeFrame
     \/ \E dst \in EthernetAddress \cup {OwnEthernet, ETHERNET_BROADCAST} :
          \E msg \in AnyMessage : RecvMessage(dst, msg)
     \/ \E ms \in Steps : IfTick(ms)
  /\ Len(interface'.frames_out) <= MaxOut

InterfaceSpec == IfInit /\ [][IfNext]_interface

-----------------------------------------------------------------------------
\* A datagram waits exactly for the addresses that were asked for, none of
\* which is known: whatever is received, and however expiries, renewals and
\* answers fall together, nothing waits that no answer would release.
InterfaceWaits == WaitsForAnswer(interface)

\* The size_t times left (network_interface.cc:153, 163) never wrap around:
\* an entry or a request has between one step and its whole lifetime left.
TimesLeft ==
  /\ \A ip \in DOMAIN interface.arp_table :
       interface.arp_table[ip].ttl \in 1 .. ArpEntryTtl
  /\ \A ip \in DOMAIN interface.waiting_response :
       interface.waiting_response[ip] \in 1 .. ArpResponseTtl
=============================================================================
