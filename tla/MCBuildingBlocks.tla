-------------------------- MODULE MCBuildingBlocks --------------------------
(***************************************************************************)
(* TLC's instance of the parts the others are built from.  A behaviour is  *)
(* about one of them: the ByteStream and its buffers, the wrapping numbers *)
(* as the checkpoint sweeps, a NetworkInterface, an EventLoop that copies  *)
(* streams, or one input of a pure function, which is the route lookup of  *)
(* Router or one of the codecs.                                            *)
(***************************************************************************)
EXTENDS BufferList, WrappingInt32Spec, NetworkInterfaceSpec, Router,
        TCPIPCodec, LinkCodec, StreamCopySpec

VARIABLES
  part,     \* what the behaviour is about
  sample    \* the input of a pure function

mcvars == <<vars, list, wrap_vars, interface, copy_vars, part, sample>>

ThreeBytes == [i \in 1 .. 3 |-> i]

AllAddresses == 0 .. 2 ^ AddressBits - 1
AllRoutes == {Route(p, l, Direct, 1) : p \in AllAddresses, l \in 0 .. AddressBits}

\* Fields at their limits, every flag, and options; payloads of odd length.
Headers ==
  { [NewTCPHeader EXCEPT !.syn = TRUE, !.seqno = -1, !.win = 65535],
    [NewTCPHeader EXCEPT !.rst = TRUE, !.syn = TRUE, !.ack = TRUE, !.ackno = 2 ^ 24,
                         !.win = 255, !.uptr = 513],
    [NewTCPHeader EXCEPT !.fin = TRUE, !.psh = TRUE, !.urg = TRUE, !.doff = 6] }
Payloads == {<<>>, <<255>>, <<0, 0, 7>>}
At(ip, port) == [ip |-> ip, port |-> port]
Pairs == {<<At(10, 80), At(2 ^ 30 + 255, 65535)>>, <<At(-65536, 0), At(65536, 1)>>}

Macs == {[i \in 1 .. 6 |-> 255], [i \in 1 .. 6 |-> 0], [i \in 1 .. 6 |-> 40 * i]}
Hosts == {[mac |-> mac, ip |-> ip] : mac \in Macs, ip \in {0, -2 ^ 30 - 1, 2 ^ 24 + 513}}

Samples ==
  [route |-> {[table |-> <<first, second>>, dst |-> dst] :
                first \in AllRoutes, second \in AllRoutes, dst \in AllAddresses},
   segment |-> {[pair |-> pair, header |-> header, payload |-> payload] :
                  pair \in Pairs, header \in Headers, payload \in Payloads},
   message |-> {ARPMessage(opcode, sender, target) :
                  opcode \in {OPCODE_REQUEST, OPCODE_REPLY}, sender \in Hosts,
                  target \in Hosts}]

MCInit ==
  /\ BuffersInit /\ IfInit /\ CopyInit
  /\ \/ /\ part \in {"stream", "interface", "copy"} /\ sample = "none"
        /\ n = 0 /\ isn = 0 /\ checkpoint = 0
     \/ part = "wrap" /\ sample = "none" /\ WrapInit
     \/ /\ part \in DOMAIN Samples /\ sample \in Samples[part]
        /\ n = 0 /\ isn = 0 /\ checkpoint = 0
  /\ part # "copy" => copy.kind = "pipe"

MCNext ==
  /\ UNCHANGED <<part, sample>>
  /\ \/ part = "stream" /\ BuffersNext /\ UNCHANGED <<wrap_vars, interface, copy_vars>>
     \/ part = "wrap" /\ Sweep /\ UNCHANGED <<vars, list, interface, copy_vars>>
     \/ part = "interface" /\ IfNext /\ UNCHANGED <<vars, list, wrap_vars, copy_vars>>
     \/ part = "copy" /\ CopyNext /\ UNCHANGED <<vars, list, wrap_vars, interface>>

MCSpec == MCInit /\ [][MCNext]_mcvars /\ CopyFairness

-----------------------------------------------------------------------------
Bit(address, i) == (address \div 2 ^ (AddressBits - i)) % 2

\* The route chosen for an address agrees with it in each bit of its prefix, no
\* longer prefix does, and among equals the route that was added first is
\* chosen; there is none only if no prefix fits (router.cc:45).
LongestPrefixWins ==
  part = "route" =>
    LET table == sample.table
        Fits(i) == \A k \in 1 .. table[i].prefix_length :
                     Bit(table[i].route_prefix, k) = Bit(sample.dst, k)
        chosen == match_entry(table, sample.dst)
    IN  /\ chosen = 0 <=> ~Fits(1) /\ ~Fits(2)
        /\ chosen # 0 =>
             /\ Fits(chosen)
             /\ \A i \in 1 .. 2 : Fits(i) =>
                  \/ table[i].prefix_length < table[chosen].prefix_length
                  \/ table[i].prefix_length = table[chosen].prefix_length /\ chosen <= i

Datagram == tun_write(NewAdapter("ip", sample.pair[1], sample.pair[2], FALSE),
                      sample.header, sample.payload)

Sent == {[header |-> [sample.header EXCEPT !.sport = sample.pair[1].port,
                                           !.dport = sample.pair[2].port],
          payload |-> sample.payload]}

\* A segment that one adapter writes is the segment that its peer's adapter
\* reads: through both headers, the bits of the flags, the options and the two
\* checksums.  A listening adapter reads it if it opens a connection.  One
\* damaged byte never changes what a connected adapter reads: the datagram is
\* dropped, or the byte did not matter.  That is so although
\* IPv4Datagram::parse() ignores that the header was refused, for its version,
\* its length or its checksum: what is left to protect the connection is the
\* length of the payload and the segment's checksum with its pseudo-header.
SegmentSurvivesWire ==
  part = "segment" =>
    LET reader(listening) ==
          NewAdapter("ip", sample.pair[2], sample.pair[1], listening)
    IN  /\ tun_read(reader(FALSE), Datagram) = Sent
        /\ tun_read(reader(TRUE), Datagram) = IF Opens(sample.header) THEN Sent ELSE {}
        /\ \A i \in 1 .. Len(Datagram), change \in {1, 16, 255} :
             tun_read(reader(FALSE), [Datagram EXCEPT ![i] = (@ + change) % Radix])
               \subseteq Sent

\* The ARP messages, none or one, that NetworkInterface::recv_frame() finds.
MessagesIn(bytes) ==
  LET frame == ethernet_frame_parse(bytes)
      arp == arp_parse(frame.payload)
  IN  IF frame.result = "NoError" /\ frame.header.type = TYPE_ARP /\ arp.result = "NoError"
      THEN {arp.message} ELSE {}

\* What one interface puts into a frame is what the other finds in it, for
\* every ARP message and behind padding.  A frame that is cut short anywhere, in
\* its own header (EthernetFrame::parse() ignores that) or in the message, or is
\* damaged in a field that says what it holds, holds no message.
MessageSurvivesWire ==
  part = "message" =>
    LET header == [dst |-> sample.target_ethernet_address,
                   src |-> sample.sender_ethernet_address, type |-> TYPE_ARP]
        bytes == ethernet_frame_serialize(header, arp_serialize(sample))
    IN  /\ ethernet_frame_parse(bytes).header = header
        /\ MessagesIn(bytes \o <<6, 1>>) = {sample}
        /\ \A k \in 0 .. Len(bytes) - 1 : MessagesIn(SubSeq(bytes, 1, k)) = {}
        /\ \A i \in 13 .. 21, change \in {1, 16, 255} :
             MessagesIn([bytes EXCEPT ![i] = (@ + change) % Radix]) = {}
=============================================================================
