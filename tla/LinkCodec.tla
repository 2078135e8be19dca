----------------------------- MODULE LinkCodec -----------------------------
(***************************************************************************)
(* libsponge/tcp_helpers/{ethernet_header,ethernet_frame,arp_message}.cc:  *)
(* Ethernet frames and ARP messages as bytes.  An Ethernet address is a    *)
(* sequence of six bytes.                                                  *)
(***************************************************************************)
EXTENDS Codec

TYPE_ARP == 2054
TYPE_IPv4 == 2048
TYPE_ETHERNET == 1
OPCODE_REQUEST == 1
OPCODE_REPLY == 2

EthernetLayout == << Octets("dst", 6), Octets("src", 6), Number("type", 2) >>

\* EthernetHeader::parse() with EthernetFrame::parse(), which ignores that the
\* header was too short.
ethernet_frame_parse(buffer) ==
  LET read == ParseFields(Parser(buffer), EthernetLayout)
      zero == [i \in 1 .. 6 |-> 0]
  IN  IF Len(buffer) < 14
      THEN [result |-> "NoError", header |-> [dst |-> zero, src |-> zero, type |-> 0],
            payload |-> buffer]
      ELSE [result |-> read.p.error, header |-> read.fields, payload |-> read.p.buffer]

ethernet_frame_serialize(header, payload) == UnparseFields(header, EthernetLayout) \o payload

ARPFixedLayout ==
  << Number("hardware_type", 2), Number("protocol_type", 2),
     Number("hardware_address_size", 1), Number("protocol_address_size", 1),
     Number("opcode", 2) >>

ARPAddressLayout ==
  << Octets("sender_ethernet_address", 6), Number("sender_ip_address", 4),
     Octets("target_ethernet_address", 6), Number("target_ip_address", 4) >>

\* Slip: a message of any opcode is taken.
supported_any_opcode(m) ==
  /\ m.hardware_type = TYPE_ETHERNET /\ m.protocol_type = TYPE_IPv4
  /\ m.hardware_address_size = 6 /\ m.protocol_address_size = 4

supported(m) ==
  /\ m.hardware_type = TYPE_ETHERNET /\ m.protocol_type = TYPE_IPv4
  /\ m.hardware_address_size = 6 /\ m.protocol_address_size = 4
  /\ m.opcode \in {OPCODE_REQUEST, OPCODE_REPLY}

\* ARPMessage::parse(buffer): bytes after the message are ignored.
arp_parse(buffer) ==
  LET fixed == ParseFields(Parser(buffer), ARPFixedLayout)
      addresses == ParseFields(fixed.p, ARPAddressLayout)
  IN  CASE Len(buffer) < 28 -> [result |-> "PacketTooShort"]
        [] ~supported(fixed.fields) -> [result |-> "Unsupported"]
        [] OTHER -> [result |-> addresses.p.error,
                     message |-> [f \in DOMAIN fixed.fields \cup DOMAIN addresses.fields |->
                                    IF f \in DOMAIN fixed.fields THEN fixed.fields[f]
                                    ELSE addresses.fields[f]]]

arp_serialize(m) ==
  IF ~supported(m) THEN Thrown
  ELSE UnparseFields(m, ARPFixedLayout) \o UnparseFields(m, ARPAddressLayout)

ARPMessage(opcode, sender, target) ==
  [hardware_type |-> TYPE_ETHERNET, protocol_type |-> TYPE_IPv4,
   hardware_address_size |-> 6, protocol_address_size |-> 4, opcode |-> opcode,
   sender_ethernet_address |-> sender.mac, sender_ip_address |-> sender.ip,
   target_ethernet_address |-> target.mac, target_ip_address |-> target.ip]
=============================================================================
