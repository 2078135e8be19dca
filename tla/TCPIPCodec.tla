---------------------------- MODULE TCPIPCodec ----------------------------
(***************************************************************************)
(* libsponge/tcp_helpers/{tcp_header,tcp_segment,ipv4_header,              *)
(* ipv4_datagram,tcp_over_ip}.cc: TCP segments in IPv4 datagrams, as       *)
(* bytes.  Here a header has all of its fields.                            *)
(***************************************************************************)
EXTENDS Codec, FdAdapter
LOCAL INSTANCE Functions
LOCAL INSTANCE TLC

TCPHeaderLength == 20
PROTO_TCP == 6

NewTCPHeader ==
  [sport |-> 0, dport |-> 0, seqno |-> 0, ackno |-> 0, doff |-> TCPHeaderLength \div 4,
   urg |-> FALSE, ack |-> FALSE, psh |-> FALSE, rst |-> FALSE, syn |-> FALSE,
   fin |-> FALSE, win |-> 0, cksum |-> 0, uptr |-> 0]

FlagBit == [fin |-> 1, syn |-> 2, rst |-> 4, psh |-> 8, ack |-> 16, urg |-> 32]

HasBit(n, bit) == (n \div bit) % 2 = 1

TCPLayout ==
  << Number("sport", 2), Number("dport", 2), Number("seqno", 4), Number("ackno", 4),
     Number("off_b", 1), Number("fl_b", 1), Number("win", 2), Number("cksum", 2),
     Number("uptr", 2) >>

TCPHeaderFrom(wire) ==
  [f \in DOMAIN NewTCPHeader |->
     CASE f = "doff" -> wire.off_b \div 16
       [] f \in DOMAIN FlagBit -> HasBit(wire.fl_b, FlagBit[f])
       [] OTHER -> wire[f]]

Parsed(header, p, result) == [header |-> header, p |-> p, result |-> result]

\* TCPHeader::parse(p): the header, what is left in the parser and the result.
SkipTCPOptions(header, p) ==
  IF header.doff < 5 THEN Parsed(header, p, "HeaderTooShort")
  ELSE LET rest == remove_prefix(p, 4 * header.doff - TCPHeaderLength)
       IN  Parsed(header, rest, rest.error)

tcp_header_parse(p) ==
  LET read == ParseFields(p, TCPLayout)
  IN  SkipTCPOptions(TCPHeaderFrom(read.fields), read.p)

\* TCPHeader::serialize(): the options, if doff leaves room for any, are zero.
tcp_header_serialize(h) ==
  LET fl_b == SumFunctionOnSet(FlagBit, {f \in DOMAIN FlagBit : h[f]})
      packed == h @@ [off_b |-> (h.doff * 16) % Radix, fl_b |-> fl_b]
  IN  IF h.doff < 5 THEN Thrown
      ELSE Resized(UnparseFields(packed, TCPLayout), 4 * h.doff)

\* The result of TCPSegment::parse() is the parser's, whatever the header's
\* parse() returned.
HeaderAndRest(parsed) ==
  [result |-> parsed.p.error, header |-> parsed.header, payload |-> parsed.p.buffer]

\* Slip: the payload is not summed.
tcp_segment_parse_header_only(buffer, datagram_layer_checksum) ==
  LET summed == add(Checksum(datagram_layer_checksum), SubSeq(buffer, 1, TCPHeaderLength))
  IN  IF value(summed) # 0 THEN [result |-> "BadChecksum"]
      ELSE HeaderAndRest(tcp_header_parse(Parser(buffer)))

\* TCPSegment::parse(buffer, datagram_layer_checksum)
tcp_segment_parse(buffer, datagram_layer_checksum) ==
  IF value(add(Checksum(datagram_layer_checksum), buffer)) # 0
  THEN [result |-> "BadChecksum"]
  ELSE HeaderAndRest(tcp_header_parse(Parser(buffer)))

\* TCPSegment::serialize(datagram_layer_checksum)
tcp_segment_serialize(header, payload, datagram_layer_checksum) ==
  LET unsummed == tcp_header_serialize([header EXCEPT !.cksum = 0])
      check == add(add(Checksum(datagram_layer_checksum), unsummed), payload)
  IN  tcp_header_serialize([header EXCEPT !.cksum = value(check)]) \o payload

IPv4HeaderLength == 20

NewIPv4Header ==
  [ver |-> 4, hlen |-> IPv4HeaderLength \div 4, tos |-> 0, len |-> 0, id |-> 0,
   df |-> TRUE, mf |-> FALSE, offset |-> 0, ttl |-> 128, proto |-> PROTO_TCP,
   cksum |-> 0, src |-> 0, dst |-> 0]

IPv4Layout ==
  << Number("first_byte", 1), Number("tos", 1), Number("len", 2), Number("id", 2),
     Number("fo_val", 2), Number("ttl", 1), Number("proto", 1), Number("cksum", 2),
     Number("src", 4), Number("dst", 4) >>

IPv4HeaderFrom(wire) ==
  [f \in DOMAIN NewIPv4Header |->
     CASE f = "ver" -> wire.first_byte \div 16
       [] f = "hlen" -> wire.first_byte % 16
       [] f = "df" -> HasBit(wire.fo_val, 2 ^ 14)
       [] f = "mf" -> HasBit(wire.fo_val, 2 ^ 13)
       [] f = "offset" -> wire.fo_val % 2 ^ 13
       [] OTHER -> wire[f]]

\* IPv4Header::parse(p).  Every early return leaves the parser without error,
\* and the options, if any, in its buffer.
CheckIPv4Header(header, rest, packet) ==
  IF Len(packet) < 4 * header.hlen THEN Parsed(header, rest, "PacketTooShort")
  ELSE IF header.ver # 4 THEN Parsed(header, rest, "WrongIPVersion")
  ELSE IF header.hlen < 5 THEN Parsed(header, rest, "HeaderTooShort")
  ELSE IF Len(packet) # header.len THEN Parsed(header, rest, "TruncatedPacket")
  ELSE Parsed(header, remove_prefix(rest, 4 * header.hlen - IPv4HeaderLength),
              IF value(add(Checksum(0), SubSeq(packet, 1, 4 * header.hlen))) # 0
              THEN "BadChecksum" ELSE "NoError")

ipv4_header_parse(p) ==
  IF Len(p.buffer) < IPv4HeaderLength THEN Parsed(NewIPv4Header, p, "PacketTooShort")
  ELSE LET read == ParseFields(p, IPv4Layout)
       IN  CheckIPv4Header(IPv4HeaderFrom(read.fields), read.p, p.buffer)

\* IPv4Header::serialize()
ipv4_header_serialize(h) ==
  LET packed == h @@ [first_byte |-> h.ver * 16 + (h.hlen % 16),
                      fo_val |-> (IF h.df THEN 2 ^ 14 ELSE 0) + (IF h.mf THEN 2 ^ 13 ELSE 0)
                                   + (h.offset % 2 ^ 13)]
  IN  IF h.ver # 4 \/ 4 * h.hlen < IPv4HeaderLength THEN Thrown
      ELSE Resized(UnparseFields(packed, IPv4Layout), 4 * h.hlen)

\* payload_length(), a 16-bit difference.
payload_length(h) == (h.len - 4 * h.hlen) % Word

HalvesOf(address) == ((address \div Word) % Word) + (address % Word)

pseudo_cksum(h) == HalvesOf(h.src) + HalvesOf(h.dst) + h.proto + payload_length(h)

\* IPv4Datagram::parse(buffer): it too returns the parser's result.
CheckLength(dgram) ==
  IF Len(dgram.payload) = payload_length(dgram.header) THEN dgram
  ELSE [dgram EXCEPT !.result = "PacketTooShort"]

ipv4_datagram_parse(buffer) ==
  CheckLength(HeaderAndRest(ipv4_header_parse(Parser(buffer))))

\* IPv4Datagram::serialize()
ipv4_datagram_serialize(header, payload) ==
  LET unsummed == ipv4_header_serialize([header EXCEPT !.cksum = 0])
      cksum == value(add(Checksum(0), unsummed))
  IN  IF Len(payload) # payload_length(header) THEN Thrown
      ELSE ipv4_header_serialize([header EXCEPT !.cksum = cksum]) \o payload

\* The datagram's fields that wrap_tcp_in_ip() sets, and the segment in it.
wrap_tcp_in_ip(a, header, payload) ==
  LET ip == [NewIPv4Header EXCEPT
               !.src = a.source.ip, !.dst = a.destination.ip,
               !.len = IPv4HeaderLength + 4 * header.doff + Len(payload)]
      out == [header EXCEPT !.sport = a.source.port, !.dport = a.destination.port]
  IN  [header |-> ip, payload |-> tcp_segment_serialize(out, payload, pseudo_cksum(ip))]

\* TCPOverIPv4OverTunFdAdapter's write() and read(), as bytes: the segments
\* read are none or one.
tun_write(a, header, payload) ==
  LET dgram == wrap_tcp_in_ip(a, header, payload)
  IN  ipv4_datagram_serialize(dgram.header, dgram.payload)

Addressed(ip, header) ==
  Packet([ip |-> ip.src, port |-> header.sport], [ip |-> ip.dst, port |-> header.dport],
         header)

SegmentIn(a, ip, seg) ==
  IF seg.result = "NoError" /\ Accepts(a, Addressed(ip, seg.header))
  THEN {[header |-> [seg.header EXCEPT !.cksum = 0], payload |-> seg.payload]}
  ELSE {}

unwrap_tcp_in_ip(a, dgram) ==
  IF dgram.header.proto # PROTO_TCP THEN {}
  ELSE SegmentIn(a, dgram.header,
                 tcp_segment_parse(dgram.payload, pseudo_cksum(dgram.header)))

SegmentsIn(a, dgram) ==
  IF dgram.result = "NoError" THEN unwrap_tcp_in_ip(a, dgram) ELSE {}

tun_read(a, bytes) == SegmentsIn(a, ipv4_datagram_parse(bytes))
=============================================================================
