------------------------------ MODULE WireFormat ------------------------------
(***************************************************************************)
(* The headers on the wire: TCPHeader and TCPSegment, IPv4Header and       *)
(* IPv4Datagram, EthernetHeader and EthernetFrame, ARPMessage.  parse      *)
(* gives the header, the parser behind it and the ParseResult.             *)
(***************************************************************************)
EXTENDS NetParser, FiniteSetsExt

TCPLayout ==
  << <<"sport", 2>>, <<"dport", 2>>, <<"seqno", 4>>, <<"ackno", 4>>, <<"offset_byte", 1>>,
     <<"flag_byte", 1>>, <<"win", 2>>, <<"cksum", 2>>, <<"uptr", 2>> >>

\* The flags with their bits.
FlagBit == [urg |-> 5, ack |-> 4, psh |-> 3, rst |-> 2, syn |-> 1, fin |-> 0]

TCPHeader(h) ==
  [sport |-> h.sport, dport |-> h.dport, seqno |-> h.seqno, ackno |-> h.ackno,
   doff |-> h.offset_byte \div 16, flags |-> {f \in DOMAIN FlagBit : Bit(h.flag_byte, FlagBit[f])},
   win |-> h.win, cksum |-> h.cksum, uptr |-> h.uptr]

tcp_header_parse(p) ==
  LET r    == parse_fields(p, TCPLayout)
      h    == TCPHeader(r.h)
      rest == remove_prefix(r.p, 4 * h.doff - 20)
  IN  IF h.doff < 5 THEN [h |-> h, p |-> r.p, result |-> "HeaderTooShort"]
      ELSE [h |-> h, p |-> rest, result |-> rest.error]

\* ret.resize(len): the header expanded to the size that it advertises.
Resize(octets, len) == octets \o Zeros(len - Len(octets))

tcp_header_serialize(h) ==
  LET bytes == [offset_byte |-> h.doff * 16,
                flag_byte   |-> MapThenSumSet(LAMBDA f : 2^FlagBit[f], h.flags)]
  IN  Resize(unparse_fields(bytes @@ h, TCPLayout), 4 * h.doff)

\* TCPSegment::parse, which returns the parser's error and not the header's.
tcp_segment_parse(octets, pseudo) ==
  LET r == tcp_header_parse(NewParser(octets))
  IN  IF value(add(InternetChecksum(pseudo), octets)) # 0
      THEN [result |-> "BadChecksum"]
      ELSE [result |-> r.p.error, h |-> r.h, payload |-> r.p.buffer]

tcp_segment_serialize(h, payload, pseudo) ==
  LET cksum == value(add(add(InternetChecksum(pseudo),
                             tcp_header_serialize([h EXCEPT !.cksum = 0])), payload))
  IN  tcp_header_serialize([h EXCEPT !.cksum = cksum]) \o payload
-------------------------------------------------------------------------------
IPv4Layout ==
  << <<"first_byte", 1>>, <<"tos", 1>>, <<"len", 2>>, <<"id", 2>>, <<"fo_val", 2>>,
     <<"ttl", 1>>, <<"proto", 1>>, <<"cksum", 2>>, <<"src", 4>>, <<"dst", 4>> >>

IPv4Header(h) ==
  [ver |-> h.first_byte \div 16, hlen |-> h.first_byte % 16, tos |-> h.tos, len |-> h.len,
   id |-> h.id, df |-> Bit(h.fo_val, 14), mf |-> Bit(h.fo_val, 13), offset |-> h.fo_val % 2^13,
   ttl |-> h.ttl, proto |-> h.proto, cksum |-> h.cksum, src |-> h.src, dst |-> h.dst]

\* The header that a datagram has before it is parsed.
NoIPv4Header ==
  [ver |-> 4, hlen |-> 5, tos |-> 0, len |-> 0, id |-> 0, df |-> TRUE, mf |-> FALSE,
   offset |-> 0, ttl |-> 128, proto |-> 6, cksum |-> 0, src |-> Zeros(4), dst |-> Zeros(4)]

\* The tests of the header h of a buffer, in their order: the first that
\* fails gives the result.
IPv4Result(h, buffer) ==
  LET size  == Len(buffer)
      check == InternetChecksum(0)
      tests == << <<size < 4 * h.hlen, "PacketTooShort">>, <<h.ver # 4, "WrongIPVersion">>,
                  <<h.hlen < 5, "HeaderTooShort">>, <<size # h.len, "TruncatedPacket">>,
                  <<size >= 4 * h.hlen /\ value(add(check, SubSeq(buffer, 1, 4 * h.hlen))) # 0,
                    "BadChecksum">> >>
      failed == SelectSeq(tests, LAMBDA t : t[1])
  IN  IF failed = << >> THEN "NoError" ELSE failed[1][2]

\* The options are removed once the tests before the checksum have passed.
ipv4_header_parse(p) ==
  LET r      == parse_fields(p, IPv4Layout)
      h      == IPv4Header(r.h)
      rest   == remove_prefix(r.p, 4 * h.hlen - 20)
      result == IPv4Result(h, p.buffer)
  IN  IF Len(p.buffer) < 20 THEN [h |-> NoIPv4Header, p |-> p, result |-> "PacketTooShort"]
      ELSE [h |-> h, result |-> result,
            p |-> IF result \in {"NoError", "BadChecksum"} THEN rest ELSE r.p]

ipv4_header_serialize(h) ==
  LET bytes == [first_byte |-> h.ver * 16 + h.hlen,
                fo_val |-> (IF h.df THEN 2^14 ELSE 0) + (IF h.mf THEN 2^13 ELSE 0) + h.offset]
  IN  Resize(unparse_fields(bytes @@ h, IPv4Layout), 4 * h.hlen)

payload_length(h) == (h.len - 4 * h.hlen) % 65536

\* The two halves of an address.
Halves(a) == Value(<<a[1], a[2]>>) + Value(<<a[3], a[4]>>)

pseudo_cksum(h) == Halves(h.src) + Halves(h.dst) + h.proto + payload_length(h)

\* IPv4Datagram::parse does not look at what IPv4Header::parse returns.
ipv4_datagram_parse(octets) ==
  LET r == ipv4_header_parse(NewParser(octets))
  IN  [h |-> r.h, payload |-> r.p.buffer,
       result |-> IF Len(r.p.buffer) # payload_length(r.h) THEN "PacketTooShort" ELSE r.p.error]

ipv4_datagram_serialize(h, payload) ==
  LET cksum == value(add(InternetChecksum(0), ipv4_header_serialize([h EXCEPT !.cksum = 0])))
  IN  ipv4_header_serialize([h EXCEPT !.cksum = cksum]) \o payload
-------------------------------------------------------------------------------
ARPLayout ==
  << <<"hardware_type", 2>>, <<"protocol_type", 2>>, <<"hardware_address_size", 1>>,
     <<"protocol_address_size", 1>>, <<"opcode", 2>>, <<"sender_ethernet_address", 6>>,
     <<"sender_ip_address", 4>>, <<"target_ethernet_address", 6>>, <<"target_ip_address", 4>> >>

TYPE_IPv4 == 2048
TYPE_ARP == 2054

supported(m) ==
  /\ m.hardware_type = 1 /\ m.protocol_type = TYPE_IPv4
  /\ m.hardware_address_size = 6 /\ m.protocol_address_size = 4
  /\ m.opcode \in {1, 2}

arp_parse(octets) ==
  LET m == parse_fields(NewParser(octets), ARPLayout).h
  IN  IF Len(octets) < 28 THEN [result |-> "PacketTooShort"]
      ELSE IF ~ supported(m) THEN [result |-> "Unsupported"]
      ELSE [result |-> "NoError", m |-> m]

arp_serialize(m) == unparse_fields(m, ARPLayout)
-------------------------------------------------------------------------------
EthernetLayout == << <<"dst", 6>>, <<"src", 6>>, <<"type", 2>> >>

NoEthernetHeader == [dst |-> Zeros(6), src |-> Zeros(6), type |-> 0]

\* Of a buffer too short nothing is read, and the parser has no error.
ethernet_header_parse(p) ==
  LET r == parse_fields(p, EthernetLayout)
  IN  IF Len(p.buffer) < 14 THEN [h |-> NoEthernetHeader, p |-> p, result |-> "PacketTooShort"]
      ELSE [h |-> r.h, p |-> r.p, result |-> r.p.error]

ethernet_header_serialize(h) == unparse_fields(h, EthernetLayout)

\* EthernetFrame::parse too drops the result of the header.
ethernet_frame_parse(octets) ==
  LET r == ethernet_header_parse(NewParser(octets))
  IN  [h |-> r.h, payload |-> r.p.buffer, result |-> r.p.error]

ethernet_frame_serialize(h, payload) == ethernet_header_serialize(h) \o payload
===============================================================================
