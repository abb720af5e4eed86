------------------------------- MODULE WireSpec -------------------------------
(***************************************************************************)
(* A frame on its way: a TCP segment in an IPv4 datagram in an Ethernet    *)
(* frame, or an ARP message in one, is serialized, the link changes one    *)
(* octet or cuts the frame short, or neither, and the receiving side       *)
(* parses what it gets, layer by layer.                                    *)
(***************************************************************************)
EXTENDS WireFormat

CONSTANTS Messages,    \* what is sent: records of the fields that vary
          Changes      \* what may be added to an octet, modulo 256

ASSUME WireAssumption == Changes \subseteq 1 .. 255

VARIABLES sent,    \* the message
          wire,    \* the frame
          damage,  \* "none", "changed" or "cut", with the place
          got      \* what the receiving side made of it

vars == <<sent, wire, damage, got>>

\* The TCP header of a message, and the datagram's: wrap_tcp_in_ip.
Segment(m) ==
  [sport |-> m.sport, dport |-> m.dport, seqno |-> m.seqno, ackno |-> m.ackno, doff |-> m.doff,
   flags |-> m.flags, win |-> m.win, cksum |-> 0, uptr |-> 0]

Datagram(m) ==
  [NoIPv4Header EXCEPT !.src = m.src, !.dst = m.dst, !.ttl = m.ttl,
                       !.len = 20 + 4 * m.doff + Len(m.payload)]

EthernetHeader(m, type) == [dst |-> m.dst_mac, src |-> m.src_mac, type |-> type]

SerializedSegment(m, dgram) == tcp_segment_serialize(Segment(m), m.payload, pseudo_cksum(dgram))

Frame(m) ==
  IF m.kind = "arp" THEN ethernet_frame_serialize(EthernetHeader(m, TYPE_ARP), arp_serialize(m.arp))
  ELSE ethernet_frame_serialize(EthernetHeader(m, TYPE_IPv4),
         ipv4_datagram_serialize(Datagram(m), SerializedSegment(m, Datagram(m))))

Waiting == [kind |-> "waiting"]
Nothing == [kind |-> "none"]

\* What a message is to those who receive it.
Content(m) ==
  IF m.kind = "arp" THEN [kind |-> "arp", arp |-> m.arp]
  ELSE [kind |-> "tcp", src |-> m.src, dst |-> m.dst, h |-> Segment(m), payload |-> m.payload]

FromSegment(d, seg) ==
  IF seg.result # "NoError" THEN Nothing
  ELSE [kind |-> "tcp", src |-> d.h.src, dst |-> d.h.dst,
        h |-> [seg.h EXCEPT !.cksum = 0], payload |-> seg.payload]

FromDatagram(d) ==
  IF d.result # "NoError" \/ d.h.proto # 6 THEN Nothing
  ELSE FromSegment(d, tcp_segment_parse(d.payload, pseudo_cksum(d.h)))

FromARP(m) == IF m.result # "NoError" THEN Nothing ELSE [kind |-> "arp", arp |-> m.m]

\* recv_frame and unwrap_tcp_in_ip, as far as parsing goes.
FromFrame(f) ==
  CASE f.result = "NoError" /\ f.h.type = TYPE_ARP  -> FromARP(arp_parse(f.payload))
    [] f.result = "NoError" /\ f.h.type = TYPE_IPv4 -> FromDatagram(ipv4_datagram_parse(f.payload))
    [] OTHER -> Nothing

Init ==
  /\ sent \in Messages /\ wire = Frame(sent)
  /\ damage = [kind |-> "none", at |-> 0] /\ got = Waiting

Change(i, d) ==
  /\ got = Waiting /\ damage.kind = "none"
  /\ wire' = [wire EXCEPT ![i] = (@ + d) % 256]
  /\ damage' = [kind |-> "changed", at |-> i]
  /\ UNCHANGED <<sent, got>>

Cut(n) ==
  /\ got = Waiting /\ damage.kind = "none"
  /\ wire' = SubSeq(wire, 1, n) /\ damage' = [kind |-> "cut", at |-> n]
  /\ UNCHANGED <<sent, got>>

Parse ==
  /\ got = Waiting /\ got' = FromFrame(ethernet_frame_parse(wire))
  /\ UNCHANGED <<sent, wire, damage>>

Done == got # Waiting /\ UNCHANGED vars

Next ==
  \/ \E i \in DOMAIN wire, d \in Changes : Change(i, d)
  \/ \E n \in 0 .. Len(wire) - 1 : Cut(n)
  \/ Parse \/ Done

Spec == Init /\ [][Next]_vars
-------------------------------------------------------------------------------
Arrived == got # Waiting

===============================================================================
