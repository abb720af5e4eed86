--------------------------- MODULE NetworkInterface ---------------------------
(***************************************************************************)
(* class NetworkInterface (network_interface.hh, .cc): turns datagrams and *)
(* next hops into Ethernet frames, with the Address Resolution Protocol.   *)
(* An interface is a record of the class's members and a method an         *)
(* operator on it.  Datagrams are opaque; a frame holds a datagram or an   *)
(* ARP message, and ok says whether its payload parses.                    *)
(***************************************************************************)
EXTENDS Integers, Sequences

CONSTANTS TTL,        \* how long a mapping is kept, 30000 ms
          ARPTTL,     \* how long a request is not repeated, 5000 ms
          NoMac,      \* the address {0, 0, 0, 0, 0, 0}
          Broadcast   \* ETHERNET_BROADCAST

ASSUME InterfaceAssumption ==
  TTL \in Nat /\ ARPTTL \in Nat /\ ARPTTL <= TTL /\ NoMac # Broadcast

\* std::map: f with the value v for the key k, and f without the key k.
Insert(f, k, v) == [x \in DOMAIN f \union {k} |-> IF x = k THEN v ELSE f[x]]

Erase(f, k) == [x \in DOMAIN f \ {k} |-> f[x]]

NewInterface(mac, ip) ==
  [mac |-> mac, ip |-> ip, frames_out |-> << >>, time |-> 0,
   map |-> << >>, pending_ip |-> << >>, pending_dgram |-> << >>]

ARPFrame(src, dst, opcode, sender_ip, target_mac, target_ip) ==
  [type |-> "ARP", src |-> src, dst |-> dst, ok |-> TRUE, opcode |-> opcode,
   sender_mac |-> src, sender_ip |-> sender_ip,
   target_mac |-> target_mac, target_ip |-> target_ip]

IPv4Frame(src, dst, dgram) ==
  [type |-> "IPv4", src |-> src, dst |-> dst, ok |-> TRUE, dgram |-> dgram]

\* Faulty variant: a mapping is kept one unit too long.
Expired_late(ni, ip) == ip \in DOMAIN ni.map /\ ni.time - ni.map[ip].time > TTL + 1

Expired(ni, ip) == ip \in DOMAIN ni.map /\ ni.time - ni.map[ip].time > TTL

\* map(ip) drops the mapping if it has expired, and returns mac_of.
map_lookup(ni, ip) == IF Expired(ni, ip) THEN [ni EXCEPT !.map = Erase(@, ip)] ELSE ni

mac_of(ni, ip) ==
  IF ip \in DOMAIN ni.map /\ ~ Expired(ni, ip) THEN ni.map[ip].mac ELSE NoMac

send_arp(ni, ip) ==
  [ni EXCEPT !.frames_out =
     Append(@, ARPFrame(ni.mac, Broadcast, "request", ni.ip, NoMac, ip))]

\* Faulty variant: only the latest datagram is remembered.
Enqueue_latest(queues, ip, dgram) == Insert(queues, ip, <<dgram>>)

Enqueue(queues, ip, dgram) ==
  Insert(queues, ip, IF ip \in DOMAIN queues THEN Append(queues[ip], dgram) ELSE <<dgram>>)

\* Faulty variant: asks for every datagram.
MayAsk_always(ni, ip) == TRUE

\* No request for ip is pending, or the last one is old enough.
MayAsk(ni, ip) ==
  ip \in DOMAIN ni.pending_ip => ni.time - ni.pending_ip[ip] > ARPTTL

send_datagram(ni, dgram, next_hop) ==
  LET looked == map_lookup(ni, next_hop)
      mac    == mac_of(ni, next_hop)
      queued == [looked EXCEPT !.pending_dgram = Enqueue(@, next_hop, dgram)]
  IN  IF mac # NoMac
      THEN [looked EXCEPT !.frames_out = Append(@, IPv4Frame(ni.mac, mac, dgram))]
      ELSE IF MayAsk(ni, next_hop)
      THEN send_arp([queued EXCEPT !.pending_ip = Insert(@, next_hop, ni.time)], next_hop)
      ELSE queued

Learn(ni, ip, mac) == [ni EXCEPT !.map = Insert(@, ip, [mac |-> mac, time |-> ni.time])]

\* Faulty variant: the request stays pending.
Flush_pending(ni, ip, mac) ==
  IF ip \notin DOMAIN ni.pending_ip \/ ip \notin DOMAIN ni.pending_dgram THEN ni
  ELSE [ni EXCEPT
          !.pending_dgram = Erase(@, ip),
          !.frames_out    = @ \o [k \in DOMAIN ni.pending_dgram[ip] |->
                                    IPv4Frame(ni.mac, mac, ni.pending_dgram[ip][k])]]

\* The datagrams that waited for ip go out to mac, if a request was pending.
Flush(ni, ip, mac) ==
  LET waiting == IF ip \in DOMAIN ni.pending_dgram THEN ni.pending_dgram[ip] ELSE << >>
  IN  IF ip \notin DOMAIN ni.pending_ip THEN ni
      ELSE [ni EXCEPT
              !.pending_ip    = Erase(@, ip),
              !.pending_dgram = Erase(@, ip),
              !.frames_out    = @ \o [k \in DOMAIN waiting |->
                                        IPv4Frame(ni.mac, mac, waiting[k])]]

Answer(ni, msg) ==
  IF msg.opcode = "request" /\ msg.target_ip = ni.ip
  THEN [ni EXCEPT !.frames_out =
          Append(@, ARPFrame(ni.mac, msg.sender_mac, "reply", ni.ip,
                             msg.sender_mac, msg.sender_ip))]
  ELSE ni

\* The frame is for this interface and its payload parses.
Accepts(ni, frame) == frame.dst \in {ni.mac, Broadcast} /\ frame.ok

\* What recv_frame leaves behind; it returns received_dgram(ni, frame).
recv_frame(ni, frame) ==
  IF Accepts(ni, frame) /\ frame.type = "ARP"
  THEN LET learned == Learn(ni, frame.sender_ip, frame.sender_mac)
       IN  Answer(Flush(learned, frame.sender_ip, frame.sender_mac), frame)
  ELSE ni

\* The datagram as a sequence of length one, or nothing.
received_dgram(ni, frame) ==
  IF Accepts(ni, frame) /\ frame.type = "IPv4" THEN <<frame.dgram>> ELSE << >>

interface_tick(ni, ms) == [ni EXCEPT !.time = @ + ms]
===============================================================================
