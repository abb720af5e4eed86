---------------------------- MODULE EthernetAdapter ----------------------------
(***************************************************************************)
(* TCPOverIPv4OverEthernetAdapter (tuntap_adapter.cc): TCP segments in     *)
(* IPv4 datagrams in Ethernet frames, through a NetworkInterface.  Two     *)
(* hosts on one link, the server's adapter listening, write numbered       *)
(* segments to each other; the link keeps frames in order and may lose     *)
(* some.  The client's first segment is its SYN.                           *)
(***************************************************************************)
EXTENDS NetworkInterface, FdAdapter

CONSTANTS MaxSegments, MaxTime, MaxLosses

VARIABLES host,    \* of each host the adapter, what it wrote and what it read
          link,    \* the frames on their way to each host
          lost

vars == <<host, link, lost>>

Host == {"client", "server"}

Other(h) == IF h = "client" THEN "server" ELSE "client"

\* The frame that the constructor sends to prime the device.
dummy_frame == [type |-> "none", src |-> NoMac, dst |-> NoMac, ok |-> TRUE]

\* The server is bound to no address, and so far to no peer.
Adapter(h) ==
  IF h = "client" THEN NewAdapter(Endpoint("client", 1000), Endpoint("server", 80), FALSE)
  ELSE NewAdapter(Endpoint("0", 80), Endpoint("0", 0), TRUE)

\* A host has its name for its IP address and, marked, for its Ethernet address.
Init ==
  /\ host = [h \in Host |->
       [adapter |-> Adapter(h), nic |-> NewInterface(<<h>>, h), written |-> 0, read |-> << >>]]
  /\ link = [h \in Host |-> <<dummy_frame>>]
  /\ lost = 0

\* Faulty variant: the last frame first.
send_pending_reversed(h, nic, queues) ==
  [queues EXCEPT ![Other(h)] =
     @ \o [k \in DOMAIN nic.frames_out |-> nic.frames_out[Len(nic.frames_out) + 1 - k]]]

\* All frames of the interface go out to the device, in order.
send_pending(h, nic, queues) == [queues EXCEPT ![Other(h)] = @ \o nic.frames_out]

\* The interface of h becomes nic, and what it has to send is sent.
Become(h, nic, rest, queues) ==
  /\ host' = [host EXCEPT ![h] = [rest EXCEPT !.nic = [nic EXCEPT !.frames_out = << >>]]]
  /\ link' = send_pending(h, nic, queues)

Write(h) ==
  /\ host[h].written < MaxSegments /\ ~ host[h].adapter.listening
  /\ LET n   == host[h].written + 1
         seg == [syn |-> n = 1, rst |-> FALSE, sport |-> 0, dport |-> 0, number |-> n]
     IN  Become(h, send_datagram(host[h].nic, wrap_tcp_in_ip(host[h].adapter, seg), Other(h)),
                [host[h] EXCEPT !.written = n], link)
  /\ UNCHANGED lost

\* The datagram, if there is one, unwrapped.
Unwrapped(a, dgrams) == IF dgrams = << >> THEN Nothing(a) ELSE unwrap_tcp_in_ip(a, dgrams[1])

Read(h) ==
  /\ link[h] # << >>
  /\ LET frame == Head(link[h])
         r     == Unwrapped(host[h].adapter, received_dgram(host[h].nic, frame))
     IN  Become(h, recv_frame(host[h].nic, frame),
                [host[h] EXCEPT !.adapter = r.adapter, !.read = @ \o r.seg],
                [link EXCEPT ![h] = Tail(@)])
  /\ UNCHANGED lost

Tick(h) ==
  /\ host[h].nic.time < MaxTime
  /\ Become(h, interface_tick(host[h].nic, 1), host[h], link)
  /\ UNCHANGED lost

Lose(h) ==
  /\ lost < MaxLosses /\ lost' = lost + 1
  /\ link[h] # << >> /\ link' = [link EXCEPT ![h] = Tail(@)]
  /\ UNCHANGED host

Done ==
  /\ \A h \in Host : link[h] = << >> /\ host[h].nic.time = MaxTime
  /\ \A h \in Host : host[h].written = MaxSegments \/ host[h].adapter.listening
  /\ UNCHANGED vars

Next == Done \/ \E h \in Host : Write(h) \/ Read(h) \/ Tick(h) \/ Lose(h)

Spec == Init /\ [][Next]_vars
-------------------------------------------------------------------------------
Numbers(dgrams) == [k \in DOMAIN dgrams |-> dgrams[k].seg.number]

\* The segments from h that wait for an address, and those on the link.
Waiting(h) ==
  LET queues == host[h].nic.pending_dgram
  IN  IF Other(h) \in DOMAIN queues THEN Numbers(queues[Other(h)]) ELSE << >>

OnLink(h) ==
  LET frames == SelectSeq(link[Other(h)], LAMBDA f : f.type = "IPv4")
  IN  Numbers([k \in DOMAIN frames |-> frames[k].dgram])

Got(h) == [k \in DOMAIN host[Other(h)].read |-> host[Other(h)].read[k].number]

\* Segments reach the other connection in the order in which they were
\* written, none twice: whether they waited for an address or not, and
\* however the ARP frames of both sides cross them.
InOrder ==
  \A h \in Host :
    LET all == Got(h) \o OnLink(h) \o Waiting(h)
    IN  \A i, j \in DOMAIN all : i < j => all[i] < all[j]

\* When the link loses nothing, neither do the adapters: every segment
\* written was read, is on the link, or waits for an address.
NothingDropped ==
  lost = 0 => \A h \in Host :
    Got(h) \o OnLink(h) \o Waiting(h) = [k \in 1 .. host[h].written |-> k]

\* While the link loses nothing, a segment waits for an address only while
\* frames are on the link: once they are read, all that was written was read.
NothingStranded ==
  lost = 0 /\ (\A h \in Host : link[h] = << >>) =>
    \A h \in Host : Len(Got(h)) = host[h].written
===============================================================================
