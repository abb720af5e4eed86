------------------------------- MODULE FdAdapter -------------------------------
(***************************************************************************)
(* The adapters between a TCPConnection and a datagram service: TCP in UDP *)
(* (fd_adapter.cc), TCP in IPv4 (tcp_over_ip.cc, tuntap_adapter.hh), and   *)
(* LossyFdAdapter around either.  An adapter is a record of FdAdapterBase; *)
(* an endpoint is an address with a port.  A datagram has the addresses of *)
(* its carrier (endpoints for UDP, IP addresses for IPv4), proto, and a    *)
(* segment seg; valid says whether the segment parses with its checksum.   *)
(* A read gives the adapter as it is left and the segment it returns, if   *)
(* any, as a sequence.                                                     *)
(***************************************************************************)
EXTENDS Integers, Sequences

Endpoint(ip, port) == [ip |-> ip, port |-> port]

\* FdAdapterConfig and _listen.
NewAdapter(source, destination, listening) ==
  [source |-> source, destination |-> destination, listening |-> listening]

Nothing(a) == [adapter |-> a, seg |-> << >>]

\* The segment that a listening adapter waits for.
Opens(seg) == seg.syn /\ ~ seg.rst

\* Faulty variant: goes on listening, and takes the next SYN for its peer.
Bind_listening(a, source, destination) ==
  [a EXCEPT !.source = source, !.destination = destination]

\* From now on this is our address, and that our peer.
Bind(a, source, destination) ==
  [a EXCEPT !.source = source, !.destination = destination, !.listening = FALSE]

\* Faulty variant: a bound adapter takes segments from everybody.
udp_read_any(a, d) ==
  IF ~ d.valid \/ (a.listening /\ ~ Opens(d.seg)) THEN Nothing(a)
  ELSE [adapter |-> IF a.listening THEN Bind(a, a.source, d.src) ELSE a, seg |-> <<d.seg>>]

\* Faulty variant: the source is compared while the adapter listens, too.
udp_read_bound(a, d) ==
  IF d.src # a.destination \/ ~ d.valid \/ (a.listening /\ ~ Opens(d.seg)) THEN Nothing(a)
  ELSE [adapter |-> IF a.listening THEN Bind(a, a.source, d.src) ELSE a, seg |-> <<d.seg>>]

\* TCPOverUDPSocketAdapter::read.
udp_read(a, d) ==
  IF \/ ~ a.listening /\ d.src # a.destination
     \/ ~ d.valid
     \/ a.listening /\ ~ Opens(d.seg)
  THEN Nothing(a)
  ELSE [adapter |-> IF a.listening THEN Bind(a, a.source, d.src) ELSE a, seg |-> <<d.seg>>]

Stamped(a, seg) ==
  [seg EXCEPT !.sport = a.source.port, !.dport = a.destination.port]

\* TCPOverUDPSocketAdapter::write: the kernel puts the socket's own endpoint.
udp_write(a, seg, own) ==
  [src |-> own, dst |-> a.destination, proto |-> "UDP", valid |-> TRUE, seg |-> Stamped(a, seg)]

\* Faulty variant: the peer's address is not looked at.
FromPeer_any(a, d) == ~ a.listening => d.dst = a.source.ip

\* The first two tests of unwrap_tcp_in_ip.
FromPeer(a, d) == ~ a.listening => d.dst = a.source.ip /\ d.src = a.destination.ip

\* The address that the peer contacted, with our port.
Contacted(a, d) == Endpoint(d.dst, a.source.port)

\* TCPOverIPv4Adapter::unwrap_tcp_in_ip.
unwrap_tcp_in_ip(a, d) ==
  LET after == IF a.listening
               THEN Bind(a, Contacted(a, d), Endpoint(d.src, d.seg.sport)) ELSE a
  IN  IF \/ ~ FromPeer(a, d) \/ d.proto # "TCP" \/ ~ d.valid
         \/ d.seg.dport # a.source.port
         \/ a.listening /\ ~ Opens(d.seg)
      THEN Nothing(a)
      ELSE [adapter |-> after,
            seg |-> IF d.seg.sport = after.destination.port THEN <<d.seg>> ELSE << >>]

\* TCPOverIPv4Adapter::wrap_tcp_in_ip.
wrap_tcp_in_ip(a, seg) ==
  [src |-> a.source.ip, dst |-> a.destination.ip, proto |-> "TCP", valid |-> TRUE,
   seg |-> Stamped(a, seg)]

\* LossyFdAdapter::read: the adapter below has read when the segment is dropped.
lossy_read(r, drop) == IF drop THEN Nothing(r.adapter) ELSE r

\* LossyFdAdapter::write, which gives the datagrams that leave.
lossy_write(d, drop) == IF drop THEN {} ELSE {d}
===============================================================================
