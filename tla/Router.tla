------------------------------- MODULE Router -------------------------------
(***************************************************************************)
(* class Router and class AsyncNetworkInterface (router.hh, router.cc): a  *)
(* table of routes and a sequence of interfaces that keep the datagrams    *)
(* they receive until route() forwards them.  A 32-bit address is the      *)
(* tuple of its four octets; a datagram has the header fields src, dst and *)
(* ttl, and an id for its payload.                                         *)
(***************************************************************************)
EXTENDS NetworkInterface, SequencesExt

\* AsyncNetworkInterface::recv_frame.
async_recv_frame(port, frame) ==
  [ni            |-> recv_frame(port.ni, frame),
   datagrams_out |-> port.datagrams_out \o received_dgram(port.ni, frame)]

NewPort(mac, ip) == [ni |-> NewInterface(mac, ip), datagrams_out |-> << >>]

NewRouter(ports) == [interfaces |-> ports, table |-> << >>]

Route(prefix, length, next_hop, num) ==
  [route_prefix |-> prefix, prefix_length |-> length, next_hop |-> next_hop,
   interface_num |-> num]

add_route(rt, route) == [rt EXCEPT !.table = Append(@, route)]

\* The n high-order bits of an octet, the others zero: right shift, left shift.
HighBits(octet, n) == (octet \div 2 ^ (8 - n)) * 2 ^ (8 - n)

\* The address with all but its length high-order bits zero.
Masked(ip, length) ==
  [k \in 1 .. 4 |->
     IF length >= 8 * k THEN ip[k]
     ELSE IF length <= 8 * (k - 1) THEN 0
     ELSE HighBits(ip[k], length - 8 * (k - 1))]

\* Only the datagram's address is masked, the route's prefix is not.
prefix_match(ip, route) == Masked(ip, route.prefix_length) = route.route_prefix


\* The loop's choice between the best route so far and one more that matches.
Better(best, route) ==
  IF best = << >> \/ best[1].prefix_length < route.prefix_length THEN <<route>> ELSE best

\* The loop over the table: the route taken, or nothing.
BestRoute(table, ip) ==
  FoldLeft(LAMBDA best, route : IF prefix_match(ip, route) THEN Better(best, route) ELSE best,
           << >>, table)

\* next_hop is a sequence of length one, or empty for a network attached.
route_one_datagram(rt, dgram) ==
  LET best == BestRoute(rt.table, dgram.dst)
  IN  IF best = << >> \/ dgram.ttl <= 1 THEN rt
      ELSE [rt EXCEPT !.interfaces[best[1].interface_num].ni =
              send_datagram(@, [dgram EXCEPT !.ttl = @ - 1],
                            IF best[1].next_hop = << >> THEN dgram.dst
                                                        ELSE best[1].next_hop[1])]

\* The queues emptied.
Drained(rt) ==
  [rt EXCEPT !.interfaces = [i \in DOMAIN @ |-> [@[i] EXCEPT !.datagrams_out = << >>]]]

\* The datagrams that wait, interface by interface.
Waiting(rt) == FlattenSeq([i \in DOMAIN rt.interfaces |-> rt.interfaces[i].datagrams_out])

\* Sending puts no datagram into the queues that the loops of route empty.
route(rt) == FoldLeft(route_one_datagram, Drained(rt), Waiting(rt))
===============================================================================
