----------------------------- MODULE RouterSpec -----------------------------
(***************************************************************************)
(* A Router between two links.  Routes are added and datagrams arrive in   *)
(* any order, route() runs at any time, and each next hop answers the      *)
(* interface's ARP request some time later.                                *)
(***************************************************************************)
EXTENDS Router

CONSTANTS Octets,      \* the octets that addresses differ in
          Lengths,     \* the lengths of the prefixes
          MaxRoutes, MaxDatagrams

VARIABLES router,
          due,     \* for each datagram routed, the ways it may leave
          left     \* the datagrams that have left, and how

vars == <<router, due, left>>

Addresses == {<<a, 1, b, 0>> : a \in Octets, b \in Octets}

Gateway == <<9, 9, 9, 9>>

Ports == 1 .. 2

PortMac(i) == [of |-> <<0, 0, 0, i>>]

\* The networks behind port 1 are attached to it, those behind 2 have a gateway.
Routes ==
  {Route(Masked(a, n), n, IF i = 1 THEN << >> ELSE <<Gateway>>, i) :
     a \in Addresses, n \in Lengths, i \in Ports}

\* The first n bits of two addresses agree: what a prefix of length n means.
Bit(ip, b) == (ip[(b - 1) \div 8 + 1] \div 2 ^ (7 - ((b - 1) % 8))) % 2
Agree(ip, prefix, n) == \A b \in 1 .. n : Bit(ip, b) = Bit(prefix, b)

\* The routes of the longest prefix that agrees with ip.
Longest(table, ip) ==
  LET match == {i \in DOMAIN table : Agree(ip, table[i].route_prefix, table[i].prefix_length)}
  IN  {table[i] : i \in {j \in match :
                           \A k \in match : table[k].prefix_length <= table[j].prefix_length}}

Init ==
  /\ router = NewRouter([i \in Ports |-> NewPort(PortMac(i), <<0, 0, 0, i>>)])
  /\ due = << >> /\ left = << >>

\* What the interfaces have put out leaves them.
Emitted(rt) ==
  FlattenSeq([i \in Ports |->
    LET frames == SelectSeq(rt.interfaces[i].ni.frames_out, LAMBDA f : f.type = "IPv4")
    IN  [k \in DOMAIN frames |-> [port |-> i, hop |-> frames[k].dst.of, dgram |-> frames[k].dgram]]])

Become(rt) ==
  /\ router' = [rt EXCEPT !.interfaces =
                  [i \in Ports |-> [@[i] EXCEPT !.ni.frames_out = << >>]]]
  /\ left' = left \o Emitted(rt)

AddRoute ==
  /\ Len(router.table) < MaxRoutes
  /\ \E r \in Routes : Become(add_route(router, r))
  /\ UNCHANGED due

\* The datagrams that have come are numbered by those routed and those waiting.
Arrivals == Len(due) + Len(Waiting(router))

Receive ==
  /\ Arrivals < MaxDatagrams
  /\ \E i \in Ports, dst \in Addresses, ttl \in 0 .. 2 :
       LET dgram == [src |-> Gateway, dst |-> dst, ttl |-> ttl, id |-> Arrivals + 1]
           frame == IPv4Frame([of |-> Gateway], PortMac(i), dgram)
       IN  Become([router EXCEPT !.interfaces[i] = async_recv_frame(@, frame)])
  /\ UNCHANGED due

\* The ways a datagram may leave, by the meaning of prefixes and of ttl.
Ways(table, dgram) ==
  IF dgram.ttl <= 1 THEN {}
  ELSE {[port  |-> r.interface_num,
         hop   |-> IF r.next_hop = << >> THEN dgram.dst ELSE Gateway,
         dgram |-> [dgram EXCEPT !.ttl = @ - 1]] : r \in Longest(table, dgram.dst)}

RouteAll ==
  /\ Waiting(router) # << >>
  /\ Become(route(router))
  /\ due' = due \o [k \in DOMAIN Waiting(router) |->
                      [id   |-> Waiting(router)[k].id,
                       ways |-> Ways(router.table, Waiting(router)[k])]]

\* The owner of an address that is asked for answers.
Answered ==
  \E i \in Ports : \E ip \in DOMAIN router.interfaces[i].ni.pending_ip :
    /\ Become([router EXCEPT !.interfaces[i] =
                 async_recv_frame(@, ARPFrame([of |-> ip], PortMac(i), "reply", ip,
                                              PortMac(i), <<0, 0, 0, i>>))])
    /\ UNCHANGED due

Next == AddRoute \/ Receive \/ RouteAll \/ Answered

Spec == Init /\ [][Next]_vars
-------------------------------------------------------------------------------
\* The datagrams that wait at port i for the addresses of their next hops.
Queue(i) == router.interfaces[i].ni.pending_dgram

\* For every destination the loop over the table picks a route whose prefix
\* agrees in all its bits and that no such route of a greater length beats,
\* and picks none only when none agrees, whatever the order of add_route.
LongestPrefixWins ==
  \A ip \in Addresses :
    LET best == BestRoute(router.table, ip)
    IN  IF Longest(router.table, ip) = {} THEN best = << >>
        ELSE best # << >> /\ best[1] \in Longest(router.table, ip)

\* The places in the interfaces' queues where datagram id waits.
Places(id) ==
  UNION {UNION {{<<i, hop, k>> : k \in {j \in DOMAIN Queue(i)[hop] : Queue(i)[hop][j].id = id}} :
                  hop \in DOMAIN Queue(i)} : i \in Ports}

\* A datagram routed is forwarded once, with its time to live one less, on
\* the interface and to the hop of a longest match at the time it was routed,
\* though later routes, answers and datagrams come before it leaves; one with
\* no match or no time to live is forwarded nowhere.
ForwardedOnce ==
  \A d \in DOMAIN due :
    LET id   == due[d].id
        held == {[port |-> p[1], hop |-> p[2], dgram |-> Queue(p[1])[p[2]][p[3]]] :
                   p \in Places(id)}
        gone == {k \in DOMAIN left : left[k].dgram.id = id}
    IN  /\ held \union {left[k] : k \in gone} \subseteq due[d].ways
        /\ Cardinality(Places(id)) + Cardinality(gone) = IF due[d].ways = {} THEN 0 ELSE 1

\* Datagrams that are routed the same way leave in the order of routing.
InOrder ==
  \A j, k \in DOMAIN left :
    (j < k /\ left[j].port = left[k].port /\ left[j].hop = left[k].hop) =>
      \E d, e \in DOMAIN due : /\ due[d].id = left[j].dgram.id /\ due[e].id = left[k].dgram.id
                               /\ d < e
===============================================================================
