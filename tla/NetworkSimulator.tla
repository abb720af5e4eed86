--------------------------- MODULE NetworkSimulator ---------------------------
(***************************************************************************)
(* apps/network_simulator.cc: hosts and a router on five links.  The hosts *)
(* of the program's scenario send datagrams; simulate() then lets frames   *)
(* and datagrams move for a number of rounds and every host checks that it *)
(* received exactly what it expects.  The program sends one datagram per   *)
(* simulate(); here several may be under way at once, in any order.        *)
(***************************************************************************)
EXTENDS Router

CONSTANTS MaxRounds,   \* rounds of one simulate(), 256 in the code
          MaxSent      \* datagrams sent in all

VARIABLES router, hosts, rounds, sent, thrown

vars == <<router, hosts, rounds, sent, thrown>>

\* The Ethernet addresses are random; here the owner's IP address names them.
MacOf(ip) == [of |-> ip]

PortOf(ip) == NewPort(MacOf(ip), ip)

Host(my_address, next_hop) ==
  [port |-> PortOf(my_address), next_hop |-> next_hop, expecting |-> << >>]

\* Interfaces: 1 default, 2 eth0, 3 eth1, 4 eth2, 5 uun3, 6 hs4, 7 mit5.
Interfaces ==
  <<PortOf(<<171, 67, 76, 46>>), PortOf(<<10, 0, 0, 1>>), PortOf(<<172, 16, 0, 1>>),
    PortOf(<<192, 168, 0, 1>>), PortOf(<<198, 178, 229, 1>>), PortOf(<<143, 195, 0, 2>>),
    PortOf(<<128, 30, 76, 255>>)>>

Table ==
  <<Route(<<0, 0, 0, 0>>, 0, << <<171, 67, 76, 1>> >>, 1),
    Route(<<10, 0, 0, 0>>, 8, << >>, 2),
    Route(<<172, 16, 0, 0>>, 16, << >>, 3),
    Route(<<192, 168, 0, 0>>, 24, << >>, 4),
    Route(<<198, 178, 229, 0>>, 24, << >>, 5),
    Route(<<143, 195, 0, 0>>, 17, << <<143, 195, 0, 1>> >>, 6),
    Route(<<143, 195, 128, 0>>, 18, << <<143, 195, 0, 1>> >>, 6),
    Route(<<143, 195, 192, 0>>, 19, << <<143, 195, 0, 1>> >>, 6),
    Route(<<128, 30, 76, 255>>, 16, << <<128, 30, 0, 1>> >>, 7)>>

Init ==
  /\ router = FoldLeft(add_route, NewRouter(Interfaces), Table)
  /\ hosts = [applesauce     |-> Host(<<10, 0, 0, 2>>, <<10, 0, 0, 1>>),
              default_router |-> Host(<<171, 67, 76, 1>>, <<0, 0, 0, 0>>),
              cherrypie      |-> Host(<<192, 168, 0, 2>>, <<192, 168, 0, 1>>),
              hs_router      |-> Host(<<143, 195, 0, 1>>, <<0, 0, 0, 0>>),
              dm42           |-> Host(<<198, 178, 229, 42>>, <<198, 178, 229, 1>>),
              dm43           |-> Host(<<198, 178, 229, 43>>, <<198, 178, 229, 1>>)]
  /\ rounds = 0 /\ sent = 0 /\ thrown = FALSE

\* Which interface of the router and which hosts share a link.
Links ==
  <<[num |-> 1, names |-> <<"default_router">>], [num |-> 2, names |-> <<"applesauce">>],
    [num |-> 4, names |-> <<"cherrypie">>], [num |-> 6, names |-> <<"hs_router">>],
    [num |-> 5, names |-> <<"dm42", "dm43">>]>>

\* Every port of a link hears what the others had to send when the exchange
\* began; what it answers stays for the next one.
exchange_frames(ports) ==
  [j \in DOMAIN ports |->
     LET heard == FlattenSeq([i \in DOMAIN ports |->
                                IF i = j THEN << >> ELSE ports[i].ni.frames_out])
         got   == FoldLeft(async_recv_frame, ports[j], heard)
     IN  [got EXCEPT !.ni.frames_out =
            SubSeq(@, Len(ports[j].ni.frames_out) + 1, Len(@))]]

\* The router and the hosts after an exchange on one link.
Exchange(net, link) ==
  LET ports == exchange_frames(<<net.router.interfaces[link.num]>> \o
                 [k \in DOMAIN link.names |-> net.hosts[link.names[k]].port])
  IN  [router |-> [net.router EXCEPT !.interfaces[link.num] = ports[1]],
       hosts  |-> [h \in DOMAIN net.hosts |->
                     IF \E k \in DOMAIN link.names : link.names[k] = h
                     THEN [net.hosts[h] EXCEPT !.port =
                             ports[1 + CHOOSE k \in DOMAIN link.names : link.names[k] = h]]
                     ELSE net.hosts[h]]]

simulate_physical_connections(net) == FoldLeft(Exchange, net, Links)

\* What the program sends, and who is to receive it ("" for nobody).
Scenario ==
  {[from |-> "applesauce", to |-> <<192, 168, 0, 2>>, ttl |-> 64, at |-> "cherrypie"],
   [from |-> "cherrypie", to |-> <<10, 0, 0, 2>>, ttl |-> 64, at |-> "applesauce"],
   [from |-> "applesauce", to |-> <<1, 2, 3, 4>>, ttl |-> 64, at |-> "default_router"],
   [from |-> "applesauce", to |-> <<143, 195, 131, 17>>, ttl |-> 64, at |-> "hs_router"],
   [from |-> "cherrypie", to |-> <<143, 195, 193, 52>>, ttl |-> 64, at |-> "hs_router"],
   [from |-> "cherrypie", to |-> <<143, 195, 223, 255>>, ttl |-> 64, at |-> "hs_router"],
   [from |-> "cherrypie", to |-> <<143, 195, 224, 0>>, ttl |-> 64, at |-> "default_router"],
   [from |-> "dm42", to |-> <<198, 178, 229, 43>>, ttl |-> 64, at |-> "dm43"],
   [from |-> "applesauce", to |-> <<1, 2, 3, 4>>, ttl |-> 1, at |-> ""],
   [from |-> "applesauce", to |-> <<1, 2, 3, 4>>, ttl |-> 0, at |-> ""]}

\* Faulty variant: asks for the address of the destination itself.
send_to_direct(host, dgram) == [host EXCEPT !.port.ni = send_datagram(@, dgram, dgram.dst)]

send_to(host, dgram) == [host EXCEPT !.port.ni = send_datagram(@, dgram, host.next_hop)]

expect(host, dgram) == [host EXCEPT !.expecting = Append(@, dgram)]

Send(s) ==
  LET dgram == [src |-> hosts[s.from].port.ni.ip, dst |-> s.to, ttl |-> s.ttl, id |-> sent + 1]
      sends == [hosts EXCEPT ![s.from] = send_to(@, dgram)]
  IN  /\ rounds = 0 /\ ~ thrown /\ sent < MaxSent
      /\ sent' = sent + 1
      /\ hosts' = IF s.at = "" THEN sends
                  ELSE [sends EXCEPT ![s.at] = expect(@, [dgram EXCEPT !.ttl = @ - 1])]
      /\ UNCHANGED <<router, rounds, thrown>>

\* One turn of the loop of simulate().
Round ==
  /\ rounds < MaxRounds /\ ~ thrown
  /\ LET net == simulate_physical_connections([router |-> route(router), hosts |-> hosts])
     IN  router' = net.router /\ hosts' = net.hosts
  /\ rounds' = rounds + 1
  /\ UNCHANGED <<sent, thrown>>

\* What is left of the expectations when the datagrams received are removed,
\* or a failure when one of them is not expected.
remove_expectation(left, dgram) ==
  IF left.ok /\ Contains(left.rest, dgram)
  THEN [ok |-> TRUE, rest |-> RemoveFirst(left.rest, dgram)] ELSE [ok |-> FALSE, rest |-> left.rest]

checked(host) ==
  FoldLeft(remove_expectation, [ok |-> TRUE, rest |-> host.expecting], host.port.datagrams_out)

\* The end of simulate(): every host checks, or an exception ends the program.
Check ==
  /\ rounds = MaxRounds /\ ~ thrown
  /\ IF \A h \in DOMAIN hosts : checked(hosts[h]) = [ok |-> TRUE, rest |-> << >>]
     THEN /\ hosts' = [h \in DOMAIN hosts |->
                         [hosts[h] EXCEPT !.expecting = << >>, !.port.datagrams_out = << >>]]
          /\ rounds' = 0 /\ thrown' = FALSE
     ELSE thrown' = TRUE /\ UNCHANGED <<hosts, rounds>>
  /\ UNCHANGED <<router, sent>>

Next == (\E s \in Scenario : Send(s)) \/ Round \/ Check

Spec == Init /\ [][Next]_vars
-------------------------------------------------------------------------------
\* The ports of the network.
AllPorts ==
  {router.interfaces[i] : i \in DOMAIN router.interfaces} \union
  {hosts[h].port : h \in DOMAIN hosts}

\* Every datagram arrives where the scenario expects it, once and with its
\* time to live one less, and nothing else arrives anywhere, however many are
\* under way and whichever waits for whose address: check() never throws.
NeverThrows == ~ thrown

\* An address resolution never associates an address with another's Ethernet
\* address, in any interface, on the link shared by three of them included.
TrueMappings ==
  \A p \in AllPorts : \A ip \in DOMAIN p.ni.map : p.ni.map[ip].mac = MacOf(ip)

\* How many copies of datagram id a port holds: received, waiting, or in a frame.
CopiesAt(p, id) ==
  LET ids == p.datagrams_out \o
             FlattenSeq(SetToSeq({p.ni.pending_dgram[hop] : hop \in DOMAIN p.ni.pending_dgram})) \o
             LET frames == SelectSeq(p.ni.frames_out, LAMBDA f : f.type = "IPv4")
             IN  [k \in DOMAIN frames |-> frames[k].dgram]
  IN  Cardinality({k \in DOMAIN ids : ids[k].id = id})

\* A datagram is in one place at a time, or has been dropped or checked off.
OneCopy ==
  \A id \in 1 .. sent : MapThenSumSet(LAMBDA p : CopiesAt(p, id), AllPorts) <= 1

\* Nothing is under way any more when the rounds of a simulate() are over.
Settled ==
  rounds = MaxRounds =>
    \A p \in AllPorts : p.ni.frames_out = << >> /\ p.ni.pending_ip = << >>
===============================================================================
