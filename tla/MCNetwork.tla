------------------------------ MODULE MCNetwork ------------------------------
(***************************************************************************)
(* Instances of the network layer: a NetworkInterface, the Router's table  *)
(* and the Router at work, the network of network_simulator.cc, and two    *)
(* Ethernet adapters on a link.  A behaviour is about one of them, its     *)
(* subject; the others stand still.                                        *)
(***************************************************************************)
EXTENDS NetworkInterfaceSpec, TLC

CONSTANTS Octets, Lengths, MaxRoutes,                \* the router
          MaxRounds, MaxSent,                        \* the simulator
          MaxSegments, LinkTTL, LinkARPTTL, LinkTime \* the Ethernet adapters

ASSUME NetworkAssumption ==
  /\ Octets \subseteq 0 .. 255 /\ Lengths \subseteq 0 .. 32
  /\ {MaxRoutes, MaxRounds, MaxSent, MaxSegments, LinkTTL, LinkARPTTL, LinkTime} \subseteq Nat

VARIABLES subject,
          router, due, left,              \* the router alone
          lab, hosts, rounds, posted, thrown,
          host, link, dropped

\* Prefixes of every kind without a datagram, and two kinds with some.
Table   == INSTANCE RouterSpec WITH MaxRoutes <- 3, MaxDatagrams <- 0
Routing == INSTANCE RouterSpec WITH Lengths <- {0, 17}

Simulator == INSTANCE NetworkSimulator WITH router <- lab, sent <- posted

Ethernet ==
  INSTANCE EthernetAdapter WITH TTL <- LinkTTL, ARPTTL <- LinkARPTTL, MaxTime <- LinkTime,
                                lost <- dropped

routing   == <<router, due, left>>
simulated == <<lab, hosts, rounds, posted, thrown>>
adapters  == <<host, link, dropped>>

MCInit ==
  /\ subject \in {"interface", "table", "routing", "simulator", "ethernet"}
  /\ Init /\ Routing!Init /\ Simulator!Init /\ Ethernet!Init

MCNext ==
  /\ \/ subject = "interface" /\ Next /\ UNCHANGED <<routing, simulated, adapters>>
     \/ subject = "table" /\ Table!Next /\ UNCHANGED <<vars, simulated, adapters>>
     \/ subject = "routing" /\ Routing!Next /\ UNCHANGED <<vars, simulated, adapters>>
     \/ subject = "simulator" /\ Simulator!Next /\ UNCHANGED <<vars, routing, adapters>>
     \/ subject = "ethernet" /\ Ethernet!Next /\ UNCHANGED <<vars, routing, simulated>>
  /\ UNCHANGED subject

\* The neighbours of the interface are alike.
NeighbourSymmetry == Permutations(Neighbours)

MCSpec == MCInit /\ [][MCNext]_<<subject, vars, routing, simulated, adapters>>
-------------------------------------------------------------------------------

\* In the simulator's network, every datagram arrives where the scenario
\* expects it, once and nowhere else, nothing is under way any more when the
\* rounds of simulate() are over, and no interface holds a wrong address.
NetworkDelivers ==
  subject = "simulator" =>
    /\ Simulator!NeverThrows /\ Simulator!OneCopy
    /\ Simulator!Settled /\ Simulator!TrueMappings

\* Segments reach the other host in the order of writing, none twice, whether
\* or not they waited for an address; when the link loses none, each was read,
\* is on the link, or waits for an address, and once the link is empty all were
\* read (TCPOverIPv4OverEthernetAdapter).
SegmentsArrive ==
  subject = "ethernet" =>
    Ethernet!InOrder /\ Ethernet!NothingDropped /\ Ethernet!NothingStranded
===============================================================================
