------------------------------ MODULE MCAdapter ------------------------------
(***************************************************************************)
(* Instances of AdapterSpec: two programs on one host, and one on another. *)
(* A behaviour is about the adapters for TCP in IPv4, about those for TCP  *)
(* in UDP, or about the first kind inside a LossyFdAdapter: its subject.   *)
(***************************************************************************)
EXTENDS AdapterSpec

TwoClients == {Endpoint("h1", 1), Endpoint("h1", 2)}

ThreeClients == TwoClients \union {Endpoint("h2", 1)}

VARIABLES subject, server2, fsm2, clients2, net2, given2

UDP == INSTANCE AdapterSpec WITH
         Kind <- "udp", Clients <- TwoClients, server <- server2, fsm <- fsm2,
         clients <- clients2, net <- net2, given <- given2

Dropping == INSTANCE AdapterSpec WITH
         Lossy <- TRUE, Clients <- TwoClients, server <- server2, fsm <- fsm2,
         clients <- clients2, net <- net2, given <- given2

vars2 == <<server2, fsm2, clients2, net2, given2>>

\* What is not the subject stands still, all clients contacting one address.
Still(cs) ==
  \A c \in DOMAIN cs : cs[c].adapter.destination.ip = CHOOSE a \in Addresses : TRUE

MCInit ==
  /\ Init
  /\ \/ subject = "ip" /\ UDP!Init /\ Still(clients2)
     \/ subject = "udp" /\ UDP!Init /\ Still(clients)
     \/ subject = "lossy" /\ Dropping!Init /\ Still(clients)

MCNext ==
  /\ \/ subject = "ip" /\ Next /\ UNCHANGED vars2
     \/ subject = "udp" /\ UDP!Next /\ UNCHANGED vars
     \/ subject = "lossy" /\ Dropping!Next /\ UNCHANGED vars
  /\ UNCHANGED subject

\* The fairness of AdapterSpec, for the adapters over UDP.
MCSpec ==
  /\ MCInit /\ [][MCNext]_<<subject, vars, vars2>>
  /\ WF_vars2(subject = "udp" /\ UDP!Lose)
  /\ \A c \in TwoClients :
       /\ SF_vars2(subject = "udp" /\ UDP!ClientSends(c))
       /\ SF_vars2(subject = "udp" /\ UDP!ServerTakes(UDP!Syn(c), FALSE))
-------------------------------------------------------------------------------
\* OneClient of the adapters over UDP, and of those that drop datagrams; the
\* clients of either accept all answers, finding in them the addresses and ports
\* that they contacted.
OthersServeOne ==
  /\ subject = "udp" => UDP!OneClient /\ UDP!AnswersAccepted
  /\ subject = "lossy" => Dropping!OneClient /\ Dropping!AnswersAccepted

\* A client that goes on asking is not left alone by a server in LISTEN
\* (TCPOverUDPSocketAdapter::read, whatever else arrives).
SomebodyIsServed == subject = "udp" => UDP!SomebodyServed
===============================================================================
