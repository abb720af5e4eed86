------------------------------ MODULE AdapterSpec ------------------------------
(***************************************************************************)
(* A listening adapter and clients that contact it, each through its own   *)
(* adapter, over a network that reorders, repeats, loses and garbles       *)
(* datagrams and carries some of other protocols.  The connections behind  *)
(* the adapters are reduced to what the adapters can see of them: the      *)
(* client sends SYNs until it is answered, then segments; it may give up   *)
(* with a RST; the server leaves LISTEN when it is given a SYN.            *)
(***************************************************************************)
EXTENDS FdAdapter, FiniteSets

CONSTANTS Kind,       \* "udp" or "ip": the adapters in use
          Clients,    \* their endpoints
          Addresses,  \* the addresses of the server
          ServerPort,
          NoAddress,  \* "0", INADDR_ANY, of a configuration left as it is
          MaxNet,     \* how many datagrams are under way
          Lossy       \* the server's adapter drops what it reads

ASSUME AdapterAssumption ==
  /\ Kind \in {"udp", "ip"} /\ Lossy \in BOOLEAN /\ MaxNet \in Nat
  /\ ServerPort \in Nat \ {0} /\ NoAddress \notin Addresses
  /\ \A c \in Clients : c.ip \notin Addresses \union {NoAddress} /\ c.port \in Nat \ {0}

VARIABLES server,    \* the listening adapter
          fsm,       \* the connection behind it: "LISTEN", "OPEN" or "RESET"
          clients,   \* the adapter and the state of every client
          net,       \* the datagrams under way
          given      \* all that was given to the server's connection

vars == <<server, fsm, clients, net, given>>

\* tcp_udp leaves the client's own address as it is; tcp_ipv4 sets it.
Source(c) == IF Kind = "udp" THEN Endpoint(NoAddress, 0) ELSE c

Init ==
  /\ server = NewAdapter(Endpoint(NoAddress, ServerPort), Endpoint(NoAddress, 0), TRUE)
  /\ fsm = "LISTEN" /\ net = {} /\ given = {}
  /\ \E to \in [Clients -> Addresses] :
       clients = [c \in Clients |->
         [adapter |-> NewAdapter(Source(c), Endpoint(to[c], ServerPort), FALSE),
          state |-> "SYN_SENT"]]

Segment(syn, rst) == [syn |-> syn, rst |-> rst, sport |-> 0, dport |-> 0]

Wrap(a, seg, own) == IF Kind = "udp" THEN udp_write(a, seg, own) ELSE wrap_tcp_in_ip(a, seg)

Unwrap(a, d) == IF Kind = "udp" THEN udp_read(a, d) ELSE unwrap_tcp_in_ip(a, d)

\* The network takes d to client c.
Reaches(d, c) == d.dst = IF Kind = "udp" THEN c ELSE c.ip

ToServer(d) == (IF Kind = "udp" THEN d.dst.ip ELSE d.dst) \in Addresses

Put(d) == net' = net \union d /\ Cardinality(net') <= MaxNet

ClientSends(c) ==
  /\ clients[c].state # "gone"
  /\ Put({Wrap(clients[c].adapter, Segment(clients[c].state = "SYN_SENT", FALSE), c)})
  /\ UNCHANGED <<server, fsm, clients, given>>

ClientLeaves(c) ==
  /\ clients[c].state # "gone"
  /\ clients' = [clients EXCEPT ![c].state = "gone"]
  /\ Put({Wrap(clients[c].adapter, Segment(FALSE, TRUE), c)})
  /\ UNCHANGED <<server, fsm, given>>

ClientReceives(c) ==
  /\ clients[c].state # "gone"
  /\ \E d \in net :
       /\ Reaches(d, c)
       /\ net' \in {net, net \ {d}}
       /\ LET r == Unwrap(clients[c].adapter, d)
          IN  clients' = [clients EXCEPT ![c].state = IF r.seg = << >> THEN @ ELSE "OPEN"]
  /\ UNCHANGED <<server, fsm, given>>

\* What the server's connection makes of the segment, if there is one.
After(segs) ==
  IF segs = << >> THEN fsm
  ELSE IF segs[1].rst THEN "RESET"
  ELSE IF segs[1].syn /\ fsm = "LISTEN" THEN "OPEN" ELSE fsm

\* The server reads d; the network may deliver it again.
ServerTakes(d, drop) ==
  /\ fsm # "RESET" /\ d \in net /\ ToServer(d)
  /\ net' \in {net, net \ {d}}
  /\ LET r == lossy_read(Unwrap(server, d), drop)
     IN  /\ server' = r.adapter /\ fsm' = After(r.seg)
         /\ given' = IF r.seg = << >> THEN given ELSE given \union {d}
  /\ UNCHANGED clients

ServerReceives ==
  \E d \in net, drop \in IF Lossy THEN BOOLEAN ELSE {FALSE} : ServerTakes(d, drop)

\* The server's own endpoint is that of the address which was contacted.
ServerSends ==
  /\ fsm = "OPEN"
  /\ \E c \in Clients, syn \in BOOLEAN, drop \in IF Lossy THEN BOOLEAN ELSE {FALSE} :
       /\ Kind = "udp" => c = server.destination
       /\ Put(lossy_write(Wrap(server, Segment(syn, FALSE), clients[c].adapter.destination), drop))
  /\ UNCHANGED <<server, fsm, clients, given>>

Lose ==
  /\ \E d \in net : net' = net \ {d}
  /\ UNCHANGED <<server, fsm, clients, given>>

\* A datagram is garbled, or one of another protocol comes from the same host.
Garble ==
  /\ \E d \in net, e \in {"bits", "proto"} :
       net' = (net \ {d}) \union
                {IF e = "bits" THEN [d EXCEPT !.valid = FALSE]
                 ELSE [d EXCEPT !.proto = "other", !.valid = Kind = "ip"]}
  /\ UNCHANGED <<server, fsm, clients, given>>

Done == (\A c \in Clients : clients[c].state = "gone") /\ net = {} /\ UNCHANGED vars

Next ==
  \/ \E c \in Clients : ClientSends(c) \/ ClientLeaves(c) \/ ClientReceives(c)
  \/ ServerReceives \/ ServerSends \/ Lose \/ Garble \/ Done

Spec == Init /\ [][Next]_vars

Syn(c) == Wrap(clients[c].adapter, Segment(TRUE, FALSE), c)
-------------------------------------------------------------------------------
\* All that the connection is given comes from one client, the one that the
\* answers go to, and was sent to the address that they come from; other
\* clients' segments, garbled ones and other protocols are left out.  Its SYN
\* comes before all else, unless a LossyFdAdapter dropped it.
OneClient ==
  /\ \A d \in given :
       /\ d.valid /\ d.proto # "other"
       /\ IF Kind = "udp" THEN d.src = server.destination
          ELSE /\ Endpoint(d.src, d.seg.sport) = server.destination
               /\ Endpoint(d.dst, d.seg.dport) = server.source
  /\ given # {} /\ Lossy = FALSE => \E d \in given : d.seg.syn /\ ~ d.seg.rst

\* Answers are such that a client takes them: its own filter finds in them
\* the addresses and ports that it contacted.
AnswersAccepted ==
  \A d \in net :
    d.valid /\ d.proto # "other" /\ ~ ToServer(d) =>
      \E c \in Clients : Reaches(d, c) /\ Unwrap(clients[c].adapter, d).seg # << >>

\* The adapter listens as long as its connection is in LISTEN (_listen).
ListensAsConnection == server.listening <=> fsm = "LISTEN"

\* A client that goes on asking is not left alone by a server in LISTEN: when
\* it repeats its SYN (its retransmission timer), and the network neither loses
\* nor garbles all of them nor stays full of others' datagrams.
SomebodyServed ==
  \A c \in Clients : <>(clients[c].state # "SYN_SENT" \/ fsm # "LISTEN")
===============================================================================
