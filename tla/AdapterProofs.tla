----------------------------- MODULE AdapterProofs -----------------------------
(***************************************************************************)
(* Proofs about AdapterSpec, for either adapter, any clients and addresses *)
(* and any number of datagrams under way: a listening adapter serves one   *)
(* client, and listens exactly as long as its connection does unless it    *)
(* drops what it reads.                                                    *)
(***************************************************************************)
EXTENDS AdapterSpec, TLAPS

\* A leaf that names no prover is tried with these.
USE SMTT(60), ZenonT(60)

\* A datagram; a UDP socket receives no valid one of another protocol.
IsDatagram(d) ==
  /\ d = [field \in DOMAIN d |-> d[field]] /\ {"proto", "valid"} \subseteq DOMAIN d
  /\ Kind = "udp" /\ d.proto = "other" => d.valid = FALSE

IsEndpoint(e) == e = Endpoint(e.ip, e.port)

\* Nothing is given before the adapter is bound, so the one segment that binds
\* it fixes the client of all the others.
Bound ==
  /\ server = NewAdapter(server.source, server.destination, server.listening)
  /\ Kind # "udp" => IsEndpoint(server.source) /\ IsEndpoint(server.destination)
  /\ server.listening \in BOOLEAN
  /\ server.listening => given = {}
  /\ ~ server.listening /\ Lossy = FALSE => given # {}
  /\ \A d \in net : IsDatagram(d)
  /\ OneClient
  /\ Lossy = FALSE => ListensAsConnection
-------------------------------------------------------------------------------
\* What the adapters write is a datagram.
LEMMA Written ==
  ASSUME NEW a, NEW seg, NEW own PROVE IsDatagram(Wrap(a, seg, own))
BY DEF IsDatagram, Wrap, udp_write, wrap_tcp_in_ip

\* A datagram that is garbled, or is of another protocol, is one.
LEMMA Garbled ==
  ASSUME NEW d, IsDatagram(d)
  PROVE  /\ IsDatagram([d EXCEPT !.valid = FALSE])
         /\ IsDatagram([d EXCEPT !.proto = "other", !.valid = Kind = "ip"])
<1>1. IsDatagram([d EXCEPT !.valid = FALSE])
  BY ZenonT(60) DEF IsDatagram
<1>2. CASE Kind = "udp"
  BY <1>2, ZenonT(60) DEF IsDatagram
<1>3. CASE Kind # "udp"
  BY <1>3, ZenonT(60) DEF IsDatagram
<1> QED BY <1>1, <1>2, <1>3

\* A read of either adapter: nothing, or the datagram's segment, of which an
\* adapter that is bound has the endpoints, and which binds one that listens.
LEMMA ReadOne ==
  ASSUME NEW a, NEW d, IsDatagram(d),
         a = NewAdapter(a.source, a.destination, a.listening),
         Kind # "udp" => IsEndpoint(a.source) /\ IsEndpoint(a.destination),
         a.listening \in BOOLEAN
  PROVE  LET r == Unwrap(a, d)
         IN  \/ r = Nothing(a)
             \/ /\ r.seg = <<d.seg>> /\ d.valid /\ d.proto # "other"
                /\ r.adapter = NewAdapter(r.adapter.source, r.adapter.destination, FALSE)
                /\ Kind # "udp" => IsEndpoint(r.adapter.source) /\ IsEndpoint(r.adapter.destination)
                /\ IF Kind = "udp" THEN d.src = r.adapter.destination
                   ELSE /\ Endpoint(d.src, d.seg.sport) = r.adapter.destination
                        /\ Endpoint(d.dst, d.seg.dport) = r.adapter.source
                /\ IF a.listening THEN d.seg.syn /\ ~ d.seg.rst ELSE r.adapter = a
<1> DEFINE r == Unwrap(a, d)
<1>1. CASE Kind = "udp"
  <2>1. CASE r = Nothing(a)
    BY <2>1
  <2>2. CASE r # Nothing(a)
    <3>1. /\ r = udp_read(a, d) /\ d.valid /\ d.proto # "other"
          /\ ~ a.listening => d.src = a.destination
          /\ a.listening => Opens(d.seg)
          /\ r.adapter = IF a.listening THEN Bind(a, a.source, d.src) ELSE a
          /\ r.seg = <<d.seg>>
      BY <1>1, <2>2 DEF Unwrap, udp_read, IsDatagram
    <3>2. CASE a.listening
      <4>1. r.adapter = NewAdapter(a.source, d.src, FALSE)
        BY <3>1, <3>2, ZenonT(60) DEF Bind, NewAdapter
      <4>2. r.adapter.source = a.source /\ r.adapter.destination = d.src
        BY <4>1 DEF NewAdapter
      <4> HIDE DEF r
      <4> QED BY <1>1, <3>1, <3>2, <4>1, <4>2, ZenonT(60) DEF Opens, r
    <3>3. CASE ~ a.listening
      <4> HIDE DEF r
      <4> QED BY <1>1, <3>1, <3>3, ZenonT(60) DEF r
    <3> QED BY <3>2, <3>3, ZenonT(60)
  <2> QED BY <2>1, <2>2, ZenonT(60)
<1>2. CASE Kind # "udp"
  <2>1. CASE r = Nothing(a)
    BY <2>1
  <2>2. CASE r # Nothing(a)
    <3> DEFINE after == IF a.listening
                        THEN Bind(a, Contacted(a, d), Endpoint(d.src, d.seg.sport)) ELSE a
    <3>1. /\ r.adapter = after /\ d.valid /\ d.proto = "TCP" /\ FromPeer(a, d)
          /\ d.seg.dport = a.source.port /\ (a.listening => Opens(d.seg))
          /\ r.seg = IF d.seg.sport = after.destination.port THEN <<d.seg>> ELSE << >>
      BY <1>2, <2>2 DEF Unwrap, unwrap_tcp_in_ip
    <3>2. CASE a.listening
      <4>1. after = NewAdapter(Contacted(a, d), Endpoint(d.src, d.seg.sport), FALSE)
        BY <3>2, ZenonT(60) DEF Bind, NewAdapter
      <4>2. /\ after.source = Endpoint(d.dst, a.source.port)
            /\ after.destination = Endpoint(d.src, d.seg.sport)
        BY <4>1 DEF NewAdapter, Contacted
      <4>3. /\ IsEndpoint(after.source) /\ IsEndpoint(after.destination)
            /\ d.seg.sport = after.destination.port
        BY <4>2 DEF IsEndpoint, Endpoint
      <4> HIDE DEF r, after
      <4> QED BY <1>2, <3>1, <3>2, <4>1, <4>2, <4>3, ZenonT(60) DEF Opens, Contacted, r
    <3>3. CASE ~ a.listening
      <4>1. after = a /\ d.dst = a.source.ip /\ d.src = a.destination.ip
        BY <3>1, <3>3 DEF FromPeer
      <4>2. CASE d.seg.sport # a.destination.port
        BY <1>2, <2>2, <3>1, <3>3, <4>1, <4>2, ZenonT(60) DEF Unwrap, unwrap_tcp_in_ip, Nothing
      <4>3. CASE d.seg.sport = a.destination.port
        <5>1. /\ Endpoint(d.src, d.seg.sport) = a.destination
              /\ Endpoint(d.dst, d.seg.dport) = a.source
          BY <1>2, <3>1, <4>1, <4>3 DEF IsEndpoint
        <5> HIDE DEF r, after
        <5> QED BY <1>2, <3>1, <3>3, <4>1, <4>3, <5>1, ZenonT(60) DEF r
      <4> QED BY <4>2, <4>3, ZenonT(60)
    <3> QED BY <3>2, <3>3, ZenonT(60)
  <2> QED BY <2>1, <2>2, ZenonT(60)
<1> QED BY <1>1, <1>2, ZenonT(60)


\* A step that leaves the server alone.
LEMMA OthersStep ==
  ASSUME Bound, server' = server, fsm' = fsm, given' = given,
         \A d \in net' : IsDatagram(d)
  PROVE  Bound'
<1>1. OneClient'
  BY DEF Bound, OneClient
<1>2. (Lossy = FALSE => ListensAsConnection)'
  BY DEF Bound, ListensAsConnection
<1>3. (\A d \in net : IsDatagram(d))'
  BY DEF IsDatagram
<1> QED BY <1>1, <1>2, <1>3 DEF Bound

\* A datagram that the server's adapter reads.
LEMMA TakeStep ==
  ASSUME Bound, NEW d \in net, NEW drop \in BOOLEAN, ServerTakes(d, drop),
         Lossy = FALSE => drop = FALSE
  PROVE  Bound'
<1> DEFINE r == Unwrap(server, d)
<1>1. /\ server = NewAdapter(server.source, server.destination, server.listening)
      /\ Kind # "udp" => IsEndpoint(server.source) /\ IsEndpoint(server.destination)
      /\ server.listening \in BOOLEAN /\ (server.listening => given = {})
      /\ ~ server.listening /\ Lossy = FALSE => given # {}
      /\ OneClient /\ (Lossy = FALSE => ListensAsConnection)
      /\ \A e \in net : IsDatagram(e)
  BY DEF Bound
<1>2. \A e \in net' : IsDatagram(e)
  BY <1>1 DEF ServerTakes
<1>3. /\ server' = lossy_read(r, drop).adapter /\ fsm' = After(lossy_read(r, drop).seg)
      /\ given' = IF lossy_read(r, drop).seg = << >> THEN given ELSE given \union {d}
  BY DEF ServerTakes
<1>4. CASE r = Nothing(server)
  <2>1. server' = server /\ fsm' = fsm /\ given' = given
    BY <1>3, <1>4, SMTT(60), Zenon DEF lossy_read, Nothing, After
  <2> QED BY <1>2, <2>1, OthersStep
<1>5. CASE r # Nothing(server)
  <2>1. /\ r.seg = <<d.seg>> /\ d.valid /\ d.proto # "other"
        /\ r.adapter = NewAdapter(r.adapter.source, r.adapter.destination, FALSE)
        /\ Kind # "udp" => IsEndpoint(r.adapter.source) /\ IsEndpoint(r.adapter.destination)
        /\ IF Kind = "udp" THEN d.src = r.adapter.destination
           ELSE /\ Endpoint(d.src, d.seg.sport) = r.adapter.destination
                /\ Endpoint(d.dst, d.seg.dport) = r.adapter.source
        /\ IF server.listening THEN d.seg.syn /\ ~ d.seg.rst ELSE r.adapter = server
    <3>1. IsDatagram(d)
      BY <1>1
    <3> QED BY <1>1, <1>5, <3>1, ReadOne, ZenonT(60)
  <2> HIDE DEF r
  <2>2. server' = r.adapter /\ (drop \/ fsm' = After(<<d.seg>>))
    BY <1>3, <2>1 DEF lossy_read, Nothing
  <2>3. server'.listening = FALSE
    BY <2>1, <2>2 DEF NewAdapter
  <2>4. given' \in {given, given \union {d}}
    BY <1>3, SMTT(60)
  <2>5. server.listening \/ server' = server
    BY <2>1, <2>2
  <2>6. OneClient'
    <3> DEFINE Fits(e) == /\ e.valid /\ e.proto # "other"
                          /\ IF Kind = "udp" THEN e.src = server'.destination
                             ELSE /\ Endpoint(e.src, e.seg.sport) = server'.destination
                                  /\ Endpoint(e.dst, e.seg.dport) = server'.source
    <3>1. Fits(d)
      BY <2>1, <2>2, SMTT(60)
    <3>2. \A e \in given : Fits(e)
      BY <1>1, <2>5 DEF OneClient
    <3>3. \A e \in given' : Fits(e)
      <4> HIDE DEF Fits
      <4> QED BY <2>4, <3>1, <3>2
    <3>4. given' # {} /\ Lossy = FALSE => \E e \in given' : e.seg.syn /\ ~ e.seg.rst
      <4> SUFFICES ASSUME given' # {}, Lossy = FALSE
                   PROVE  \E e \in given' : e.seg.syn /\ ~ e.seg.rst
        BY ZenonT(60)
      <4>1. CASE server.listening
        <5>1. d \in given'
          BY <1>1, <2>4, <4>1
        <5> QED BY <2>1, <4>1, <5>1
      <4>2. CASE ~ server.listening
        BY <1>1, <2>4, <4>2 DEF OneClient
      <4> QED BY <4>1, <4>2
    <3> QED BY <3>3, <3>4, SMTT(60), Zenon DEF OneClient
  <2>7. (Lossy = FALSE => ListensAsConnection)'
    <3> SUFFICES ASSUME Lossy = FALSE PROVE fsm' # "LISTEN"
      BY <2>3, ZenonT(60) DEF ListensAsConnection
    <3>1. fsm' = After(<<d.seg>>) /\ (server.listening <=> fsm = "LISTEN")
      BY <1>1, <2>2 DEF ListensAsConnection
    <3>2. CASE server.listening
      BY <2>1, <3>1, <3>2 DEF After
    <3>3. CASE ~ server.listening
      BY <3>1, <3>3 DEF After
    <3> QED BY <3>2, <3>3
  <2>8. (\A e \in net : IsDatagram(e))'
    BY <1>2 DEF IsDatagram
  <2>9. /\ server' = NewAdapter(server'.source, server'.destination, server'.listening)
        /\ Kind # "udp" => IsEndpoint(server'.source) /\ IsEndpoint(server'.destination)
    BY <2>1, <2>2, <2>3, ZenonT(60)
  <2>10. Lossy = FALSE => given' # {}
    <3>1. drop \/ lossy_read(r, drop) = r
      BY DEF lossy_read
    <3>2. r.seg # << >>
      <4>1. r.seg = <<d.seg>>
        BY <2>1
      <4> QED BY <4>1
    <3>3. drop \/ given' = given \union {d}
      BY <1>3, <3>1, <3>2, Zenon
    <3> QED BY <3>3
  <2> QED BY <2>3, <2>6, <2>7, <2>8, <2>9, <2>10, ZenonT(60) DEF Bound, IsEndpoint
<1> QED BY <1>4, <1>5

\* What the others do to the network: they write, lose and garble datagrams.
LEMMA NetStep ==
  ASSUME Bound,
         \/ \E c \in Clients : ClientSends(c) \/ ClientLeaves(c) \/ ClientReceives(c)
         \/ ServerSends \/ Lose \/ Garble \/ Done
  PROVE  Bound'
<1>1. \A d \in net : IsDatagram(d)
  BY DEF Bound
<1>2. server' = server /\ fsm' = fsm /\ given' = given
  BY ZenonT(60) DEF ClientSends, ClientLeaves, ClientReceives, ServerSends, Lose, Garble, Done, vars
<1>3. \A d \in net' : IsDatagram(d)
  <2>1. CASE (\E c \in Clients : ClientReceives(c)) \/ Lose \/ Done
    BY <1>1, <2>1 DEF ClientReceives, Lose, Done, vars
  <2>2. CASE \E c \in Clients : ClientSends(c) \/ ClientLeaves(c)
    <3>1. PICK c, seg : net' = net \union {Wrap(clients[c].adapter, seg, c)}
      BY <2>2, ZenonT(60) DEF ClientSends, ClientLeaves, Put
    <3>2. IsDatagram(Wrap(clients[c].adapter, seg, c))
      BY Written
    <3> QED BY <1>1, <3>1, <3>2
  <2>3. CASE ServerSends
    <3>1. PICK seg, own : net' \in {net, net \union {Wrap(server, seg, own)}}
      BY <2>3, ZenonT(60) DEF ServerSends, Put, lossy_write
    <3>2. IsDatagram(Wrap(server, seg, own))
      BY Written
    <3> QED BY <1>1, <3>1, <3>2
  <2>4. CASE Garble
    <3>1. PICK d \in net, e \in {"bits", "proto"} :
            net' = (net \ {d}) \union
                     {IF e = "bits" THEN [d EXCEPT !.valid = FALSE]
                      ELSE [d EXCEPT !.proto = "other", !.valid = Kind = "ip"]}
      BY <2>4, ZenonT(60) DEF Garble
    <3>2. /\ IsDatagram([d EXCEPT !.valid = FALSE])
          /\ IsDatagram([d EXCEPT !.proto = "other", !.valid = Kind = "ip"])
      BY <1>1, Garbled, ZenonT(60)
    <3> QED BY <1>1, <3>1, <3>2, ZenonT(60)
  <2> QED BY <2>1, <2>2, <2>3, <2>4
<1> QED BY <1>2, <1>3, OthersStep

\* The inductive invariant.
THEOREM BoundHolds == Spec => []Bound
<1>1. Init => Bound
  BY DEF Init, Bound, NewAdapter, Endpoint, IsEndpoint, OneClient, ListensAsConnection
<1>2. Bound /\ [Next]_vars => Bound'
  <2> SUFFICES ASSUME Bound, [Next]_vars PROVE Bound'
    BY SMTT(60)
  <2>1. CASE ServerReceives
    <3>1. PICK d \in net, drop \in IF Lossy THEN BOOLEAN ELSE {FALSE} : ServerTakes(d, drop)
      BY <2>1, ZenonT(60) DEF ServerReceives
    <3> QED BY <3>1, TakeStep, AdapterAssumption, ZenonT(60)
  <2>2. CASE UNCHANGED vars
    BY <2>2, OthersStep, ZenonT(60) DEF vars, Bound
  <2> QED BY <2>1, <2>2, NetStep DEF Next
<1> QED BY <1>1, <1>2, PTL DEF Spec

\* Whatever arrives in whatever order, all that a listening adapter hands to
\* its connection comes from one client, the one that it answers.
THEOREM ServesOneClient == Spec => []OneClient
<1>1. Bound => OneClient
  BY SMTT(60) DEF Bound
<1> QED BY <1>1, BoundHolds, PTL

\* _listen follows the connection's LISTEN, unless LossyFdAdapter drops the
\* segment that ended it.
THEOREM ListenIsListen == Spec => [](Lossy = FALSE => ListensAsConnection)
<1>1. Bound => (Lossy = FALSE => ListensAsConnection)
  BY DEF Bound
<1> QED BY <1>1, BoundHolds, PTL
===============================================================================
