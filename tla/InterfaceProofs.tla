---------------------------- MODULE InterfaceProofs ----------------------------
(***************************************************************************)
(* Proofs about NetworkInterfaceSpec, for any set of neighbours, any       *)
(* lifetimes of mappings and requests, and any number of datagrams, losses *)
(* and strays: what links the interface's three tables to each other, to   *)
(* what was heard and to what was asked.                                   *)
(***************************************************************************)
EXTENDS NetworkInterfaceSpec, TLAPS

\* A leaf that names no prover is tried with these.
USE SMTT(60), ZenonT(60)

Macs == {Mac(n, k) : n \in Neighbours, k \in 1 .. 2}

\* A std::map from some of the neighbours to S.
IsTable(f, S) == DOMAIN f \subseteq Neighbours /\ f \in [DOMAIN f -> S]

Datagrams(n) == [hop : {n}, number : Nat]

Interface(frames, time, map, pending_ip, pending_dgram) ==
  [mac |-> MyMac, ip |-> MyIp, frames_out |-> frames, time |-> time, map |-> map,
   pending_ip |-> pending_ip, pending_dgram |-> pending_dgram]

\* An interface between two calls, its frames taken.
IsNic(ni) ==
  /\ ni = Interface(<< >>, ni.time, ni.map, ni.pending_ip, ni.pending_dgram)
  /\ ni.time \in Nat
  /\ IsTable(ni.map, [mac : Macs, time : Nat])
  /\ IsTable(ni.pending_ip, Nat)
  /\ IsTable(ni.pending_dgram, Seq([hop : Neighbours, number : Nat]))

\* An ARP message that a neighbour sent.
FromNeighbour(f) ==
  f.type = "ARP" /\ f.sender_ip \in Neighbours /\ f.sender_mac \in Macs

\* Of a neighbour n: a mapping is the last message heard from it; a request
\* under way is the last one made; and whoever was asked for is either still
\* asked for or has a mapping that is younger than the request.
LinkedTo(n) ==
  /\ n \in DOMAIN nic.map =>
       heard[n] = {nic.map[n]} /\ nic.map[n].time <= nic.time
  /\ n \in DOMAIN nic.pending_ip => requested[n] = {nic.pending_ip[n]}
  /\ \A t \in requested[n] :
       /\ t \in Nat /\ t <= nic.time
       /\ n \in DOMAIN nic.pending_ip \union DOMAIN nic.map
       /\ n \in DOMAIN nic.map => t <= nic.map[n].time
  /\ n \in DOMAIN nic.pending_dgram => nic.pending_dgram[n] \in Seq(Datagrams(n))

Linked ==
  /\ IsNic(nic)
  /\ \A f \in wire : f.src = MyMac \/ FromNeighbour(f)
  /\ card \in [Neighbours -> 1 .. 2] /\ asked \in [Neighbours -> Nat]
  /\ \A n \in Neighbours : LinkedTo(n)
  /\ WaitsOnlyForAnswer
-------------------------------------------------------------------------------
ARPRequest(n) == ARPFrame(MyMac, Broadcast, "request", MyIp, NoMac, n)

\* Whether send_datagram knows where to send.
Known(ni, n) == n \in DOMAIN ni.map /\ ~ Expired(ni, n)

\* send_datagram with a mapping: the frame goes out, and nothing else changes.
LEMMA SendKnown ==
  ASSUME NEW ni, IsNic(ni), NEW n \in Neighbours, NEW dgram, Known(ni, n)
  PROVE  send_datagram(ni, dgram, n) =
           Interface(<<IPv4Frame(MyMac, ni.map[n].mac, dgram)>>,
                     ni.time, ni.map, ni.pending_ip, ni.pending_dgram)
<1>1. ni.map[n].mac \in Macs
  BY DEF IsNic, IsTable, Known
<1>2. mac_of(ni, n) = ni.map[n].mac /\ mac_of(ni, n) # NoMac
  BY <1>1, ConstantsAssumption DEF mac_of, Known, Macs
<1>3. map_lookup(ni, n) = ni
  BY DEF map_lookup, Known
<1> DEFINE frame == IPv4Frame(MyMac, ni.map[n].mac, dgram)
<1>4. ni.mac = MyMac
  BY DEF IsNic, Interface
<1>5. send_datagram(ni, dgram, n) = [ni EXCEPT !.frames_out = Append(@, frame)]
  BY <1>2, <1>3, <1>4 DEF send_datagram
<1> HIDE DEF frame
<1>6. [ni EXCEPT !.frames_out = Append(@, frame)] =
        Interface(<<frame>>, ni.time, ni.map, ni.pending_ip, ni.pending_dgram)
  BY DEF IsNic, Interface
<1> QED BY <1>5, <1>6 DEF frame

\* send_datagram without one: an expired mapping goes, the datagram waits, and
\* a request is made and noted if it may be.
LEMMA SendUnknown ==
  ASSUME NEW ni, IsNic(ni), NEW n \in Neighbours, NEW dgram, ~ Known(ni, n)
  PROVE  send_datagram(ni, dgram, n) =
           Interface(IF MayAsk(ni, n) THEN <<ARPRequest(n)>> ELSE << >>,
                     ni.time, Erase(ni.map, n),
                     IF MayAsk(ni, n) THEN Insert(ni.pending_ip, n, ni.time)
                     ELSE ni.pending_ip,
                     Enqueue(ni.pending_dgram, n, dgram))
<1>1. mac_of(ni, n) = NoMac
  BY DEF mac_of, Known
<1>2. map_lookup(ni, n) = [ni EXCEPT !.map = Erase(ni.map, n)]
  <2>1. CASE Expired(ni, n)
    BY <2>1 DEF map_lookup
  <2>2. CASE ~ Expired(ni, n)
    <3>1. n \notin DOMAIN ni.map
      BY <2>2 DEF Known
    <3>2. Erase(ni.map, n) = ni.map
      BY <3>1 DEF Erase, IsNic, IsTable
    <3>3. ni = [ni EXCEPT !.map = ni.map]
      BY DEF IsNic, Interface
    <3> QED BY <2>2, <3>2, <3>3 DEF map_lookup
  <2> QED BY <2>1, <2>2
<1> DEFINE m  == Erase(ni.map, n)
           pd == Enqueue(ni.pending_dgram, n, dgram)
           pi == Insert(ni.pending_ip, n, ni.time)
           looked == [ni EXCEPT !.map = m]
           queued == [looked EXCEPT !.pending_dgram = Enqueue(@, n, dgram)]
<1>3. queued = Interface(<< >>, ni.time, m, ni.pending_ip, pd)
  <2> HIDE DEF m
  <2>1. looked = Interface(<< >>, ni.time, m, ni.pending_ip, ni.pending_dgram)
    BY DEF IsNic, Interface
  <2> HIDE DEF looked
  <2> QED BY <2>1 DEF Interface
<1>4. send_datagram(ni, dgram, n) =
        IF MayAsk(ni, n)
        THEN send_arp([queued EXCEPT !.pending_ip = Insert(@, n, ni.time)], n)
        ELSE queued
  BY <1>1, <1>2 DEF send_datagram
<1> HIDE DEF m, pd, queued
<1>5. [queued EXCEPT !.pending_ip = Insert(@, n, ni.time)] =
        Interface(<< >>, ni.time, m, pi, pd)
  BY <1>3 DEF Interface
<1> HIDE DEF pi
<1>6. send_arp(Interface(<< >>, ni.time, m, pi, pd), n) =
        Interface(<<ARPRequest(n)>>, ni.time, m, pi, pd)
  BY DEF send_arp, Interface, ARPRequest
<1> QED BY <1>3, <1>4, <1>5, <1>6 DEF m, pd, pi

\* A frame that recv_frame may send, when it is given an ARP message from ip at
\* mac: a reply, or a datagram that waited for ip, to mac.
Sendable(frame, ni, ip, mac) ==
  \/ frame.type = "ARP" /\ frame.opcode = "reply"
  \/ /\ ip \in DOMAIN ni.pending_dgram
     /\ \E j \in DOMAIN ni.pending_dgram[ip] :
          frame = IPv4Frame(MyMac, mac, ni.pending_dgram[ip][j])

\* The datagrams that wait for an address leave to it when it is learned, and
\* the request is no longer pending.
LEMMA Flushed ==
  ASSUME NEW ni, IsNic(ni), DOMAIN ni.pending_dgram = DOMAIN ni.pending_ip,
         NEW ip \in Neighbours, NEW mac, NEW m
  PROVE  \E frames \in Seq({IPv4Frame(MyMac, mac, d) : d \in [hop : Neighbours, number : Nat]}) :
           /\ Flush(Interface(<< >>, ni.time, m, ni.pending_ip, ni.pending_dgram), ip, mac) =
                Interface(frames, ni.time, m, Erase(ni.pending_ip, ip), Erase(ni.pending_dgram, ip))
           /\ \A k \in DOMAIN frames : Sendable(frames[k], ni, ip, mac)
<1> DEFINE learned == Interface(<< >>, ni.time, m, ni.pending_ip, ni.pending_dgram)
           Frame(d) == IPv4Frame(MyMac, mac, d)
           Dgrams == [hop : Neighbours, number : Nat]
           Sent == {Frame(d) : d \in Dgrams}
<1>1. /\ learned.pending_ip = ni.pending_ip /\ learned.pending_dgram = ni.pending_dgram
      /\ learned.frames_out = << >> /\ learned.mac = MyMac
  BY DEF Interface
<1>2. CASE ip \notin DOMAIN ni.pending_ip
  <2>1. Erase(ni.pending_ip, ip) = ni.pending_ip /\ Erase(ni.pending_dgram, ip) = ni.pending_dgram
    BY <1>2, SMTT(60), Zenon DEF Erase, IsNic, IsTable
  <2>2. Flush(learned, ip, mac) = learned
    BY <1>1, <1>2 DEF Flush
  <2>3. << >> \in Seq(Sent) /\ \A k \in DOMAIN << >> : Sendable(<< >>[k], ni, ip, mac)
    OBVIOUS
  <2> QED BY <2>1, <2>2, <2>3, ZenonT(60)
<1>3. CASE ip \in DOMAIN ni.pending_ip
  <2> DEFINE waiting == ni.pending_dgram[ip]
             frames  == [k \in DOMAIN waiting |-> Frame(waiting[k])]
             pi      == Erase(ni.pending_ip, ip)
             pd      == Erase(ni.pending_dgram, ip)
  <2>1. waiting \in Seq(Dgrams)
    BY <1>3, ZenonT(60) DEF IsNic, IsTable
  <2>2. frames \in Seq(Sent)
    <3> HIDE DEF waiting, Frame, Dgrams
    <3>1. \A k \in 1 .. Len(waiting) : Frame(waiting[k]) \in Sent
      BY <2>1
    <3>2. DOMAIN waiting = 1 .. Len(waiting) /\ Len(waiting) \in Nat
      BY <2>1, SMTT(60), Zenon
    <3> HIDE DEF Sent
    <3> QED BY <3>1, <3>2
  <2>3. \A k \in DOMAIN frames : Sendable(frames[k], ni, ip, mac)
    BY <1>3, SMTT(60), Zenon DEF Sendable
  <2>4. Flush(learned, ip, mac) =
          [learned EXCEPT !.pending_ip = pi, !.pending_dgram = pd, !.frames_out = << >> \o frames]
    BY <1>1, <1>3, ZenonT(60) DEF Flush
  <2> HIDE DEF frames, pi, pd, waiting, Sent, Frame
  <2>5. << >> \o frames = frames
    BY <2>2
  <2>6. Flush(learned, ip, mac) = Interface(frames, ni.time, m, pi, pd)
    BY <2>4, <2>5, ZenonT(60) DEF Interface
  <2> QED BY <2>2, <2>3, <2>6, ZenonT(60) DEF Sent, Frame, Dgrams, pi, pd
<1> QED BY <1>2, <1>3, ZenonT(60)

\* recv_frame of an ARP message that is for this interface.
LEMMA Received ==
  ASSUME NEW ni, IsNic(ni), DOMAIN ni.pending_dgram = DOMAIN ni.pending_ip,
         NEW f, FromNeighbour(f), Accepts(ni, f)
  PROVE  \E frames :
           /\ recv_frame(ni, f) =
                Interface(frames, ni.time,
                          Insert(ni.map, f.sender_ip, [mac |-> f.sender_mac, time |-> ni.time]),
                          Erase(ni.pending_ip, f.sender_ip),
                          Erase(ni.pending_dgram, f.sender_ip))
           /\ \A k \in DOMAIN frames : Sendable(frames[k], ni, f.sender_ip, f.sender_mac)
<1> DEFINE ip  == f.sender_ip
           mac == f.sender_mac
           m   == Insert(ni.map, ip, [mac |-> mac, time |-> ni.time])
           pi  == Erase(ni.pending_ip, ip)
           pd  == Erase(ni.pending_dgram, ip)
           learned == Interface(<< >>, ni.time, m, ni.pending_ip, ni.pending_dgram)
           Sent == {IPv4Frame(MyMac, mac, d) : d \in [hop : Neighbours, number : Nat]}
<1>1. ip \in Neighbours /\ f.type = "ARP"
  BY DEF FromNeighbour
<1>2. Learn(ni, ip, mac) = learned
  <2> HIDE DEF m
  <2>1. Learn(ni, ip, mac) = [ni EXCEPT !.map = m]
    BY DEF Learn, m
  <2> QED BY <2>1 DEF IsNic, Interface
<1>3. PICK gone \in Seq(Sent) :
        /\ Flush(learned, ip, mac) = Interface(gone, ni.time, m, pi, pd)
        /\ \A k \in DOMAIN gone : Sendable(gone[k], ni, ip, mac)
  <2> HIDE DEF m
  <2> QED BY <1>1, Flushed, ZenonT(60)
<1> DEFINE flushed == Interface(gone, ni.time, m, pi, pd)
           reply   == ARPFrame(MyMac, f.sender_mac, "reply", MyIp, f.sender_mac, f.sender_ip)
<1>4. recv_frame(ni, f) = Answer(flushed, f)
  BY <1>1, <1>2, <1>3 DEF recv_frame
<1>5. Sendable(reply, ni, ip, mac)
  BY DEF Sendable, ARPFrame
<1> HIDE DEF m, pi, pd, reply, Sent
<1>6. Answer(flushed, f) \in {flushed, Interface(Append(gone, reply), ni.time, m, pi, pd)}
  <2>1. flushed.mac = MyMac /\ flushed.ip = MyIp /\ flushed.frames_out = gone
    BY DEF Interface
  <2>2. Answer(flushed, f) \in {flushed, [flushed EXCEPT !.frames_out = Append(@, reply)]}
    BY <2>1 DEF Answer, reply
  <2> DEFINE longer == Append(gone, reply)
  <2>3. Answer(flushed, f) \in {flushed, [flushed EXCEPT !.frames_out = longer]}
    BY <2>1, <2>2
  <2> HIDE DEF longer
  <2>4. [flushed EXCEPT !.frames_out = longer] = Interface(longer, ni.time, m, pi, pd)
    BY DEF Interface
  <2> QED BY <2>3, <2>4 DEF longer
<1>7. \A k \in DOMAIN Append(gone, reply) : Sendable(Append(gone, reply)[k], ni, ip, mac)
  <2>1. DOMAIN gone = 1 .. Len(gone) /\ Len(gone) \in Nat
    OBVIOUS
  <2>2. /\ DOMAIN Append(gone, reply) = 1 .. Len(gone) + 1
        /\ Append(gone, reply)[Len(gone) + 1] = reply
        /\ \A k \in 1 .. Len(gone) : Append(gone, reply)[k] = gone[k]
    OBVIOUS
  <2> TAKE k \in DOMAIN Append(gone, reply)
  <2>3. k \in 1 .. Len(gone) \/ k = Len(gone) + 1
    BY <2>1, <2>2, SMTT(60), Zenon
  <2> QED BY <1>3, <1>5, <2>1, <2>2, <2>3
<1>8. CASE Answer(flushed, f) = flushed
  BY <1>3, <1>4, <1>8, SMTT(60), Zenon DEF m, pi, pd
<1>9. CASE Answer(flushed, f) = Interface(Append(gone, reply), ni.time, m, pi, pd)
  BY <1>4, <1>7, <1>9, ZenonT(60) DEF m, pi, pd
<1> QED BY <1>6, <1>8, <1>9

-------------------------------------------------------------------------------
\* A table with an entry more.
LEMMA Inserted ==
  ASSUME NEW S, NEW f, IsTable(f, S), NEW n \in Neighbours, NEW v \in S
  PROVE  /\ IsTable(Insert(f, n, v), S)
         /\ DOMAIN Insert(f, n, v) = DOMAIN f \union {n}
         /\ Insert(f, n, v)[n] = v
         /\ \A x \in DOMAIN f \ {n} : Insert(f, n, v)[x] = f[x]
BY DEF IsTable, Insert

\* A table with an entry less.
LEMMA Erased ==
  ASSUME NEW S, NEW f, IsTable(f, S), NEW n \in Neighbours
  PROVE  /\ IsTable(Erase(f, n), S) /\ DOMAIN Erase(f, n) = DOMAIN f \ {n}
         /\ \A x \in DOMAIN f \ {n} : Erase(f, n)[x] = f[x]
BY DEF IsTable, Erase

\* What RequestsSpaced says of one step.
Spaced ==
  \A n \in Neighbours :
    (\E k \in DOMAIN out' : Request(out'[k], n)) =>
      \A t \in requested[n] : nic'.time - t > ARPTTL

\* A new interface has empty tables, and nobody was heard or asked for.
LEMMA InitLinked == Init => Linked /\ FreshAddress
<1> SUFFICES ASSUME Init PROVE Linked /\ FreshAddress
  OBVIOUS
<1>1. nic = Interface(<< >>, 0, << >>, << >>, << >>)
  BY DEF Init, NewInterface, Interface
<1>2. /\ nic.time = 0 /\ nic.map = << >> /\ nic.pending_ip = << >> /\ nic.pending_dgram = << >>
  BY <1>1 DEF Interface
<1>3. \A S : IsTable(<< >>, S)
  BY DEF IsTable
<1>4. IsNic(nic)
  BY <1>1, <1>2, <1>3 DEF IsNic
<1>5. \A n \in Neighbours : LinkedTo(n)
  BY <1>2 DEF LinkedTo, Init
<1>6. WaitsOnlyForAnswer
  BY <1>2 DEF WaitsOnlyForAnswer
<1>7. FreshAddress
  BY DEF Init, FreshAddress
<1> QED BY <1>4, <1>5, <1>6, <1>7 DEF Init, Linked

\* A step that leaves the interface, what was heard and what was asked as they
\* are.
LEMMA Quiet ==
  ASSUME Linked, nic' = nic,
         \A n \in Neighbours : heard'[n] = heard[n] /\ requested'[n] = requested[n],
         \A f \in wire' : f.src = MyMac \/ FromNeighbour(f),
         card' \in [Neighbours -> 1 .. 2], asked' \in [Neighbours -> Nat]
  PROVE  Linked'
<1>1. \A n \in Neighbours : LinkedTo(n)'
  BY ZenonT(60) DEF Linked, LinkedTo
<1>2. WaitsOnlyForAnswer' /\ IsNic(nic)'
  BY DEF Linked, WaitsOnlyForAnswer
<1>3. (\A f \in wire : f.src = MyMac \/ FromNeighbour(f))'
  BY DEF FromNeighbour
<1> QED BY <1>1, <1>2, <1>3 DEF Linked

\* A step that sends nothing.
LEMMA Silent ==
  ASSUME out' = << >> PROVE FreshAddress' /\ Spaced
BY DEF FreshAddress, Spaced

\* The frames of an interface, and what is left when they are taken.
LEMMA Taken ==
  ASSUME NEW frames, NEW time, NEW m, NEW pi, NEW pd, NEW ni,
         ni = Interface(frames, time, m, pi, pd)
  PROVE  /\ ni.frames_out = frames /\ ni.time = time
         /\ [ni EXCEPT !.frames_out = << >>] = Interface(<< >>, time, m, pi, pd)
BY DEF Interface

\* send_datagram to a neighbour that is known.
LEMMA SendKnownStep ==
  ASSUME Linked, NEW n \in Neighbours, Send(n), Known(nic, n)
  PROVE  Linked' /\ FreshAddress' /\ Spaced
<1> DEFINE dgram == [hop |-> n, number |-> asked[n] + 1]
           frame == IPv4Frame(MyMac, nic.map[n].mac, dgram)
<1>1. IsNic(nic) /\ LinkedTo(n)
  BY DEF Linked
<1> DEFINE ni == send_datagram(nic, dgram, n)
<1>2. /\ ni.frames_out = <<frame>> /\ ni.time = nic.time
      /\ [ni EXCEPT !.frames_out = << >>] = nic
  <2>1. ni = Interface(<<frame>>, nic.time, nic.map, nic.pending_ip, nic.pending_dgram)
    BY <1>1, SendKnown
  <2>2. nic = Interface(<< >>, nic.time, nic.map, nic.pending_ip, nic.pending_dgram)
    BY <1>1 DEF IsNic
  <2> HIDE DEF ni, frame
  <2> QED BY <2>1, <2>2, Taken, SMTT(60), Zenon
<1>3. /\ frame.type = "IPv4" /\ frame.dst = nic.map[n].mac /\ frame.dgram.hop = n
      /\ \A x : ~ Request(frame, x)
  BY DEF IPv4Frame, Request
<1> HIDE DEF frame
<1>4. /\ nic' = nic /\ out' = <<frame>> /\ card' = card
      /\ \A f \in wire' : f \in wire
      /\ \A x \in Neighbours : requested'[x] = requested[x]
  <2>1. Become(ni, wire)
    BY DEF Send
  <2> HIDE DEF ni
  <2>2. nic' = nic /\ out' = <<frame>> /\ card' = card
    BY <1>2, <2>1 DEF Become
  <2>3. \A x : \A k \in DOMAIN out' : ~ Request(out'[k], x)
    BY <1>3, <2>2, SMTT(60), Zenon
  <2> QED BY <2>1, <2>2, <2>3 DEF Become
<1>5. Linked'
  <2>1. heard' = heard /\ asked' \in [Neighbours -> Nat]
    BY DEF Send, Linked
  <2>2. card \in [Neighbours -> 1 .. 2] /\ \A f \in wire : f.src = MyMac \/ FromNeighbour(f)
    BY DEF Linked
  <2> QED BY <1>4, <2>1, <2>2, Quiet
<1>6. FreshAddress'
  <2>1. heard'[n] = {nic.map[n]}
    BY <1>1 DEF Send, LinkedTo, Known
  <2>2. nic.time - nic.map[n].time <= TTL
    <3>1. nic.time \in Nat /\ nic.map[n].time \in Nat
      BY <1>1 DEF IsNic, IsTable, Known
    <3> QED BY <3>1, InterfaceAssumption, SMTT(60), Zenon DEF Known, Expired
  <2> QED BY <1>3, <1>4, <2>1, <2>2, SMTT(60), Zenon DEF FreshAddress
<1>7. Spaced
  BY <1>3, <1>4, SMTT(60), Zenon DEF Spaced
<1> QED BY <1>5, <1>6, <1>7

\* The queue of a neighbour with one more datagram.
LEMMA Enqueued ==
  ASSUME NEW pd, IsTable(pd, Seq([hop : Neighbours, number : Nat])), NEW n \in Neighbours,
         n \in DOMAIN pd => pd[n] \in Seq(Datagrams(n)), NEW d \in Datagrams(n)
  PROVE  /\ IsTable(Enqueue(pd, n, d), Seq([hop : Neighbours, number : Nat]))
         /\ DOMAIN Enqueue(pd, n, d) = DOMAIN pd \union {n}
         /\ Enqueue(pd, n, d)[n] \in Seq(Datagrams(n)) /\ Enqueue(pd, n, d)[n] # << >>
         /\ \A x \in DOMAIN pd \ {n} : Enqueue(pd, n, d)[x] = pd[x]
<1> DEFINE S == [hop : Neighbours, number : Nat]
           D == Datagrams(n)
           longer == IF n \in DOMAIN pd THEN Append(pd[n], d) ELSE <<d>>
<1>1. d \in S
  BY DEF Datagrams
<1>2. n \in DOMAIN pd => pd[n] \in Seq(S)
  BY ZenonT(60) DEF IsTable
<1> HIDE DEF S, D
<1>3. longer \in Seq(S) /\ longer \in Seq(D) /\ longer # << >>
  <2>1. CASE n \in DOMAIN pd
    <3>1. pd[n] \in Seq(S) /\ pd[n] \in Seq(D) /\ d \in D
      BY <1>2, <2>1 DEF D
    <3>2. Append(pd[n], d) \in Seq(S) /\ Append(pd[n], d) \in Seq(D)
      BY <1>1, <3>1
    <3>3. Len(Append(pd[n], d)) = Len(pd[n]) + 1 /\ Len(pd[n]) \in Nat
      BY <1>1, <3>1
    <3>4. Append(pd[n], d) # << >>
      BY <3>3
    <3> QED BY <2>1, <3>2, <3>4
  <2>2. CASE n \notin DOMAIN pd
    BY <1>1, <2>2 DEF D
  <2> QED BY <2>1, <2>2
<1>4. Enqueue(pd, n, d) = Insert(pd, n, longer)
  BY DEF Enqueue
<1> HIDE DEF longer
<1> HIDE DEF D
<1>5. /\ IsTable(Insert(pd, n, longer), Seq(S))
      /\ DOMAIN Insert(pd, n, longer) = DOMAIN pd \union {n}
      /\ Insert(pd, n, longer)[n] = longer
      /\ \A x \in DOMAIN pd \ {n} : Insert(pd, n, longer)[x] = pd[x]
  <2> DEFINE T == Seq(S)
  <2>1. IsTable(pd, T) /\ longer \in T
    BY <1>3 DEF S
  <2> HIDE DEF T
  <2>2. /\ IsTable(Insert(pd, n, longer), T)
        /\ DOMAIN Insert(pd, n, longer) = DOMAIN pd \union {n}
        /\ Insert(pd, n, longer)[n] = longer
        /\ \A x \in DOMAIN pd \ {n} : Insert(pd, n, longer)[x] = pd[x]
    BY <2>1 DEF IsTable, Insert
  <2> QED BY <2>2 DEF T
<1> QED BY <1>3, <1>4, <1>5 DEF S, D

\* send_datagram to a neighbour that is not known: its mapping is gone, and it
\* is asked for, now or a while ago.
LEMMA SendUnknownStep ==
  ASSUME Linked, NEW n \in Neighbours, Send(n), ~ Known(nic, n)
  PROVE  Linked' /\ FreshAddress' /\ Spaced
<1> DEFINE dgram == [hop |-> n, number |-> asked[n] + 1]
           ni == send_datagram(nic, dgram, n)
           frames == IF MayAsk(nic, n) THEN <<ARPRequest(n)>> ELSE << >>
           m  == Erase(nic.map, n)
           pi == IF MayAsk(nic, n) THEN Insert(nic.pending_ip, n, nic.time) ELSE nic.pending_ip
           pd == Enqueue(nic.pending_dgram, n, dgram)
<1>1. IsNic(nic) /\ WaitsOnlyForAnswer /\ \A x \in Neighbours : LinkedTo(x)
  BY SMTT(60), Zenon DEF Linked
<1>2. /\ IsTable(nic.map, [mac : Macs, time : Nat]) /\ IsTable(nic.pending_ip, Nat)
      /\ IsTable(nic.pending_dgram, Seq([hop : Neighbours, number : Nat])) /\ nic.time \in Nat
  BY <1>1, SMTT(60), Zenon DEF IsNic
<1>3. /\ IsTable(m, [mac : Macs, time : Nat]) /\ DOMAIN m = DOMAIN nic.map \ {n}
      /\ \A x \in DOMAIN m : m[x] = nic.map[x]
  <2> DEFINE q == nic.map
             S == [mac : Macs, time : Nat]
  <2>1. IsTable(q, S)
    BY <1>2
  <2> HIDE DEF q, S
  <2>2. /\ IsTable(Erase(q, n), S) /\ DOMAIN Erase(q, n) = DOMAIN q \ {n}
        /\ \A x \in DOMAIN q \ {n} : Erase(q, n)[x] = q[x]
    BY <2>1, Erased, ZenonT(60)
  <2> QED BY <2>2, SMTT(60), Zenon DEF q, S
<1>4. ~ MayAsk(nic, n) => n \in DOMAIN nic.pending_ip
  BY DEF MayAsk
<1>5. /\ IsTable(pi, Nat) /\ DOMAIN pi = DOMAIN nic.pending_ip \union {n}
      /\ \A x \in DOMAIN pi \ {n} : pi[x] = nic.pending_ip[x]
      /\ pi[n] = IF MayAsk(nic, n) THEN nic.time ELSE nic.pending_ip[n]
  <2> DEFINE q == nic.pending_ip
  <2>1. IsTable(q, Nat) /\ nic.time \in Nat
    BY <1>2, SMTT(60), Zenon
  <2> HIDE DEF q
  <2>2. /\ IsTable(Insert(q, n, nic.time), Nat) /\ Insert(q, n, nic.time)[n] = nic.time
        /\ DOMAIN Insert(q, n, nic.time) = DOMAIN q \union {n}
        /\ \A x \in DOMAIN q \ {n} : Insert(q, n, nic.time)[x] = q[x]
    BY <2>1, Inserted, SMTT(60), Zenon
  <2>3. CASE MayAsk(nic, n)
    BY <2>2, <2>3, SMTT(60), Zenon DEF q
  <2>4. CASE ~ MayAsk(nic, n)
    BY <1>2, <1>4, <2>4, SMTT(60), Zenon
  <2> QED BY <2>3, <2>4, SMTT(60), Zenon
<1>6. /\ IsTable(pd, Seq([hop : Neighbours, number : Nat]))
      /\ DOMAIN pd = DOMAIN nic.pending_dgram \union {n}
      /\ pd[n] \in Seq(Datagrams(n)) /\ pd[n] # << >>
      /\ \A x \in DOMAIN pd \ {n} : pd[x] = nic.pending_dgram[x]
  <2>1. dgram \in Datagrams(n)
    BY SMTT(60), Zenon DEF Linked, Datagrams
  <2>2. n \in DOMAIN nic.pending_dgram => nic.pending_dgram[n] \in Seq(Datagrams(n))
    BY <1>1, SMTT(60), Zenon DEF LinkedTo
  <2> DEFINE q == nic.pending_dgram
  <2>3. /\ IsTable(q, Seq([hop : Neighbours, number : Nat]))
        /\ n \in DOMAIN q => q[n] \in Seq(Datagrams(n))
    BY <1>2, <2>2, SMTT(60), Zenon
  <2> HIDE DEF dgram, q
  <2>4. /\ IsTable(Enqueue(q, n, dgram), Seq([hop : Neighbours, number : Nat]))
        /\ DOMAIN Enqueue(q, n, dgram) = DOMAIN q \union {n}
        /\ Enqueue(q, n, dgram)[n] \in Seq(Datagrams(n)) /\ Enqueue(q, n, dgram)[n] # << >>
        /\ \A x \in DOMAIN q \ {n} : Enqueue(q, n, dgram)[x] = q[x]
    BY <2>1, <2>3, Enqueued, ZenonT(60)
  <2> QED BY <2>4 DEF q
<1>7. /\ ni.frames_out = frames /\ ni.time = nic.time
      /\ [ni EXCEPT !.frames_out = << >>] = Interface(<< >>, nic.time, m, pi, pd)
  <2>1. ni = Interface(frames, nic.time, m, pi, pd)
    BY <1>1, SendUnknown
  <2> HIDE DEF ni, frames, m, pi, pd
  <2> QED BY <2>1, Taken
<1>8. /\ MayAsk(nic, n) => \A k \in DOMAIN frames :
           frames[k].type = "ARP" /\ frames[k].src = MyMac /\ frames[k].target_ip = n
           /\ frames[k].opcode = "request"
      /\ MayAsk(nic, n) => 1 \in DOMAIN frames
      /\ ~ MayAsk(nic, n) => frames = << >>
  BY SMTT(60), Zenon DEF ARPRequest, ARPFrame
<1> HIDE DEF m, pi, pd
<1>9. /\ nic' = Interface(<< >>, nic.time, m, pi, pd) /\ out' = frames /\ card' = card
      /\ \A f \in wire' : f \in wire \/ f.src = MyMac
      /\ \A x \in Neighbours :
           requested'[x] = IF MayAsk(nic, n) /\ x = n THEN {nic.time} ELSE requested[x]
  <2>1. Become(ni, wire)
    BY DEF Send
  <2> HIDE DEF ni, frames
  <2>2. /\ nic' = Interface(<< >>, nic.time, m, pi, pd) /\ out' = frames /\ card' = card
        /\ wire' = wire \union {f \in {out'[k] : k \in DOMAIN out'} :
                                  \E x \in Neighbours : Request(f, x)}
        /\ requested' = [x \in Neighbours |->
             IF \E k \in DOMAIN out' : Request(out'[k], x) THEN {nic.time} ELSE requested[x]]
    BY <1>7, <2>1, SMTT(60), Zenon DEF Become
  <2>3. \A x : (\E k \in DOMAIN out' : Request(out'[k], x)) <=> (MayAsk(nic, n) /\ x = n)
    BY <1>8, <2>2, SMTT(60), Zenon DEF Request
  <2>4. \A k \in DOMAIN out' : out'[k].src = MyMac
    BY <1>8, <2>2, SMTT(60), Zenon
  <2> QED BY <2>2, <2>3, <2>4, SMTT(60), Zenon
<1>10. /\ nic'.time = nic.time /\ nic'.map = m /\ nic'.pending_ip = pi
       /\ nic'.pending_dgram = pd
  BY <1>9, SMTT(60), Zenon DEF Interface
<1>11. IsNic(nic)'
  BY <1>2, <1>3, <1>5, <1>6, <1>9, <1>10, ZenonT(60) DEF IsNic, Interface
<1>12. heard' = heard /\ asked' \in [Neighbours -> Nat]
  BY SMTT(60), Zenon DEF Send, Linked
<1>13. WaitsOnlyForAnswer'
  BY <1>1, <1>3, <1>5, <1>6, <1>10 DEF WaitsOnlyForAnswer
<1>14. \A x \in Neighbours : LinkedTo(x)'
  <2> SUFFICES ASSUME NEW x \in Neighbours PROVE LinkedTo(x)'
    BY SMTT(60), Zenon
  <2>1. CASE x # n
    <3>1. /\ x \in DOMAIN nic'.map <=> x \in DOMAIN nic.map
          /\ x \in DOMAIN nic.map => nic'.map[x] = nic.map[x]
      BY <1>3, <1>10, <2>1, SMTT(60), Zenon
    <3>2. /\ x \in DOMAIN nic'.pending_ip <=> x \in DOMAIN nic.pending_ip
          /\ x \in DOMAIN nic.pending_ip => nic'.pending_ip[x] = nic.pending_ip[x]
      BY <1>5, <1>10, <2>1, SMTT(60), Zenon
    <3>3. /\ x \in DOMAIN nic'.pending_dgram <=> x \in DOMAIN nic.pending_dgram
          /\ x \in DOMAIN nic.pending_dgram => nic'.pending_dgram[x] = nic.pending_dgram[x]
      BY <1>6, <1>10, <2>1, SMTT(60), Zenon
    <3>4. requested'[x] = requested[x] /\ heard'[x] = heard[x] /\ nic'.time = nic.time
      BY <1>9, <1>10, <1>12, <2>1
    <3>5. LinkedTo(x)
      BY <1>1, SMTT(60), Zenon
    <3> QED BY <3>1, <3>2, <3>3, <3>4, <3>5, SMTT(60), Zenon DEF LinkedTo
  <2>2. CASE x = n
    <3>1. n \notin DOMAIN nic'.map /\ n \in DOMAIN nic'.pending_ip
      BY <1>3, <1>5, <1>10, SMTT(60), Zenon
    <3>2. /\ n \in DOMAIN nic.pending_ip => requested[n] = {nic.pending_ip[n]}
          /\ \A t \in requested[n] : t \in Nat /\ t <= nic.time
      <4>1. LinkedTo(n)
        BY <1>1, Zenon
      <4> QED BY <4>1 DEF LinkedTo
    <3>3. requested'[n] = IF MayAsk(nic, n) THEN {nic.time} ELSE requested[n]
      BY <1>9, ZenonT(60)
    <3>4. requested'[n] = {nic'.pending_ip[n]}
      BY <1>4, <1>5, <1>10, <3>2, <3>3, SMTT(60), Zenon
    <3>5. \A t \in requested'[n] : t \in Nat /\ t <= nic'.time
      BY <1>2, <1>10, <3>2, <3>3, SMTT(60), Zenon
    <3> QED BY <1>6, <1>10, <2>2, <3>1, <3>4, <3>5, SMTT(60), Zenon DEF LinkedTo
  <2> QED BY <2>1, <2>2
<1>15. Linked'
  <2>1. (\A f \in wire : f.src = MyMac \/ FromNeighbour(f))'
    <3>1. \A f \in wire : f.src = MyMac \/ FromNeighbour(f)
      BY SMTT(60), Zenon DEF Linked
    <3>2. \A f \in wire' : f.src = MyMac \/ FromNeighbour(f)
      BY <1>9, <3>1, SMTT(60), Zenon
    <3> QED BY <3>2 DEF FromNeighbour
  <2> QED BY <1>9, <1>11, <1>12, <1>13, <1>14, <2>1, SMTT(60), Zenon DEF Linked
<1>16. FreshAddress'
  BY <1>8, <1>9, SMTT(60), Zenon DEF FreshAddress
<1>17. Spaced
  <2> SUFFICES ASSUME MayAsk(nic, n), NEW t \in requested[n]
               PROVE  nic.time - t > ARPTTL
    BY <1>8, <1>9, <1>10, SMTT(60), Zenon DEF Spaced, Request
  <2>1. /\ t \in Nat /\ n \in DOMAIN nic.pending_ip \union DOMAIN nic.map
        /\ n \in DOMAIN nic.pending_ip => t = nic.pending_ip[n]
        /\ n \in DOMAIN nic.map => t <= nic.map[n].time
    BY <1>1, SMTT(60), Zenon DEF LinkedTo
  <2>2. CASE n \in DOMAIN nic.pending_ip
    BY <2>1, <2>2, SMTT(60), Zenon DEF MayAsk
  <2>3. CASE n \in DOMAIN nic.map
    <3>1. nic.map[n].time \in Nat
      BY <1>2, <2>3, SMTT(60), Zenon DEF IsTable
    <3>2. nic.time - nic.map[n].time > TTL
      BY <2>3 DEF Known, Expired
    <3> QED BY <1>2, <2>1, <2>3, <3>1, <3>2, InterfaceAssumption, SMTT(60), Zenon
  <2> QED BY <2>1, <2>2, <2>3, SMTT(60), Zenon
<1> QED BY <1>15, <1>16, <1>17


\* recv_frame of an ARP message: the sender's mapping is the newest there is,
\* and nothing waits for it any more.
LEMMA ReceiveStep ==
  ASSUME Linked, NEW f, FromNeighbour(f), Accepts(nic, f),
         nic' = [recv_frame(nic, f) EXCEPT !.frames_out = << >>],
         out' = recv_frame(nic, f).frames_out,
         \A g \in wire' : \/ g.src = MyMac \/ FromNeighbour(g)
                          \/ \E k \in DOMAIN out', n \in Neighbours : g = out'[k] /\ Request(g, n),
         \A n \in Neighbours : (\A k \in DOMAIN out' : ~ Request(out'[k], n)) =>
                                 requested'[n] = requested[n],
         \A n \in Neighbours : heard'[n] = IF f.sender_ip = n
                                           THEN {[mac |-> f.sender_mac, time |-> nic.time]}
                                           ELSE heard[n],
         card' = card, asked' = asked
  PROVE  Linked' /\ FreshAddress' /\ Spaced
<1> DEFINE ip    == f.sender_ip
           entry == [mac |-> f.sender_mac, time |-> nic.time]
           m  == Insert(nic.map, ip, entry)
           pi == Erase(nic.pending_ip, ip)
           pd == Erase(nic.pending_dgram, ip)
<1>1. /\ IsNic(nic) /\ WaitsOnlyForAnswer /\ \A x \in Neighbours : LinkedTo(x)
      /\ ip \in Neighbours /\ f.sender_mac \in Macs
  BY DEF Linked, FromNeighbour
<1>2. PICK frames : /\ recv_frame(nic, f) = Interface(frames, nic.time, m, pi, pd)
                    /\ \A k \in DOMAIN frames : Sendable(frames[k], nic, ip, f.sender_mac)
  <2>1. DOMAIN nic.pending_dgram = DOMAIN nic.pending_ip
    BY <1>1 DEF WaitsOnlyForAnswer
  <2> QED BY <1>1, <2>1, Received, ZenonT(60)
<1>3. /\ nic.time \in Nat /\ entry \in [mac : Macs, time : Nat]
      /\ entry.mac = f.sender_mac /\ entry.time = nic.time
  BY <1>1 DEF IsNic
<1>4. /\ IsTable(m, [mac : Macs, time : Nat]) /\ DOMAIN m = DOMAIN nic.map \union {ip}
      /\ m[ip] = entry /\ \A x \in DOMAIN nic.map \ {ip} : m[x] = nic.map[x]
  <2>1. IsTable(nic.map, [mac : Macs, time : Nat])
    BY <1>1 DEF IsNic
  <2> HIDE DEF entry, ip
  <2> QED BY <1>1, <1>3, <2>1 DEF IsTable, Insert
<1>5. /\ IsTable(pi, Nat) /\ DOMAIN pi = DOMAIN nic.pending_ip \ {ip}
      /\ \A x \in DOMAIN pi : pi[x] = nic.pending_ip[x]
  <2>1. IsTable(nic.pending_ip, Nat)
    BY <1>1 DEF IsNic
  <2> QED BY <2>1 DEF IsTable, Erase
<1>6. /\ IsTable(pd, Seq([hop : Neighbours, number : Nat]))
      /\ DOMAIN pd = DOMAIN nic.pending_dgram \ {ip}
      /\ \A x \in DOMAIN pd : pd[x] = nic.pending_dgram[x]
  <2>1. IsTable(nic.pending_dgram, Seq([hop : Neighbours, number : Nat]))
    BY <1>1 DEF IsNic
  <2> QED BY <2>1, ZenonT(60) DEF IsTable, Erase
<1> HIDE DEF ip, entry, m, pi, pd
<1>7. out' = frames /\ nic' = Interface(<< >>, nic.time, m, pi, pd)
  BY <1>2, Taken
<1>8. /\ nic'.time = nic.time /\ nic'.map = m
      /\ nic'.pending_ip = pi /\ nic'.pending_dgram = pd
  BY <1>7 DEF Interface
<1>9. IsNic(nic)'
  BY <1>3, <1>4, <1>5, <1>6, <1>7, <1>8, SMTT(60), Zenon DEF IsNic
<1>10. \A x : \A k \in DOMAIN out' : ~ Request(out'[k], x)
  BY <1>2, <1>7, SMTT(60), Zenon DEF Sendable, Request, IPv4Frame
<1>11. WaitsOnlyForAnswer'
  BY <1>1, <1>4, <1>5, <1>6, <1>8 DEF WaitsOnlyForAnswer
<1>12. heard'[ip] = {entry} /\ \A x \in Neighbours \ {ip} : heard'[x] = heard[x]
  BY <1>1 DEF ip, entry
<1>13. \A x \in Neighbours : LinkedTo(x)'
  <2> TAKE x \in Neighbours
  <2>1. LinkedTo(x) /\ requested'[x] = requested[x]
    BY <1>1, <1>10, ZenonT(60)
  <2>2. CASE x = ip
    <3>1. \A t \in requested'[x] : t \in Nat /\ t <= nic'.time
      BY <1>8, <2>1, SMTT(60), Zenon DEF LinkedTo
    <3> QED BY <1>3, <1>4, <1>5, <1>6, <1>8, <1>12, <2>2, <3>1, SMTT(60), Zenon DEF LinkedTo
  <2>3. CASE x # ip
    <3>1. /\ heard'[x] = heard[x]
          /\ x \in DOMAIN m <=> x \in DOMAIN nic.map
          /\ x \in DOMAIN nic.map => m[x] = nic.map[x]
      BY <1>4, <1>12, <2>3
    <3>2. /\ x \in DOMAIN pi <=> x \in DOMAIN nic.pending_ip
          /\ x \in DOMAIN nic.pending_ip => pi[x] = nic.pending_ip[x]
          /\ x \in DOMAIN pd <=> x \in DOMAIN nic.pending_dgram
          /\ x \in DOMAIN nic.pending_dgram => pd[x] = nic.pending_dgram[x]
      BY <1>5, <1>6, <2>3, SMTT(60), Zenon
    <3> QED BY <1>8, <2>1, <3>1, <3>2, SMTT(60), Zenon DEF LinkedTo
  <2> QED BY <2>2, <2>3
<1>14. Linked'
  <2>1. (\A g \in wire : g.src = MyMac \/ FromNeighbour(g))'
    <3>1. \A g \in wire' : g.src = MyMac \/ FromNeighbour(g)
      <4> TAKE g \in wire'
      <4>1. \/ g.src = MyMac \/ FromNeighbour(g)
            \/ \E k \in DOMAIN out', n \in Neighbours : g = out'[k] /\ Request(g, n)
        BY Zenon
      <4>2. ASSUME NEW k \in DOMAIN out', NEW n \in Neighbours, g = out'[k], Request(g, n)
            PROVE  FALSE
        <5>1. ~ Request(out'[k], n)
          BY <1>10, Zenon
        <5> QED BY <4>2, <5>1, Zenon DEF Request
      <4> QED BY <4>1, <4>2, Zenon
    <3> QED BY <3>1 DEF FromNeighbour
  <2>2. (card \in [Neighbours -> 1 .. 2] /\ asked \in [Neighbours -> Nat])'
    BY SMTT(60), Zenon DEF Linked
  <2> QED BY <1>9, <1>11, <1>13, <2>1, <2>2, SMTT(60), Zenon DEF Linked
<1>15. FreshAddress'
  <2> SUFFICES ASSUME NEW k \in DOMAIN out', out'[k].type = "IPv4"
               PROVE  \E h \in heard'[out'[k].dgram.hop] :
                        out'[k].dst = h.mac /\ nic'.time - h.time <= TTL
    BY SMTT(60), Zenon DEF FreshAddress
  <2>1. PICK j \in DOMAIN nic.pending_dgram[ip] :
          /\ ip \in DOMAIN nic.pending_dgram
          /\ out'[k] = IPv4Frame(MyMac, f.sender_mac, nic.pending_dgram[ip][j])
    BY <1>2, <1>7 DEF Sendable
  <2>2. nic.pending_dgram[ip][j] \in Datagrams(ip)
    <3>1. nic.pending_dgram[ip] \in Seq(Datagrams(ip))
      BY <1>1, <2>1 DEF LinkedTo
    <3> QED BY <2>1, <3>1
  <2>3. out'[k].dgram.hop = ip /\ out'[k].dst = f.sender_mac
    BY <2>1, <2>2 DEF IPv4Frame, Datagrams
  <2> QED BY <1>3, <1>8, <1>12, <2>3, InterfaceAssumption, SMTT(60), Zenon
<1>16. Spaced
  BY <1>10, ZenonT(60) DEF Spaced
<1> QED BY <1>14, <1>15, <1>16


\* recv_frame of any frame that a neighbour sends.
LEMMA AnyReceiveStep ==
  ASSUME Linked, NEW f, FromNeighbour(f),
         nic' = [recv_frame(nic, f) EXCEPT !.frames_out = << >>],
         out' = recv_frame(nic, f).frames_out,
         \A g \in wire' : \/ g.src = MyMac \/ FromNeighbour(g)
                          \/ \E k \in DOMAIN out', n \in Neighbours : g = out'[k] /\ Request(g, n),
         \A n \in Neighbours : (\A k \in DOMAIN out' : ~ Request(out'[k], n)) =>
                                 requested'[n] = requested[n],
         Receive(f), card' = card
  PROVE  Linked' /\ FreshAddress' /\ Spaced
<1>1. asked' = asked /\ f.type = "ARP"
  BY DEF Receive, FromNeighbour
<1>2. CASE Accepts(nic, f)
  <2>1. \A n \in Neighbours : heard'[n] = IF f.sender_ip = n
                                          THEN {[mac |-> f.sender_mac, time |-> nic.time]}
                                          ELSE heard[n]
    BY <1>1, <1>2 DEF Receive
  <2> QED BY <1>1, <1>2, <2>1, ReceiveStep, ZenonT(60)
<1>3. CASE ~ Accepts(nic, f)
  <2>1. recv_frame(nic, f) = nic
    BY <1>3 DEF recv_frame
  <2>2. nic = Interface(<< >>, nic.time, nic.map, nic.pending_ip, nic.pending_dgram)
    BY DEF Linked, IsNic
  <2>3. nic' = nic /\ out' = << >>
    BY <2>1, <2>2, Taken
  <2>4. \A n \in Neighbours : heard'[n] = heard[n] /\ requested'[n] = requested[n]
    BY <1>3, <2>3 DEF Receive
  <2>5. \A g \in wire' : g.src = MyMac \/ FromNeighbour(g)
    BY <2>3
  <2>6. card' \in [Neighbours -> 1 .. 2] /\ asked' \in [Neighbours -> Nat]
    BY <1>1 DEF Linked
  <2> QED BY <2>3, <2>4, <2>5, <2>6, Quiet, Silent
<1> QED BY <1>2, <1>3

\* tick only makes what is in the tables older.
LEMMA TickStep ==
  ASSUME Linked, Tick
  PROVE  Linked' /\ FreshAddress' /\ Spaced
<1>1. /\ IsNic(nic) /\ WaitsOnlyForAnswer /\ \A x \in Neighbours : LinkedTo(x)
      /\ \A g \in wire : g.src = MyMac \/ FromNeighbour(g)
      /\ card \in [Neighbours -> 1 .. 2] /\ asked \in [Neighbours -> Nat]
  BY DEF Linked
<1> DEFINE ni == interface_tick(nic, 1)
<1>2. ni = Interface(<< >>, nic.time + 1, nic.map, nic.pending_ip, nic.pending_dgram)
  BY <1>1, SMTT(60), Zenon DEF IsNic, Interface, interface_tick
<1>3. Become(ni, wire) /\ asked' = asked /\ heard' = heard
  BY DEF Tick
<1> HIDE DEF ni
<1>4. /\ ni.frames_out = << >> /\ [ni EXCEPT !.frames_out = << >>] = ni
  BY <1>2, Taken
<1>5. nic' = ni /\ out' = << >> /\ card' = card
  BY <1>3, <1>4 DEF Become
<1>6. wire' = wire /\ \A x \in Neighbours : requested'[x] = requested[x]
  BY <1>3, <1>5, SMTT(60), Zenon DEF Become
<1>7. /\ nic'.time = nic.time + 1 /\ nic'.map = nic.map
      /\ nic'.pending_ip = nic.pending_ip /\ nic'.pending_dgram = nic.pending_dgram
  BY <1>2, <1>5, SMTT(60), Zenon DEF Interface
<1>8. IsNic(nic)'
  BY <1>1, <1>2, <1>5, <1>7, SMTT(60), Zenon DEF IsNic
<1>9. WaitsOnlyForAnswer'
  BY <1>1, <1>7, SMTT(60), Zenon DEF WaitsOnlyForAnswer
<1>10. \A x \in Neighbours : LinkedTo(x)'
  <2> TAKE x \in Neighbours
  <2>1. LinkedTo(x) /\ nic.time \in Nat /\ (x \in DOMAIN nic.map => nic.map[x].time \in Nat)
    BY <1>1, SMTT(60), Zenon DEF IsNic, IsTable
  <2> QED BY <1>3, <1>6, <1>7, <2>1, SMTT(60), Zenon DEF LinkedTo
<1>11. (\A g \in wire : g.src = MyMac \/ FromNeighbour(g))'
  BY <1>1, <1>6, SMTT(60), Zenon DEF FromNeighbour
<1>12. Linked'
  BY <1>1, <1>3, <1>5, <1>8, <1>9, <1>10, <1>11, SMTT(60), Zenon DEF Linked
<1> QED BY <1>5, <1>12, Silent

\* The link and the neighbours.
LEMMA LinkStep ==
  ASSUME Linked, Lose \/ \E n \in Neighbours : Reply(n) \/ NewCard(n)
  PROVE  Linked' /\ FreshAddress' /\ Spaced
<1>1. /\ \A g \in wire : g.src = MyMac \/ FromNeighbour(g)
      /\ card \in [Neighbours -> 1 .. 2] /\ asked \in [Neighbours -> Nat]
  BY SMTT(60), Zenon DEF Linked
<1>2. nic' = nic /\ out' = << >> /\ asked' = asked /\ heard' = heard /\ requested' = requested
  BY SMTT(60), Zenon DEF Lose, Reply, NewCard, ghosts
<1>3. card' \in [Neighbours -> 1 .. 2]
  BY <1>1 DEF Lose, Reply, NewCard
<1>4. \A g \in wire' : g.src = MyMac \/ FromNeighbour(g)
  <2>1. CASE Lose \/ \E n \in Neighbours : NewCard(n)
    BY <1>1, <2>1 DEF Lose, NewCard
  <2>2. ASSUME NEW n \in Neighbours, Reply(n)
        PROVE  \A g \in wire' : g.src = MyMac \/ FromNeighbour(g)
    <3> DEFINE answer == ARPFrame(Mac(n, card[n]), MyMac, "reply", n, MyMac, MyIp)
    <3>1. FromNeighbour(answer)
      BY <1>1, SMTT(60), Zenon DEF FromNeighbour, ARPFrame, Macs
    <3>2. \A g \in wire' : g \in wire \/ g = answer
      BY <2>2, SMTT(60), Zenon DEF Reply
    <3> HIDE DEF answer
    <3> QED BY <1>1, <3>1, <3>2, SMTT(60), Zenon
  <2> QED BY <2>1, <2>2, SMTT(60), Zenon
<1> QED BY <1>1, <1>2, <1>3, <1>4, Quiet, Silent, SMTT(60), Zenon

\* Every step keeps the tables linked, and what it sends is as it should be.
LEMMA NextLinked ==
  ASSUME Linked, Next PROVE Linked' /\ FreshAddress' /\ Spaced
<1>1. ASSUME NEW n \in Neighbours, Send(n) PROVE Linked' /\ FreshAddress' /\ Spaced
  BY <1>1, SendKnownStep, SendUnknownStep
<1>2. ASSUME NEW n \in Neighbours, Stray(n) PROVE Linked' /\ FreshAddress' /\ Spaced
  <2>1. PICK f \in Strays(n) : Become(recv_frame(nic, f), wire) /\ Receive(f)
    BY <1>2 DEF Stray
  <2>2. FromNeighbour(f)
    BY DEF FromNeighbour, Strays, ARPFrame, Macs, Linked
  <2> DEFINE ni == recv_frame(nic, f)
  <2> HIDE DEF ni
  <2>3. Become(ni, wire)
    BY <2>1 DEF ni
  <2>4. nic' = [ni EXCEPT !.frames_out = << >>] /\ out' = ni.frames_out /\ card' = card
    BY <2>3 DEF Become
  <2>5. \A g \in wire' : \/ g.src = MyMac \/ FromNeighbour(g)
                         \/ \E k \in DOMAIN out', x \in Neighbours : g = out'[k] /\ Request(g, x)
    BY <2>3 DEF Become, Linked
  <2>6. \A x \in Neighbours : (\A k \in DOMAIN out' : ~ Request(out'[k], x)) =>
                                requested'[x] = requested[x]
    BY <2>3 DEF Become
  <2> QED BY <2>1, <2>2, <2>4, <2>5, <2>6, AnyReceiveStep, SMTT(60), Zenon DEF ni
<1>3. ASSUME Deliver PROVE Linked' /\ FreshAddress' /\ Spaced
  <2>1. PICK f \in wire : /\ f.src # MyMac
                          /\ Become(recv_frame(nic, f), wire \ {f}) /\ Receive(f)
    BY <1>3 DEF Deliver
  <2>2. FromNeighbour(f)
    BY <2>1 DEF Linked
  <2> DEFINE ni == recv_frame(nic, f)
  <2> HIDE DEF ni
  <2>3. Become(ni, wire \ {f})
    BY <2>1 DEF ni
  <2>4. nic' = [ni EXCEPT !.frames_out = << >>] /\ out' = ni.frames_out /\ card' = card
    BY <2>3 DEF Become
  <2>5. \A g \in wire' : \/ g.src = MyMac \/ FromNeighbour(g)
                         \/ \E k \in DOMAIN out', x \in Neighbours : g = out'[k] /\ Request(g, x)
    BY <2>3 DEF Become, Linked
  <2>6. \A x \in Neighbours : (\A k \in DOMAIN out' : ~ Request(out'[k], x)) =>
                                requested'[x] = requested[x]
    BY <2>3 DEF Become
  <2> QED BY <2>1, <2>2, <2>4, <2>5, <2>6, AnyReceiveStep, SMTT(60), Zenon DEF ni
<1> QED BY <1>1, <1>2, <1>3, TickStep, LinkStep, SMTT(60), Zenon DEF Next

-------------------------------------------------------------------------------
\* A stuttering step changes nothing that Linked or FreshAddress speaks of.
LEMMA Stutters ==
  ASSUME Linked, FreshAddress, UNCHANGED vars PROVE Linked' /\ FreshAddress'
<1>1. /\ nic' = nic /\ out' = out /\ wire' = wire /\ card' = card
      /\ asked' = asked /\ heard' = heard /\ requested' = requested
  BY SMTT(60), Zenon DEF vars, ghosts
<1>2. Linked'
  <2>1. \A f \in wire' : f.src = MyMac \/ FromNeighbour(f)
    BY <1>1, SMTT(60), Zenon DEF Linked
  <2>2. card' \in [Neighbours -> 1 .. 2] /\ asked' \in [Neighbours -> Nat]
    BY <1>1, SMTT(60), Zenon DEF Linked
  <2> QED BY <1>1, <2>1, <2>2, Quiet, SMTT(60), Zenon
<1>3. FreshAddress'
  BY <1>1 DEF FreshAddress
<1> QED BY <1>2, <1>3

\* The inductive invariant, with what it says of the frames that a step sends.
THEOREM LinkedHolds == Spec => [](Linked /\ FreshAddress)
<1>1. Init => Linked /\ FreshAddress
  BY InitLinked
<1>2. Linked /\ FreshAddress /\ [Next]_vars => (Linked /\ FreshAddress)'
  BY NextLinked, Stutters
<1> QED BY <1>1, <1>2, PTL DEF Spec

\* A datagram waits only while a request for its next hop is pending, and a
\* request is pending only while there is no mapping.
THEOREM NothingWaitsInVain == Spec => []WaitsOnlyForAnswer
<1>1. Linked => WaitsOnlyForAnswer
  BY DEF Linked
<1> QED BY <1>1, LinkedHolds, PTL

\* Every datagram leaves to the address its next hop was last heard from, and
\* that was no longer ago than a mapping may live.
THEOREM NoStaleAddress == Spec => []FreshAddress
BY LinkedHolds, PTL

\* send_datagram never asks twice for an address within ARPTTL, not even when
\* the answer came and its mapping expired in between.
THEOREM RequestsApart == Spec => RequestsSpaced
<1>1. Linked /\ [Next]_vars =>
        [\A n \in Neighbours :
           (\E k \in DOMAIN out' : Request(out'[k], n)) =>
             \A t \in requested[n] : nic'.time - t > ARPTTL]_vars
  BY NextLinked DEF Spaced
<1> QED BY <1>1, LinkedHolds, PTL DEF Spec, RequestsSpaced
===============================================================================
