------------------------- MODULE NetworkInterfaceSpec -------------------------
(***************************************************************************)
(* One NetworkInterface on a link with neighbours.  Its owner sends        *)
(* numbered datagrams to them; neighbours answer requests, ask for the     *)
(* interface's address, change their Ethernet address, and put frames on   *)
(* the link that the interface must ignore.  Frames on the link arrive in  *)
(* any order, and some are lost.                                           *)
(***************************************************************************)
EXTENDS NetworkInterface, FiniteSets

CONSTANTS Neighbours,    \* their IP addresses
          MyMac, MyIp, MaxDatagrams, MaxTime, MaxLosses, MaxStray

\* The Ethernet addresses that n has one after the other.
Mac(n, k) == <<n, k>>

ASSUME ConstantsAssumption ==
  /\ MaxDatagrams \in Nat /\ MaxTime \in Nat /\ MaxLosses \in Nat /\ MaxStray \in Nat
  /\ MyIp \notin Neighbours /\ MyMac \notin {NoMac, Broadcast}
  /\ \A n \in Neighbours, k \in 1 .. 2 : Mac(n, k) \notin {NoMac, Broadcast, MyMac}

VARIABLES nic,
          out,      \* the frames that the last step put on the link
          wire,     \* the ARP frames under way, to the interface or from it
          asked,    \* how many datagrams the owner has sent to each neighbour
          sent,     \* which of them have left, in order
          heard,    \* the last ARP message accepted from each, {} or a singleton
          requested,\* when each was last asked for, {} or a singleton
          card,     \* which Ethernet address each neighbour has now
          lost, stray

ghosts == <<asked, sent, heard, requested>>
vars == <<nic, out, wire, card, lost, stray, ghosts>>

Init ==
  /\ nic = NewInterface(MyMac, MyIp)
  /\ out = << >> /\ wire = {}
  /\ asked = [n \in Neighbours |-> 0] /\ sent = [n \in Neighbours |-> << >>]
  /\ heard = [n \in Neighbours |-> {}] /\ requested = [n \in Neighbours |-> {}]
  /\ card = [n \in Neighbours |-> 1]
  /\ lost = 0 /\ stray = 0

\* The numbers of n's datagrams among the frames, in order.
Numbers(frames, n) ==
  LET mine == SelectSeq(frames, LAMBDA f : f.type = "IPv4" /\ f.dgram.hop = n)
  IN  [k \in DOMAIN mine |-> mine[k].dgram.number]

Request(f, n) == f.type = "ARP" /\ f.opcode = "request" /\ f.target_ip = n

\* The interface becomes ni; its frames leave for the link, where on is.
Become(ni, on) ==
  /\ nic' = [ni EXCEPT !.frames_out = << >>]
  /\ out' = ni.frames_out
  /\ wire' = on \union {f \in {out'[k] : k \in DOMAIN out'} :
                          \E n \in Neighbours : Request(f, n)}
  /\ sent' = [n \in Neighbours |-> sent[n] \o Numbers(out', n)]
  /\ requested' = [n \in Neighbours |->
       IF \E k \in DOMAIN out' : Request(out'[k], n) THEN {ni.time} ELSE requested[n]]
  /\ UNCHANGED <<card, lost>>

Send(n) ==
  /\ asked[n] < MaxDatagrams
  /\ Become(send_datagram(nic, [hop |-> n, number |-> asked[n] + 1], n), wire)
  /\ asked' = [asked EXCEPT ![n] = @ + 1]
  /\ UNCHANGED <<heard, stray>>

Receive(frame) ==
  /\ heard' = [n \in Neighbours |->
       IF Accepts(nic, frame) /\ frame.type = "ARP" /\ frame.sender_ip = n
       THEN {[mac |-> frame.sender_mac, time |-> nic.time]} ELSE heard[n]]
  /\ UNCHANGED asked

Deliver ==
  \E frame \in wire :
    /\ frame.src # MyMac
    /\ Become(recv_frame(nic, frame), wire \ {frame}) /\ Receive(frame)
    /\ UNCHANGED stray

\* Frames that neighbour n sends on its own: it asks for the interface or for
\* somebody else, answers somebody else, or garbles an answer.
Strays(n) ==
  LET mac == Mac(n, card[n])
  IN  {ARPFrame(mac, Broadcast, "request", n, NoMac, MyIp),
       ARPFrame(mac, Broadcast, "request", n, NoMac, n),
       ARPFrame(mac, NoMac, "reply", n, NoMac, MyIp),
       [ARPFrame(mac, MyMac, "reply", n, MyMac, MyIp) EXCEPT !.ok = FALSE]}

Stray(n) ==
  /\ stray < MaxStray /\ stray' = stray + 1
  /\ \E frame \in Strays(n) :
       Become(recv_frame(nic, frame), wire) /\ Receive(frame)

\* A neighbour answers a request for its address.
Reply(n) ==
  /\ \E f \in wire :
       /\ Request(f, n) /\ f.src = MyMac
       /\ wire' = (wire \ {f}) \union
                    {ARPFrame(Mac(n, card[n]), MyMac, "reply", n, MyMac, MyIp)}
  /\ out' = << >>
  /\ UNCHANGED <<nic, card, lost, stray, ghosts>>

NewCard(n) ==
  /\ card[n] = 1 /\ card' = [card EXCEPT ![n] = 2]
  /\ out' = << >> /\ UNCHANGED <<nic, wire, lost, stray, ghosts>>

\* A frame is lost while there is time left to repeat a request before MaxTime.
Lose ==
  /\ lost < MaxLosses /\ lost' = lost + 1
  /\ nic.time + ARPTTL + 1 < MaxTime
  /\ \E f \in wire : wire' = wire \ {f}
  /\ out' = << >> /\ UNCHANGED <<nic, card, stray, ghosts>>

Tick ==
  /\ nic.time < MaxTime
  /\ Become(interface_tick(nic, 1), wire) /\ UNCHANGED <<asked, heard, stray>>

Next ==
  \/ \E n \in Neighbours : Send(n) \/ Reply(n) \/ Stray(n) \/ NewCard(n)
  \/ Deliver \/ Lose \/ Tick

Spec == Init /\ [][Next]_vars
-------------------------------------------------------------------------------
TypeOK ==
  /\ nic.frames_out = << >> /\ nic.time \in Nat
  /\ DOMAIN nic.map \subseteq Neighbours
  /\ \A n \in DOMAIN nic.map : nic.map[n].time \in Nat
  /\ DOMAIN nic.pending_ip \subseteq Neighbours
  /\ \A n \in Neighbours : asked[n] \in Nat /\ sent[n] \in Seq(Nat)

\* Datagrams for one next hop leave in the order in which they were sent, each
\* once: what has left and what is queued make up all of them, whatever
\* requests, answers, expiries and strays come in between.
InOrderOnce ==
  \A n \in Neighbours :
    LET waiting == IF n \in DOMAIN nic.pending_dgram THEN nic.pending_dgram[n] ELSE << >>
    IN  sent[n] \o [k \in DOMAIN waiting |-> waiting[k].number] = [k \in 1 .. asked[n] |-> k]

\* A datagram waits only while a request is pending and no mapping is known:
\* the two tables of pending things go together, and neither overlaps the map.
WaitsOnlyForAnswer ==
  /\ DOMAIN nic.pending_dgram = DOMAIN nic.pending_ip
  /\ DOMAIN nic.pending_ip \intersect DOMAIN nic.map = {}
  /\ \A n \in DOMAIN nic.pending_dgram : nic.pending_dgram[n] # << >>

\* A datagram goes to the Ethernet address that its next hop was last heard
\* from, and that was no longer ago than the lifetime of a mapping.
FreshAddress ==
  \A k \in DOMAIN out :
    out[k].type = "IPv4" =>
      \E h \in heard[out[k].dgram.hop] : out[k].dst = h.mac /\ nic.time - h.time <= TTL

\* Two requests for the same address are more than ARPTTL apart, across
\* answers and expired mappings too.
RequestsSpaced ==
  [][\A n \in Neighbours :
       (\E k \in DOMAIN out' : Request(out'[k], n)) =>
         \A t \in requested[n] : nic'.time - t > ARPTTL]_vars

\* While the link loses nothing, a datagram waits for an address only as long
\* as a request for it, or the answer, is on its way: it needs no further
\* datagram, and no tick, to leave.  (When one of them is lost it does: tick
\* repeats no request.)
WaitingIsAskedFor ==
  lost = 0 => \A n \in DOMAIN nic.pending_dgram : \E f \in wire :
    Request(f, n) \/ (f.opcode = "reply" /\ f.sender_ip = n /\ f.dst = MyMac)
===============================================================================
