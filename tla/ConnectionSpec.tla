---------------------------- MODULE ConnectionSpec ----------------------------
(***************************************************************************)
(* Two TCPConnections and the network between them.  The client writes     *)
(* Bytes["client"] bytes and the server Bytes["server"], each ends its     *)
(* stream, and each reads what arrives.  The network delivers in order,    *)
(* but for at most MaxFaults segments that it loses, delays past later     *)
(* ones or delivers twice, as Faults allows.                               *)
(***************************************************************************)
EXTENDS TCPState

CONSTANTS Bytes, Openers, RecvCapacity, SendCapacity, RtTimeout, Isn, Faults, MaxFaults

Peer == {"client", "server"}

ASSUME ConstantsAssumption ==
  /\ Bytes \in [Peer -> Nat] /\ Isn \in [Peer -> 0 .. (SeqModulus - 1)]
  /\ Openers \in SUBSET Peer \ {{}}
  /\ Faults \subseteq {"lose", "delay", "duplicate"} /\ MaxFaults \in Nat
  /\ RecvCapacity \in Nat \ {0} /\ SendCapacity \in Nat \ {0} /\ RtTimeout \in Nat \ {0}
  /\ \A p \in Peer : Bytes[p] + 3 < SeqModulus \div 2

Other(p) == IF p = "client" THEN "server" ELSE "client"

VARIABLES conn,
          net,       \* the segments on their way to each peer
          late,      \* those that fell behind
          faults     \* how many the network lost, delayed or repeated

vars == <<conn, net, late, faults>>

Config(p) == [rt_timeout |-> RtTimeout, recv_capacity |-> RecvCapacity,
              send_capacity |-> SendCapacity, isn |-> Isn[p]]

Init ==
  /\ conn = [p \in Peer |-> NewConnection(Config(p))]
  /\ net = [p \in Peer |-> << >>]
  /\ late = [p \in Peer |-> {}]
  /\ faults = 0

\* A connection whose owner has taken its segments, with the clocks that the
\* code cannot tell apart made equal: the time since the last segment beyond
\* the linger time, and the time of a timer that is not running.
Settled(c) ==
  [c EXCEPT !.segments_out = << >>,
            !.time = Least(@, LingerFactor * RtTimeout),
            !.sender.timer.total_time = IF c.sender.timer.running THEN @ ELSE 0]

\* p's connection becomes c, and its segments go onto the network, where
\* queue already is for p and arriving at p.
Become(p, c, queue) ==
  /\ conn' = [conn EXCEPT ![p] = Settled(c)]
  /\ net' = [net EXCEPT ![p] = queue, ![Other(p)] = @ \o c.segments_out]
  /\ UNCHANGED faults

Connect(p) ==
  /\ p \in Openers /\ conn[p] = NewConnection(Config(p))
  /\ Become(p, connect(conn[p]), net[p]) /\ UNCHANGED late

Write(p) ==
  /\ conn[p].active /\ s_state(conn[p]) # "closed"
  /\ \E n \in 1 .. (Bytes[p] - conn[p].sender.stream.written) :
       LET from == conn[p].sender.stream.written
       IN  /\ n <= remaining_capacity(conn[p].sender.stream)
           /\ Become(p, connection_write(conn[p], Slice(from, from + n)), net[p])
  /\ UNCHANGED late

End(p) ==
  /\ conn[p].active /\ s_state(conn[p]) # "closed" /\ ~ conn[p].sender.stream.eof
  /\ conn[p].sender.stream.written = Bytes[p]
  /\ Become(p, end_input_stream(conn[p]), net[p]) /\ UNCHANGED late

Read(p) ==
  /\ buffer_size(stream_out(conn[p].receiver)) > 0
  /\ conn' = [conn EXCEPT ![p].receiver.reassembler.output = read(@, buffer_size(@))]
  /\ UNCHANGED <<net, late, faults>>

Deliver(p) ==
  /\ net[p] # << >>
  /\ Become(p, segment_received(conn[p], Head(net[p])), Tail(net[p])) /\ UNCHANGED late

DeliverLate(p) ==
  \E seg \in late[p] :
    /\ Become(p, segment_received(conn[p], seg), net[p])
    /\ late' = [late EXCEPT ![p] = @ \ {seg}]

Fault(p) ==
  /\ net[p] # << >> /\ faults < MaxFaults
  /\ \E f \in Faults :
       /\ net'  = IF f = "duplicate" THEN net ELSE [net EXCEPT ![p] = Tail(@)]
       /\ late' = IF f = "lose" THEN late ELSE [late EXCEPT ![p] = @ \union {Head(net[p])}]
  /\ faults' = faults + 1 /\ UNCHANGED conn

\* TIME_WAIT.
Lingering(c) == c.active /\ StreamsFinished(c)

\* One unit of time passes for both, once the network has delivered what it
\* delivers in order (its delay is below the timeout).  Time is of no interest
\* while no timer runs and nobody lingers.
Tick ==
  /\ \A p \in Peer : net[p] = << >>
  /\ \E p \in Peer : conn[p].active /\ (conn[p].sender.timer.running \/ Lingering(conn[p]))
  /\ LET after == [p \in Peer |-> tick(conn[p], 1)]
     IN  /\ conn' = [p \in Peer |-> Settled(after[p])]
         /\ net'  = [p \in Peer |-> after[Other(p)].segments_out]
  /\ UNCHANGED <<late, faults>>

Finished ==
  \A p \in Peer : /\ ~ conn[p].active /\ net[p] = << >> /\ late[p] = {}
                  /\ buffer_size(stream_out(conn[p].receiver)) = 0

Done == Finished /\ UNCHANGED vars

Next ==
  \/ \E p \in Peer : \/ Connect(p) \/ Write(p) \/ End(p) \/ Read(p)
                     \/ Deliver(p) \/ DeliverLate(p) \/ Fault(p)
  \/ Tick
  \/ Done

Spec == Init /\ [][Next]_vars

\* The system does not stop before it is finished, which is weak fairness of
\* Next (a step is enabled until then, and only finitely many are faults), and
\* a peer with bytes to read reads them in the end.  The event loop serves the
\* sockets whenever they are ready and calls tick at least every 10 ms; nothing
\* more is assumed about the order of the steps.
FairSpec ==
  /\ Spec
  /\ []<>Finished \/ []<><<TRUE>>_vars
  /\ \A p \in Peer : WF_vars(Read(p))
-------------------------------------------------------------------------------
TypeOK ==
  \A p \in Peer :
    /\ r_state(conn[p]) \in {"listening", "syn_received", "fin_recv"}
    /\ s_state(conn[p]) \in {"closed", "syn_sent", "syn_acked", "fin_sent", "fin_acked"}
    /\ conn[p].sender.segments_out = << >> /\ ~ conn[p].send_rst

\* Each inbound stream is, byte for byte, a prefix of what the other peer
\* wrote (segment_received through both connections and the network).
InboundIsPrefix ==
  \A p \in Peer :
    LET in == stream_out(conn[p].receiver)
    IN  /\ in.buf = Slice(in.read, in.written)
        /\ in.written <= conn[Other(p)].sender.stream.read
        /\ in.eof => conn[Other(p)].sender.fin_flag /\ in.written = Bytes[Other(p)]

\* A sender takes nothing for acknowledged that the peer has not received.
AcksAreEarned ==
  \A p \in Peer :
    LET r == conn[Other(p)].receiver
    IN  conn[p].sender.send_base <= IF has_ackno(r) THEN Acked(r) ELSE 0

\* A connection that closes without an error has delivered its own stream,
\* end included, and received all of the peer's (clean_shutdown).
CleanCloseIsComplete ==
  \A p \in Peer :
    ~ conn[p].active /\ ~ conn[p].sender.stream.error =>
      /\ stream_out(conn[p].receiver).eof
      /\ stream_out(conn[p].receiver).written = Bytes[Other(p)]
      /\ stream_out(conn[Other(p)].receiver).eof
      /\ stream_out(conn[Other(p)].receiver).written = Bytes[p]

\* At least one of the two peers lingers: both cannot take themselves for the
\* passive closer (_linger_after_streams_finish).
OneLingers == \E p \in Peer : conn[p].linger

\* Both streams arrive whole and are read to the end, and both connections
\* close, although segments get lost: fewer of them than the retransmissions
\* it takes to give up.
StreamsDelivered ==
  <>(\A p \in Peer : /\ stream_out(conn[p].receiver).eof
                     /\ stream_out(conn[p].receiver).read = Bytes[Other(p)]
                     /\ ~ conn[p].active /\ ~ conn[p].sender.stream.error)
===============================================================================
