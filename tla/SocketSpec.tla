------------------------------ MODULE SocketSpec ------------------------------
(***************************************************************************)
(* A TCPSpongeSocket, the thread that owns it, the thread that runs its    *)
(* connection, and a TCPConnection as the peer, over a network that loses  *)
(* nothing (ConnectionSpec has the one that does).  The two threads        *)
(* interleave between the callbacks of the event loop.                     *)
(***************************************************************************)
EXTENDS SpongeSocket

CONSTANTS Connects,      \* whether the owner calls connect or listen_and_accept
          Bytes,         \* what the owner and the peer write at most
          RecvCapacity, SendCapacity, RtTimeout, Isn,
          MayReset,      \* whether the peer may reset the connection
          MayDestroy     \* whether the owner may destroy the open socket

ASSUME SocketAssumption ==
  /\ {Connects, MayReset, MayDestroy} \subseteq BOOLEAN
  /\ Bytes \in [{"owner", "peer"} -> Nat] /\ Isn \in [{"owner", "peer"} -> 0 .. (SeqModulus - 1)]
  /\ RecvCapacity \in Nat \ {0} /\ SendCapacity \in Nat \ {0} /\ RtTimeout \in Nat \ {0}

VARIABLES sock,
          loop,     \* where _tcp_loop and wait_next_event are
          owner,    \* what the owner is doing, wrote and read
          peer

vars == <<sock, loop, owner, peer>>

Config(p) == [rt_timeout |-> RtTimeout, recv_capacity |-> RecvCapacity,
              send_capacity |-> SendCapacity, isn |-> Isn[p]]

\* connect and listen_and_accept up to their loop.
Opened == IF Connects THEN [NewSocket(Config("owner")) EXCEPT !.tcp = connect(@)]
          ELSE NewSocket(Config("owner"))

Init ==
  /\ sock = Opened
  /\ loop = NewLoop(AllRules)
  /\ owner = [pc |-> "opening", written |-> 0, got |-> << >>, eof |-> FALSE]
  /\ peer = NewConnection(Config("peer"))

\* Time spent beyond the linger time, and the time of a timer that does not
\* run, make no difference to the code.
Settled(c) ==
  [c EXCEPT !.time = Least(@, LingerFactor * RtTimeout),
            !.sender.timer.total_time = IF c.sender.timer.running THEN @ ELSE 0]

Quiet == sock.arriving = << >> /\ sock.leaving = << >> /\ sock.tcp.segments_out = << >>
-------------------------------------------------------------------------------
\* The loop's condition.
Continues ==
  LET still == IF Connects THEN {"SYN_SENT"} ELSE {"LISTEN", "SYN_RCVD", "SYN_SENT"}
  IN  owner.pc = "opening" => \E n \in still : state(sock.tcp) = Official[n]

\* The descriptors of the rules.
Fds == [k \in DOMAIN loop.rules |-> Fd(sock, loop.rules[k].fd)]

Visit(acc, rule) ==
  pollfds(acc, rule, Fd(acc.s, rule.fd), Interest(acc.s, rule.name), Cancel(acc.s, rule.name))

\* Up to the call of poll.
Prepare ==
  /\ loop.pc = "top"
  /\ IF Continues
     THEN LET p == FoldLeft(Visit, NewPollfds(sock), loop.rules)
          IN  sock' = p.s /\ loop' = Polling(loop, p)
     ELSE loop' = [loop EXCEPT !.pc = "left"] /\ UNCHANGED sock
  /\ UNCHANGED <<owner, peer>>

Poll ==
  /\ loop.pc = "poll"
  /\ LET results == poll(loop.rules, loop.events, Fds)
     IN  loop' = IF PollReturns(results)
                 THEN ServeFrom([loop EXCEPT !.results = results], 1) ELSE Served(loop)
  /\ UNCHANGED <<sock, owner, peer>>

Serve ==
  /\ loop.pc = "serving" /\ sock.threw = "nothing"
  /\ LET verdict == Verdict(loop.events[loop.k], loop.results[loop.k])
         name    == loop.rules[loop.k].name
         gone    == verdict = "cancel"
     IN  /\ sock' = IF gone THEN Cancel(sock, name)
                    ELSE [Call(sock, name) EXCEPT !.tcp = Settled(@)]
         /\ loop' = IF gone THEN ServeFrom(Erased(loop), loop.k) ELSE ServeFrom(loop, loop.k + 1)
  /\ UNCHANGED <<owner, peer>>

\* The rest of the body of _tcp_loop.  A unit of time has passed if nothing is
\* on its way.
AfterEvent ==
  /\ loop.pc = "served" /\ sock.threw = "nothing"
  /\ IF sock.abort
     THEN loop' = [loop EXCEPT !.pc = "left"] /\ UNCHANGED sock
     ELSE /\ loop' = [loop EXCEPT !.pc = "top"]
          /\ sock' = [sock EXCEPT !.tcp = Settled(tick(@, IF Quiet THEN 1 ELSE 0))]
  /\ UNCHANGED <<owner, peer>>

\* connect or listen_and_accept starts the thread and returns.
StartThread ==
  /\ loop.pc = "left" /\ owner.pc = "opening"
  /\ loop' = [loop EXCEPT !.pc = "top"]
  /\ owner' = [owner EXCEPT !.pc = "open"]
  /\ UNCHANGED <<sock, peer>>

\* The end of _tcp_main.
EndThread ==
  /\ loop.pc = "left" /\ owner.pc # "opening"
  /\ loop' = [loop EXCEPT !.pc = "ended"]
  /\ sock' = [Shutdown_RDWR(sock) EXCEPT !.tcp = destruct(@)]
  /\ UNCHANGED <<owner, peer>>

Thread == Prepare \/ Poll \/ Serve \/ AfterEvent \/ StartThread \/ EndThread
-------------------------------------------------------------------------------
OwnerWrite ==
  /\ owner.pc = "open" /\ ~ sock.up_shut /\ Len(sock.up) < PipeCap
  /\ owner.written < Bytes["owner"]
  /\ owner' = [owner EXCEPT !.written = @ + 1]
  /\ sock' = [sock EXCEPT !.up = @ \o Slice(owner.written, owner.written + 1)]
  /\ UNCHANGED <<loop, peer>>

OwnerRead ==
  /\ owner.pc = "open" /\ ~ owner.eof /\ (sock.down # << >> \/ sock.down_shut)
  /\ owner' = [owner EXCEPT !.got = @ \o sock.down, !.eof = sock.down = << >>]
  /\ sock' = [sock EXCEPT !.down = << >>]
  /\ UNCHANGED <<loop, peer>>

OwnerShutdown ==
  /\ owner.pc = "open" /\ ~ sock.up_shut
  /\ sock' = [sock EXCEPT !.up_shut = TRUE]
  /\ UNCHANGED <<loop, owner, peer>>

\* wait_until_closed up to the join, once the owner has read to the end.
OwnerWait ==
  /\ owner.pc = "open" /\ owner.eof
  /\ sock' = Shutdown_RDWR(sock)
  /\ owner' = [owner EXCEPT !.pc = "joining"]
  /\ UNCHANGED <<loop, peer>>

\* ~TCPSpongeSocket up to the join.
OwnerDestroy ==
  /\ MayDestroy /\ owner.pc = "open"
  /\ sock' = [sock EXCEPT !.abort = TRUE]
  /\ owner' = [owner EXCEPT !.pc = "joining"]
  /\ UNCHANGED <<loop, peer>>

OwnerJoin ==
  /\ owner.pc = "joining" /\ loop.pc = "ended"
  /\ owner' = [owner EXCEPT !.pc = "joined"]
  /\ UNCHANGED <<sock, loop, peer>>

Owner == OwnerWrite \/ OwnerRead \/ OwnerShutdown \/ OwnerWait \/ OwnerDestroy \/ OwnerJoin
-------------------------------------------------------------------------------
\* The peer becomes c, which has read what arrived, and the network has queue
\* left for it.
PeerBecomes(c, queue) ==
  /\ peer' = [Settled(c) EXCEPT !.segments_out = << >>,
                !.receiver.reassembler.output = read(@, buffer_size(@))]
  /\ sock' = [sock EXCEPT !.leaving = queue, !.arriving = @ \o c.segments_out]
  /\ UNCHANGED <<loop, owner>>

PeerConnect ==
  /\ ~ Connects /\ s_state(peer) = "closed"
  /\ PeerBecomes(connect(peer), sock.leaving)

PeerReceive ==
  /\ sock.leaving # << >>
  /\ PeerBecomes(segment_received(peer, Head(sock.leaving)), Tail(sock.leaving))

PeerWrite ==
  LET stream == peer.sender.stream
      n      == Least(Bytes["peer"] - stream.written, remaining_capacity(stream))
  IN  /\ peer.active /\ s_state(peer) # "closed" /\ ~ stream.eof /\ n > 0
      /\ PeerBecomes(connection_write(peer, Slice(stream.written, stream.written + n)),
                     sock.leaving)

PeerEnd ==
  /\ peer.active /\ s_state(peer) # "closed" /\ ~ peer.sender.stream.eof
  /\ PeerBecomes(end_input_stream(peer), sock.leaving)

PeerReset ==
  /\ MayReset /\ peer.active /\ r_state(peer) # "listening"
  /\ PeerBecomes(unclean_shutdown(peer, TRUE), sock.leaving)

PeerTick ==
  /\ Quiet /\ peer.active
  /\ peer.sender.timer.running \/ StreamsFinished(peer)
  /\ PeerBecomes(tick(peer, 1), sock.leaving)

PeerStep ==
  PeerConnect \/ PeerReceive \/ PeerWrite \/ PeerEnd \/ PeerReset \/ PeerTick

\* A peer whose connection was destroyed may be left open.  An exception in
\* the thread ends the process.
Done ==
  /\ \/ owner.pc = "joined" /\ sock.leaving = << >> /\ (sock.abort \/ ~ peer.active)
     \/ sock.threw # "nothing"
  /\ UNCHANGED vars

Next == Thread \/ Owner \/ PeerStep \/ Done

Spec == Init /\ [][Next]_vars

PeerDue ==
  \/ sock.leaving # << >> \/ (~ Connects /\ s_state(peer) = "closed")
  \/ peer.active /\ s_state(peer) # "closed" /\ ~ peer.sender.stream.eof
  \/ Quiet /\ peer.active /\ (peer.sender.timer.running \/ StreamsFinished(peer))

OwnerDue ==
  \/ owner.pc = "open" /\ (sock.down # << >> \/ sock.down_shut \/ ~ sock.up_shut)
  \/ owner.pc = "joining" /\ loop.pc = "ended"
-------------------------------------------------------------------------------
\* The event loop never throws: no callback is called for nothing and stays
\* interested, none writes to the pipe after shutting it, and the connection
\* takes all it said it would (the three exceptions of the thread).
NothingThrown == sock.threw = "nothing"

\* The one exception that the loop throws is a broken pipe, and only after a
\* reset that came while the pipe had taken a part of the inbound bytes
\* (rule 3 shuts the pipe and stays interested).
ThrowsOnlyWhenReset ==
  sock.threw # "nothing" =>
    /\ sock.threw = "broken pipe" /\ inbound_stream(sock.tcp).error
    /\ ~ buffer_empty(inbound_stream(sock.tcp))

\* What the owner has read is a prefix of what the peer wrote; when it reads
\* to the end without a reset, it is all of it.
OwnerReadsStream ==
  /\ owner.got = Slice(0, Len(owner.got))
  /\ Len(owner.got) <= peer.sender.stream.written
  /\ owner.eof /\ ~ sock.tcp.sender.stream.error =>
       peer.sender.stream.eof /\ Len(owner.got) = peer.sender.stream.written

\* When the thread ends by itself without a reset, all the owner wrote has
\* reached the peer, with its end, and the last segment is on its way.
ThreadLeavesNothing ==
  loop.pc = "ended" /\ ~ sock.abort =>
    /\ ~ sock.tcp.active /\ sock.tcp.segments_out = << >>
    /\ ~ sock.tcp.sender.stream.error =>
         /\ stream_out(peer.receiver).eof
         /\ stream_out(peer.receiver).written = owner.written

\* wait_until_closed returns: the thread ends once both streams are done,
\* whatever is still in the pipe or on the network (_tcp_loop, the interests).
WaitReturns == owner.pc = "joining" ~> (owner.pc = "joined" \/ sock.threw # "nothing")
===============================================================================
