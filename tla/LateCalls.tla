------------------------------- MODULE LateCalls -------------------------------
(***************************************************************************)
(* Two TCPConnections as in ConnectionSpec, whose owners call when they    *)
(* like: a stream may be ended before all of its bytes are written, bytes  *)
(* may be written after that, and both calls may come when the connection  *)
(* is closed.  Neither write nor end_input_stream looks at _active, and    *)
(* ByteStream::write does not look at _eof.                                *)
(***************************************************************************)
EXTENDS MCConnection

VARIABLES ended,    \* for each peer, the counts of bytes written when end_input_stream was called
          mode      \* "orderly": as in ConnectionSpec; "late": the calls come at any time

lateVars == <<vars, ended, mode>>

LateInit == Init /\ ended = [p \in Peer |-> {}] /\ mode \in {"orderly", "late"}

\* write in any state that is not "closed", of one byte.
AnyWrite(p) ==
  LET from == conn[p].sender.stream.written
  IN  /\ s_state(conn[p]) # "closed" /\ from < Bytes[p]
      /\ Become(p, connection_write(conn[p], Slice(from, from + 1)), net[p])
      /\ UNCHANGED <<late, ended>>

\* end_input_stream in any such state, and again after a late write.
AnyEnd(p) ==
  /\ s_state(conn[p]) # "closed"
  /\ ended[p] = {} \/ conn[p].sender.stream.written \notin ended[p]
  /\ Become(p, end_input_stream(conn[p]), net[p])
  /\ ended' = [ended EXCEPT ![p] = @ \union {conn[p].sender.stream.written}]
  /\ UNCHANGED late

\* Nothing was written behind the end of a stream.
Tidy == \A p \in Peer : ended[p] \subseteq {conn[p].sender.stream.written}

\* A connection with bytes behind the end of its stream never counts its stream
\* as sent, and stays open.
Stuck == ~ Tidy /\ UNCHANGED vars

\* Everything else is as before; only the client opens, and a segment is lost
\* or repeated, but not delayed.
Usual ==
  /\ \/ Connect("client") \/ Tick \/ Done \/ Stuck
     \/ \E p \in Peer : \/ Read(p) \/ Deliver(p) \/ DeliverLate(p)
                        \/ Fault(p) /\ (UNCHANGED net \/ UNCHANGED late)
  /\ UNCHANGED ended

LateNext ==
  /\ \/ mode = "orderly" /\ Next /\ UNCHANGED ended
     \/ mode = "late" /\ (Usual \/ \E p \in Peer : AnyWrite(p) \/ AnyEnd(p))
  /\ UNCHANGED mode

LateSpec == LateInit /\ [][LateNext]_lateVars
-------------------------------------------------------------------------------
InboundOf(p) == stream_out(conn[Other(p)].receiver)

\* A connection that closed without an error never sends another segment,
\* whatever its owner still calls.
ClosedIsQuiet ==
  [][\A p \in Peer :
       ~ conn[p].active /\ ~ conn[p].sender.stream.error =>
         Len(net'[Other(p)]) <= Len(net[Other(p)])]_lateVars

\* Each stream is ended once, behind all of its bytes.
Orderly == \A p \in Peer : ended[p] \subseteq {Bytes[p]}

\* What a peer takes for the whole stream is every byte that left the other's
\* outbound stream, in order: a late call neither slips a byte behind the FIN
\* nor leaves one out before it (fill_window, _fin_flag).  Without such calls it
\* is all that was written, and is complete on both sides when a connection
\* closes without an error (clean_shutdown).
StreamsArriveInOrder ==
  /\ \A p \in Peer :
       LET in == InboundOf(p)
       IN  /\ in.buf = Slice(in.read, in.written)
           /\ in.eof => in.written = conn[p].sender.stream.read
  /\ Orderly => InboundIsPrefix /\ CleanCloseIsComplete

\* With one opener and nothing written behind an end, a connection moves from
\* one state of RFC 793 to another along its arrows, whenever the end is called
\* (the comparison TCPState is made for).
MovesAreOfficial ==
  [][mode = "late" /\ Tidy' =>
       \A p \in Peer :
         \/ state(conn'[p]) = state(conn[p])
         \/ Official_name(conn'[p]) \in After(Official_name(conn[p]))]_lateVars
===============================================================================
