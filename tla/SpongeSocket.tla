----------------------------- MODULE SpongeSocket -----------------------------
(***************************************************************************)
(* class TCPSpongeSocket (tcp_sponge_socket.hh, .cc): a TCPConnection run  *)
(* by an event loop.  Its owner sees one end of a pair of local sockets;   *)
(* the loop copies between the other end, the connection and the datagram  *)
(* adapter.  Each operator is a callback, or one step of a method, on the  *)
(* members of the class and on what the kernel keeps for it.               *)
(***************************************************************************)
EXTENDS TCPState, EventLoop

CONSTANT PipeCap    \* the bytes the kernel keeps for each local socket

ASSUME PipeAssumption == PipeCap \in Nat \ {0}

\* up and down are the bytes between the owner and the thread, shut when one
\* of them has shut that direction; arriving and leaving are the segments in
\* the datagram socket and on the network.
NewSocket(cfg) ==
  [tcp |-> NewConnection(cfg), up |-> << >>, down |-> << >>,
   up_shut |-> FALSE, down_shut |-> FALSE, eof |-> FALSE,
   outbound_shutdown |-> FALSE, inbound_shutdown |-> FALSE, abort |-> FALSE,
   arriving |-> << >>, leaving |-> << >>, threw |-> "nothing"]

AllRules ==
  <<Rule("segments in", "adapter", "In"), Rule("outbound", "pipe", "In"),
    Rule("inbound", "pipe", "Out"), Rule("segments out", "adapter", "Out")>>

\* The kernel's part: a datagram socket, which always takes a datagram, and
\* the thread's end of the local sockets.
Fd(s, fd) ==
  IF fd = "adapter"
  THEN [eof |-> FALSE, closed |-> FALSE, error |-> FALSE, hup |-> FALSE,
        readable |-> s.arriving # << >>, writable |-> TRUE]
  ELSE [eof |-> s.eof, closed |-> FALSE, error |-> FALSE,
        hup |-> s.up_shut /\ s.down_shut,
        readable |-> s.up # << >> \/ s.up_shut, writable |-> Len(s.down) < PipeCap]

inbound_stream(c) == stream_out(c.receiver)

wants_segments(s) == s.tcp.active

wants_outbound(s) ==
  s.tcp.active /\ ~ s.outbound_shutdown /\ remaining_capacity(s.tcp.sender.stream) > 0

\* Faulty variant: the end of the inbound stream stays of interest.
wants_inbound_ended(s) ==
  LET in == inbound_stream(s.tcp) IN ~ buffer_empty(in) \/ at_eof(in) \/ in.error

wants_inbound(s) ==
  LET in == inbound_stream(s.tcp)
  IN  ~ buffer_empty(in) \/ ((at_eof(in) \/ in.error) /\ ~ s.inbound_shutdown)

\* Faulty variant: rule 4 has no interest of its own.
has_segments_always(s) == TRUE

\* Faulty variant: the last segments of a connection are not sent.
has_segments_active(s) == s.tcp.active /\ s.tcp.segments_out # << >>

has_segments(s) == s.tcp.segments_out # << >>

Interest(s, name) ==
  CASE name = "segments in"  -> wants_segments(s)
    [] name = "outbound"     -> wants_outbound(s)
    [] name = "inbound"      -> wants_inbound(s)
    [] name = "segments out" -> has_segments(s)

ShutOutbound(s) == [s EXCEPT !.tcp = end_input_stream(@), !.outbound_shutdown = TRUE]

Cancel(s, name) == IF name = "outbound" THEN ShutOutbound(s) ELSE s

\* Rule 1.
ReadSegment(s) ==
  [s EXCEPT !.tcp = segment_received(@, Head(s.arriving)), !.arriving = Tail(@)]

ReadLimit(s) == remaining_capacity(s.tcp.sender.stream)

AtEof(s) == IF s.eof THEN ShutOutbound(s) ELSE s

\* Rule 2: a read of no bytes is the end of the owner's stream.
ReadPipe(s) ==
  LET limit == ReadLimit(s)
      n     == Least(limit, Len(s.up))
  IN  AtEof([s EXCEPT !.tcp   = connection_write(@, SubSeq(s.up, 1, n)),
                      !.up    = SubSeq(@, n + 1, Len(@)),
                      !.eof   = @ \/ (limit > 0 /\ n = 0),
                      !.threw = IF n > remaining_capacity(s.tcp.sender.stream)
                                THEN "short write" ELSE @])

\* Faulty variant: the bytes written are not popped.
WriteInbound_peek(s, n) ==
  [s EXCEPT !.down = @ \o SubSeq(inbound_stream(s.tcp).buf, 1, n)]

WriteInbound(s, n) ==
  [s EXCEPT !.down = @ \o SubSeq(inbound_stream(s.tcp).buf, 1, n),
            !.tcp.receiver.reassembler.output = pop_output(@, n)]

InboundDone(in) == at_eof(in) \/ in.error

ShutInbound(s) ==
  IF InboundDone(inbound_stream(s.tcp))
  THEN [s EXCEPT !.down_shut = TRUE, !.inbound_shutdown = TRUE] ELSE s

\* Rule 3: a partial write, and the end of the inbound stream or its error.
\* Writing to a socket shut for writing is a broken pipe.
WritePipe(s) ==
  LET size == buffer_size(inbound_stream(s.tcp))
  IN  IF s.down_shut /\ size > 0 THEN [s EXCEPT !.threw = "broken pipe"]
      ELSE ShutInbound(WriteInbound(s, Least(size, PipeCap - Len(s.down))))

\* Rule 4.
SendSegments(s) ==
  [s EXCEPT !.leaving = @ \o s.tcp.segments_out, !.tcp.segments_out = << >>]

Callback(s, name) ==
  CASE name = "segments in"  -> ReadSegment(s)
    [] name = "outbound"     -> ReadPipe(s)
    [] name = "inbound"      -> WritePipe(s)
    [] name = "segments out" -> SendSegments(s)

\* The callback reads or writes its descriptor: only rule 4 may find nothing
\* to do.
Serves(s, name) == name = "segments out" => s.tcp.segments_out # << >>

\* The busy-wait check.
Checked(after, served, name) ==
  IF BusyWait(served, Interest(after, name)) THEN [after EXCEPT !.threw = "busy wait"] ELSE after

Call(s, name) == Checked(Callback(s, name), Serves(s, name), name)

\* ~TCPConnection.
destruct(c) == IF c.active THEN unclean_shutdown(c, TRUE) ELSE c

Shutdown_RDWR(s) == [s EXCEPT !.up_shut = TRUE, !.down_shut = TRUE]
===============================================================================
