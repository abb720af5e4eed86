------------------------------ MODULE StreamCopy ------------------------------
(***************************************************************************)
(* bidirectional_stream_copy (apps/bidirectional_stream_copy.cc): copies   *)
(* standard input to a socket and the socket to standard output, through   *)
(* two byte streams and the four rules of an event loop.  The world around *)
(* it, a program that writes standard input, a socket with its peer and a  *)
(* reader of standard output, moves between the callbacks.                 *)
(***************************************************************************)
EXTENDS ByteStream, EventLoop

CONSTANTS BufferSize,    \* buffer_size
          MaxCopy,       \* max_copy_length
          PipeCap,       \* what the kernel keeps of each stream
          Typed, Sent,   \* the bytes on standard input, and those from the peer
          InputIsPipe    \* a pipe hangs up at its end, a file is readable

VARIABLES copy,     \* the byte streams and flags of the function
          loop,
          stdin, sock, stdout    \* what the kernel has, and what went through

vars == <<copy, loop, stdin, sock, stdout>>

AllRules ==
  <<Rule("read input", "stdin", "In"), Rule("write socket", "socket", "Out"),
    Rule("read socket", "socket", "In"), Rule("write output", "stdout", "Out")>>

Init ==
  /\ copy = [outbound |-> NewStream(BufferSize), inbound |-> NewStream(BufferSize),
             outbound_shutdown |-> FALSE, inbound_shutdown |-> FALSE]
  /\ loop = NewLoop(AllRules)
  /\ stdin = [written |-> 0, buf |-> << >>, closed |-> FALSE, eof |-> FALSE]
  /\ sock = [written |-> 0, in |-> << >>, in_shut |-> FALSE, eof |-> FALSE,
             out |-> << >>, out_shut |-> FALSE, received |-> << >>]
  /\ stdout = [buf |-> << >>, closed |-> FALSE, received |-> << >>]

\* All that a rule reads or writes.
World == [copy |-> copy, stdin |-> stdin, sock |-> sock, stdout |-> stdout]

Become(w) == copy' = w.copy /\ stdin' = w.stdin /\ sock' = w.sock /\ stdout' = w.stdout

Descriptor(eof, closed, readable, writable, hup) ==
  [eof |-> eof, closed |-> closed, readable |-> readable, writable |-> writable,
   hup |-> hup, error |-> FALSE]

\* What poll and the FileDescriptor say of each descriptor.
Fd(w, fd) ==
  CASE fd = "stdin"  -> Descriptor(w.stdin.eof, FALSE,
                          w.stdin.buf # << >> \/ (w.stdin.closed /\ ~ InputIsPipe), FALSE,
                          w.stdin.closed /\ InputIsPipe)
    [] fd = "socket" -> Descriptor(w.sock.eof, FALSE, w.sock.in # << >> \/ w.sock.in_shut,
                          Len(w.sock.out) < PipeCap, w.sock.in_shut /\ w.sock.out_shut)
    [] fd = "stdout" -> Descriptor(FALSE, w.stdout.closed, FALSE,
                          Len(w.stdout.buf) < PipeCap, FALSE)

\* The interests of rules 1 and 3.
WantsMore(b, other) == ~ b.error /\ remaining_capacity(b) > 0 /\ ~ other.error

\* The interests of rules 2 and 4.
HasMore(b, shut) == ~ buffer_empty(b) \/ (at_eof(b) /\ ~ shut)

Interest(w, name) ==
  CASE name = "read input"   -> WantsMore(w.copy.outbound, w.copy.inbound)
    [] name = "write socket" -> HasMore(w.copy.outbound, w.copy.outbound_shutdown)
    [] name = "read socket"  -> WantsMore(w.copy.inbound, w.copy.outbound)
    [] name = "write output" -> HasMore(w.copy.inbound, w.copy.inbound_shutdown)

Cancel(w, name) ==
  CASE name = "read input"   -> [w EXCEPT !.copy.outbound = end_input(@)]
    [] name = "write socket" -> [w EXCEPT !.copy.outbound = set_error(@)]
    [] name = "read socket"  -> [w EXCEPT !.copy.inbound = end_input(@)]
    [] name = "write output" -> [w EXCEPT !.copy.inbound = set_error(@)]

Rest(bytes, n) == SubSeq(bytes, n + 1, Len(bytes))

\* The stream b after a read of n bytes, which at the end are none.
Fill(b, bytes, n) == IF n = 0 THEN end_input(b) ELSE write(b, SubSeq(bytes, 1, n))

ReadInput(w) ==
  LET n == Least(remaining_capacity(w.copy.outbound), Len(w.stdin.buf))
  IN  [w EXCEPT !.copy.outbound = Fill(@, w.stdin.buf, n),
                !.stdin.buf = Rest(@, n), !.stdin.eof = n = 0]

ReadSocket(w) ==
  LET n == Least(remaining_capacity(w.copy.inbound), Len(w.sock.in))
  IN  [w EXCEPT !.copy.inbound = Fill(@, w.sock.in, n),
                !.sock.in = Rest(@, n), !.sock.eof = n = 0]

\* Faulty variant: pops what it asked to write, not what was written.
WriteSocket_all(w) ==
  LET data == peek_output(w.copy.outbound, Least(MaxCopy, PipeCap - Len(w.sock.out)))
      rest == read(w.copy.outbound, MaxCopy)
  IN  [w EXCEPT !.copy.outbound = rest,
                !.copy.outbound_shutdown = @ \/ at_eof(rest),
                !.sock.out = @ \o data, !.sock.out_shut = @ \/ at_eof(rest)]

\* The bytes of b that a write to a descriptor with room takes.
Written(b, room) == peek_output(b, Least(MaxCopy, room))

WriteSocket(w) ==
  LET data == Written(w.copy.outbound, PipeCap - Len(w.sock.out))
      rest == pop_output(w.copy.outbound, Len(data))
  IN  [w EXCEPT !.copy.outbound = rest,
                !.copy.outbound_shutdown = @ \/ at_eof(rest),
                !.sock.out = @ \o data, !.sock.out_shut = @ \/ at_eof(rest)]

WriteOutput(w) ==
  LET data == Written(w.copy.inbound, PipeCap - Len(w.stdout.buf))
      rest == pop_output(w.copy.inbound, Len(data))
  IN  [w EXCEPT !.copy.inbound = rest,
                !.copy.inbound_shutdown = @ \/ at_eof(rest),
                !.stdout.buf = @ \o data, !.stdout.closed = @ \/ at_eof(rest)]

Callback(w, name) ==
  CASE name = "read input"   -> ReadInput(w)
    [] name = "write socket" -> WriteSocket(w)
    [] name = "read socket"  -> ReadSocket(w)
    [] name = "write output" -> WriteOutput(w)
-------------------------------------------------------------------------------
\* The descriptors of the rules.
Fds == [k \in DOMAIN loop.rules |-> Fd(World, loop.rules[k].fd)]

Visit(acc, rule) ==
  pollfds(acc, rule, Fd(acc.s, rule.fd), Interest(acc.s, rule.name), Cancel(acc.s, rule.name))

Prepare ==
  /\ loop.pc = "top"
  /\ LET p == FoldLeft(Visit, NewPollfds(World), loop.rules)
     IN  Become(p.s) /\ loop' = Polling(loop, p)

\* poll without a timeout.
Poll ==
  /\ loop.pc = "poll"
  /\ LET results == poll(loop.rules, loop.events, Fds)
     IN  /\ PollReturns(results)
         /\ loop' = ServeFrom([loop EXCEPT !.results = results], 1)
  /\ UNCHANGED <<copy, stdin, sock, stdout>>

Serve ==
  /\ loop.pc = "serving"
  /\ LET verdict == Verdict(loop.events[loop.k], loop.results[loop.k])
         name    == loop.rules[loop.k].name
     IN  \/ /\ verdict = "call"
            /\ Become(Callback(World, name)) /\ loop' = ServeFrom(loop, loop.k + 1)
         \/ /\ verdict = "cancel"
            /\ Become(Cancel(World, name)) /\ loop' = ServeFrom(Erased(loop), loop.k)

Again ==
  /\ loop.pc = "served" /\ loop' = [loop EXCEPT !.pc = "top"]
  /\ UNCHANGED <<copy, stdin, sock, stdout>>

Type ==
  /\ stdin.written < Typed /\ Len(stdin.buf) < PipeCap /\ ~ stdin.closed
  /\ stdin' = [stdin EXCEPT !.written = @ + 1, !.buf = Append(@, stdin.written)]
  /\ UNCHANGED <<copy, loop, sock, stdout>>

EndOfInput ==
  /\ stdin.written = Typed /\ ~ stdin.closed /\ stdin' = [stdin EXCEPT !.closed = TRUE]
  /\ UNCHANGED <<copy, loop, sock, stdout>>

PeerSends ==
  /\ sock.written < Sent /\ Len(sock.in) < PipeCap /\ ~ sock.in_shut
  /\ sock' = [sock EXCEPT !.written = @ + 1, !.in = Append(@, sock.written)]
  /\ UNCHANGED <<copy, loop, stdin, stdout>>

PeerShuts ==
  /\ sock.written = Sent /\ ~ sock.in_shut /\ sock' = [sock EXCEPT !.in_shut = TRUE]
  /\ UNCHANGED <<copy, loop, stdin, stdout>>

PeerReads ==
  /\ sock.out # << >>
  /\ sock' = [sock EXCEPT !.received = @ \o sock.out, !.out = << >>]
  /\ UNCHANGED <<copy, loop, stdin, stdout>>

OutputIsRead ==
  /\ stdout.buf # << >>
  /\ stdout' = [stdout EXCEPT !.received = @ \o stdout.buf, !.buf = << >>]
  /\ UNCHANGED <<copy, loop, stdin, sock>>

Copier == Prepare \/ Poll \/ Serve \/ Again

Outside == Type \/ EndOfInput \/ PeerSends \/ PeerShuts \/ PeerReads \/ OutputIsRead

Done == loop.pc = "left" /\ UNCHANGED vars

Next == Copier \/ Outside \/ Done

Spec == Init /\ [][Next]_vars

CopierDue == loop.pc # "left" /\
  (loop.pc = "poll" => PollReturns(poll(loop.rules, loop.events, Fds)))

OutsideDue == ~ stdin.closed \/ ~ sock.in_shut \/ sock.out # << >> \/ stdout.buf # << >>
-------------------------------------------------------------------------------
\* Both directions deliver the bytes they were given, in order, and none that
\* were not (the four callbacks, partial writes included).
CopiesInOrder ==
  /\ LET out == sock.received \o sock.out \o copy.outbound.buf \o stdin.buf
     IN  out = [i \in 1 .. stdin.written |-> i - 1]
  /\ LET in == stdout.received \o stdout.buf \o copy.inbound.buf \o sock.in
     IN  in = [i \in 1 .. sock.written |-> i - 1]

\* The function returns only when all that came from the peer, to its end, is
\* in standard output (the interests, and the cancel callbacks).
InboundComplete ==
  loop.pc = "left" => stdout.closed /\ Len(stdout.received \o stdout.buf) = Sent

\* The socket is shut for writing, which the peer takes for the end, only
\* behind the last byte of standard input (rule 2).
ShutBehindInput == sock.out_shut => stdin.closed /\ Len(sock.received \o sock.out) = Typed

\* The function returns.
Returns == <>(loop.pc = "left")
===============================================================================
