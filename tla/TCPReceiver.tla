------------------------------ MODULE TCPReceiver ------------------------------
(***************************************************************************)
(* class TCPReceiver (tcp_receiver.hh, .cc): turns the segments of one     *)
(* direction of a connection into the inbound stream, and says what to     *)
(* acknowledge and how large the window is.                                *)
(***************************************************************************)
EXTENDS StreamReassembler, TCPSegment, WrappingIntegers

NewReceiver(cap) ==
  [reassembler |-> NewReassembler(cap), cap |-> cap, isn |-> 0,
   syn |-> FALSE, fin |-> FALSE, recv_base |-> 0]

stream_out(r) == r.reassembler.output

\* The absolute number of the first byte not yet received: the bytes written,
\* the SYN, and the FIN once the stream has ended.
Acked(r) == stream_out(r).written + (IF stream_out(r).eof THEN 2 ELSE 1)

has_ackno(r) == r.syn

\* Faulty variant: acknowledges the FIN when it is seen.
ackno_fin(r) == wrap(stream_out(r).written + (IF r.fin THEN 2 ELSE 1), r.isn)

ackno(r) == wrap(Acked(r), r.isn)

\* Faulty variant: counts what was ever written.
window_written(r) == r.cap - stream_out(r).written

\* Faulty variant: the bytes waiting to be assembled take window away.
window_pending(r) == r.cap - buffer_size(stream_out(r)) - r.reassembler.bytes

window_size(r) == r.cap - buffer_size(stream_out(r))

\* A SYN that opens the connection.
Open(r, seg) ==
  IF seg.syn /\ ~ r.syn
  THEN [r EXCEPT !.syn = TRUE, !.isn = seg.seqno, !.recv_base = 1]
  ELSE r

\* Faulty variant: the SYN is taken for a byte before those it comes with.
Accept_shifted(r, seg, absolute) ==
  LET fin    == [r EXCEPT !.fin = @ \/ seg.fin]
      index  == IF seg.syn THEN absolute ELSE (absolute - 1) % AbsModulus
      pushed == [fin EXCEPT !.reassembler = push_substring(@, seg.payload, index, seg.fin)]
  IN  [pushed EXCEPT !.recv_base = Acked(pushed)]

\* push_substring, and _recv_base brought up to date.
Accept(r, seg, absolute) ==
  LET fin    == [r EXCEPT !.fin = @ \/ seg.fin]
      pushed == [fin EXCEPT !.reassembler =
                   push_substring(@, seg.payload, (absolute - 1) % AbsModulus, seg.fin)]
  IN  [pushed EXCEPT !.recv_base = Acked(pushed)]

\* Faulty variant: refuses a segment that starts before the window.
receive_inside(r, seg) ==
  LET length   == length_in_sequence_space(seg)
      opened   == Open(r, seg)
      absolute == unwrap(IF seg.syn THEN Plus(seg.seqno, 1) ELSE seg.seqno,
                         opened.isn, stream_out(r).written)
      inWindow == /\ absolute < opened.recv_base + window_size(r)
                  /\ opened.recv_base <= absolute
      wanted   == IF seg.fin THEN ~ r.fin ELSE length > 0 /\ inWindow
  IN  IF (seg.syn /\ r.syn) \/ ~ opened.syn THEN r
      ELSE IF (seg.syn /\ length = 1) \/ ~ wanted THEN opened
      ELSE Accept(opened, seg, absolute)

\* TCPReceiver::segment_received.
receiver_segment_received(r, seg) ==
  LET length   == length_in_sequence_space(seg)
      seqno    == IF seg.syn THEN Plus(seg.seqno, 1) ELSE seg.seqno
      opened   == Open(r, seg)
      absolute == unwrap(seqno, opened.isn, stream_out(r).written)
      inWindow == /\ absolute < opened.recv_base + window_size(r)
                  /\ opened.recv_base < absolute + length
      wanted   == IF seg.fin THEN ~ r.fin ELSE length > 0 /\ inWindow
  IN  IF (seg.syn /\ r.syn) \/ ~ opened.syn THEN r
      ELSE IF (seg.syn /\ length = 1) \/ ~ wanted THEN opened
      ELSE Accept(opened, seg, absolute)
===============================================================================
