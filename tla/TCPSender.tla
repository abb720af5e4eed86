------------------------------ MODULE TCPSender ------------------------------
(***************************************************************************)
(* class TCPSender (tcp_sender.hh, .cc): cuts the outbound stream into     *)
(* segments, keeps what is not yet acknowledged, and retransmits the       *)
(* oldest such segment when its timer expires.  Window arithmetic is       *)
(* unsigned, modulo AbsModulus, as in the code.                            *)
(***************************************************************************)
EXTENDS ByteStream, TCPSegment, WrappingIntegers

CONSTANT MAX_PAYLOAD_SIZE

ASSUME PayloadAssumption == MAX_PAYLOAD_SIZE \in Nat \ {0}

NewTimer(rt) == [running |-> FALSE, total_time |-> 0, rt_timeout |-> rt]

restart(timer) == [timer EXCEPT !.running = TRUE, !.total_time = 0]

\* Faulty variant: the timeout stays as it was backed off.
start_backed_off(timer, initial_RTO) == restart(timer)

start(timer, initial_RTO) == [restart(timer) EXCEPT !.rt_timeout = initial_RTO]

is_timeout(timer) == timer.rt_timeout <= timer.total_time

double_rto(timer) == [timer EXCEPT !.rt_timeout = 2 * @]

\* Faulty variant: the timer runs on.
clear_running(timer) == [timer EXCEPT !.total_time = 0]

clear(timer) == NewTimer(0)

NewSender(cap, rt, isn) ==
  [isn |-> isn, segments_out |-> << >>, initial_rto |-> rt, stream |-> NewStream(cap),
   next_seqno |-> 0, timer |-> NewTimer(rt), send_base |-> 0, window_size |-> 1,
   window_size_zero |-> FALSE, syn_flag |-> FALSE, fin_flag |-> FALSE,
   copy_segments_out |-> << >>, consecutive_retransmissions |-> 0]

bytes_in_flight(s) == s.next_seqno - s.send_base

\* send_segment for each of segs in turn: they continue the sequence numbers
\* and take up total of them.
send_segments(s, segs, total) ==
  [s EXCEPT !.segments_out      = @ \o segs,
            !.copy_segments_out = @ \o segs,
            !.next_seqno        = @ + total,
            !.timer             = IF @.running \/ segs = << >> THEN @
                                  ELSE start(@, s.initial_rto)]

send_segment(s, seg) ==
  send_segments(s, <<[seg EXCEPT !.seqno = wrap(s.next_seqno, s.isn)]>>,
                length_in_sequence_space(seg))

\* Faulty variant: the bytes in flight do not count.
Remaining_all(s) == s.window_size

\* The free part of the window.
Remaining(s) == (s.window_size - bytes_in_flight(s)) % AbsModulus

\* The loop of fill_window: as many bytes as the window takes, in segments of
\* MAX_PAYLOAD_SIZE; the last one carries the FIN if the stream ends there and
\* the window has room for it.
fill_payload(s) ==
  LET rem    == Remaining(s)
      total  == Least(rem, buffer_size(s.stream))
      Cut(k) == Least(k * MAX_PAYLOAD_SIZE, total)
      n      == (total + MAX_PAYLOAD_SIZE - 1) \div MAX_PAYLOAD_SIZE
      rest   == read(s.stream, total)
      fin    == at_eof(rest) /\ total + 1 <= rem
      segs   == [k \in 1 .. n |->
                   [NewSegment EXCEPT
                      !.seqno   = wrap(s.next_seqno + Cut(k - 1), s.isn),
                      !.fin     = fin /\ k = n,
                      !.payload = SubSeq(s.stream.buf, Cut(k - 1) + 1, Cut(k))]]
  IN  send_segments([s EXCEPT !.stream = rest, !.fin_flag = @ \/ fin],
                    segs, IF fin THEN total + 1 ELSE total)

fill_window(s) ==
  IF \/ s.window_size = 0 \/ s.fin_flag
     \/ s.syn_flag /\ buffer_empty(s.stream) /\ ~ s.stream.eof
  THEN s
  ELSE IF ~ s.syn_flag
  THEN [send_segment(s, [NewSegment EXCEPT !.syn = TRUE]) EXCEPT !.syn_flag = TRUE]
  ELSE IF ~ at_eof(s.stream) THEN fill_payload(s)
  ELSE IF Remaining(s) = 0 THEN s
  ELSE [send_segment(s, [NewSegment EXCEPT !.fin = TRUE]) EXCEPT !.fin_flag = TRUE]

\* Faulty variant: a segment goes when its first byte is acknowledged.
Unacknowledged_first(s, absolute) ==
  LET q == s.copy_segments_out
  IN  SelectSeq(q, LAMBDA seg : absolute <= unwrap(seg.seqno, s.isn, s.next_seqno))

\* The outstanding segments without those at the front that end by absolute.
Unacknowledged(s, absolute) ==
  LET q       == s.copy_segments_out
      Open(i) == absolute < unwrap(q[i].seqno, s.isn, s.next_seqno)
                              + length_in_sequence_space(q[i])
      first   == CHOOSE i \in 1 .. (Len(q) + 1) :
                   /\ i <= Len(q) => Open(i)
                   /\ \A j \in 1 .. (i - 1) : ~ Open(j)
  IN  SubSeq(q, first, Len(q))

ack_received(s, ackno, window_size) ==
  LET absolute == unwrap(ackno, s.isn, s.send_base)
      told     == [s EXCEPT !.window_size = IF window_size = 0 THEN 1 ELSE window_size,
                            !.window_size_zero = (window_size = 0)]
      filled   == fill_window([told EXCEPT !.send_base = absolute,
                                 !.copy_segments_out = Unacknowledged(s, absolute)])
      timer    == IF filled.copy_segments_out # << >>
                  THEN start(filled.timer, s.initial_rto) ELSE clear(filled.timer)
  IN  IF s.next_seqno < absolute THEN s
      ELSE IF absolute <= s.send_base THEN told
      ELSE [filled EXCEPT !.consecutive_retransmissions = 0, !.timer = timer]

\* TCPSender::tick.
sender_tick(s, ms) ==
  LET later   == [s EXCEPT !.timer.total_time = @ + ms]
      expired == s.copy_segments_out # << >> /\ s.timer.running /\ is_timeout(later.timer)
      backoff == IF s.window_size_zero THEN later
                 ELSE [later EXCEPT !.consecutive_retransmissions = @ + 1,
                                    !.timer = double_rto(@)]
  IN  IF expired
      THEN [backoff EXCEPT !.segments_out = Append(@, Head(s.copy_segments_out)),
                           !.timer = restart(@)]
      ELSE later

send_empty_segment(s) ==
  [s EXCEPT !.segments_out =
     Append(@, [NewSegment EXCEPT !.seqno = wrap(s.next_seqno, s.isn)])]
===============================================================================
