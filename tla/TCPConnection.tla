----------------------------- MODULE TCPConnection -----------------------------
(***************************************************************************)
(* class TCPConnection (tcp_connection.hh, .cc): one endpoint, made of a   *)
(* TCPReceiver for the inbound stream and a TCPSender for the outbound     *)
(* one.  Times are counted in units of the owner's choice.                 *)
(***************************************************************************)
EXTENDS TCPReceiver, TCPSender

CONSTANTS MAX_RETX_ATTEMPTS,
          LingerFactor,    \* TIME_WAIT in units of rt_timeout, 10 in the code
          MaxWin           \* numeric_limits<uint16_t>().max()

ASSUME ConnectionAssumption ==
  MAX_RETX_ATTEMPTS \in Nat /\ LingerFactor \in Nat /\ MaxWin \in Nat \ {0}

\* cfg has the members of TCPConfig.
NewConnection(cfg) ==
  [cfg |-> cfg, receiver |-> NewReceiver(cfg.recv_capacity),
   sender |-> NewSender(cfg.send_capacity, cfg.rt_timeout, cfg.isn),
   segments_out |-> << >>, linger |-> TRUE, time |-> 0,
   active |-> TRUE, send_rst |-> FALSE]

r_state(c) ==
  IF ~ has_ackno(c.receiver) THEN "listening"
  ELSE IF stream_out(c.receiver).eof THEN "fin_recv" ELSE "syn_received"

s_state(c) ==
  LET next   == c.sender.next_seqno
      stream == c.sender.stream
      flight == bytes_in_flight(c.sender)
  IN  CASE next = 0 -> "closed"
        [] next # 0 /\ next = flight -> "syn_sent"
        [] next > flight /\ (~ at_eof(stream) \/ next < stream.written + 2) -> "syn_acked"
        [] next > flight /\ at_eof(stream) /\ next = stream.written + 2 ->
             IF flight > 0 THEN "fin_sent" ELSE "fin_acked"
        [] OTHER -> "unknown"

\* Faulty variant: whoever has the whole inbound stream.
PassiveClose_any(c) == r_state(c) = "fin_recv"

\* The inbound stream ended before the FIN of the outbound one went out.
PassiveClose(c) ==
  r_state(c) = "fin_recv" /\ s_state(c) \in {"closed", "syn_sent", "syn_acked"}

StreamsFinished(c) == r_state(c) = "fin_recv" /\ s_state(c) = "fin_acked"

\* Decides whether to linger, and closes the connection when both streams are
\* done and it need not, or no longer, linger.
clean_shutdown(c) ==
  LET linger == c.linger /\ ~ PassiveClose(c)
      done   == /\ StreamsFinished(c)
                /\ ~ linger \/ LingerFactor * c.cfg.rt_timeout <= c.time
  IN  [c EXCEPT !.linger = linger, !.active = @ /\ ~ done]

\* Fills the window and moves the sender's segments to the connection's queue,
\* each with the receiver's acknowledgment; a pending RST goes on the first.
push_segment_out(c, send_syn) ==
  LET opened   == send_syn \/ s_state(c) # "closed" \/ r_state(c) # "listening"
      sender   == IF opened THEN fill_window(c.sender) ELSE c.sender
      heard    == r_state(c) # "listening"
      Stamp(k) == [sender.segments_out[k] EXCEPT
                     !.ack   = heard,
                     !.ackno = IF heard THEN ackno(c.receiver) ELSE @,
                     !.win   = IF heard THEN Least(window_size(c.receiver), MaxWin) ELSE @,
                     !.rst   = c.send_rst /\ k = 1]
  IN  clean_shutdown(
        [c EXCEPT !.sender       = [sender EXCEPT !.segments_out = << >>],
                  !.segments_out = @ \o [k \in DOMAIN sender.segments_out |-> Stamp(k)],
                  !.send_rst     = @ /\ sender.segments_out = << >>])

unclean_shutdown(c, send_rst) ==
  LET dead == [c EXCEPT !.sender.stream = set_error(@),
                        !.receiver.reassembler.output = set_error(@),
                        !.active = FALSE]
      rst  == [dead EXCEPT !.send_rst = TRUE,
                           !.sender = IF @.segments_out = << >>
                                      THEN send_empty_segment(@) ELSE @]
  IN  IF send_rst THEN push_segment_out(rst, FALSE) ELSE dead

connect(c) == push_segment_out(c, TRUE)

\* Hands a segment to the receiver and its acknowledgment to the sender.
Take(c, seg) ==
  [c EXCEPT !.receiver = receiver_segment_received(@, seg),
            !.sender   = IF seg.ack THEN ack_received(@, seg.ackno, seg.win) ELSE @]

\* Sends what the segment just taken calls for: a SYN of its own, or at least
\* an acknowledgment.
Answer(c, seg) ==
  IF seg.syn /\ r_state(c) = "listening" /\ s_state(c) = "closed"
  THEN connect(c)
  ELSE push_segment_out(
         [c EXCEPT !.sender =
            IF /\ length_in_sequence_space(seg) > 0
               /\ r_state(c) # "listening" /\ @.segments_out = << >>
               /\ ~ (seg.syn /\ ~ seg.ack /\ s_state(c) = "closed")
            THEN send_empty_segment(@) ELSE @], FALSE)

\* Faulty variant: answers although it is closed.
segment_received_closed(c, seg) ==
  IF seg.rst THEN c ELSE Answer(Take([c EXCEPT !.time = 0], seg), seg)

segment_received(c, seg) ==
  LET heard == [c EXCEPT !.time = 0]
      deaf  == seg.ack /\ s_state(c) = "closed"
  IN  CASE ~ c.active                         -> c
        [] c.active /\ deaf                   -> heard
        [] c.active /\ ~ deaf /\ seg.rst      -> unclean_shutdown(heard, FALSE)
        [] c.active /\ ~ deaf /\ ~ seg.rst    -> Answer(Take(heard, seg), seg)

connection_write(c, data) ==
  push_segment_out([c EXCEPT !.sender.stream = write(@, data)], FALSE)

end_input_stream(c) ==
  push_segment_out([c EXCEPT !.sender.stream = end_input(@)], FALSE)

tick(c, ms) ==
  LET later   == [c EXCEPT !.time = @ + ms, !.sender = sender_tick(@, ms)]
      limited == IF later.sender.consecutive_retransmissions > MAX_RETX_ATTEMPTS
                 THEN unclean_shutdown(later, TRUE) ELSE later
  IN  IF c.active THEN push_segment_out(limited, FALSE) ELSE c
===============================================================================
