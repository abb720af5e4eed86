----------------------------- MODULE TCPSenderSpec -----------------------------
(***************************************************************************)
(* A TCPSender at work: its owner writes StreamLen bytes and ends the      *)
(* stream, calls fill_window, passes acknowledgments on and lets time      *)
(* pass, in any order.  Acknowledgments of a correct receiver come in the  *)
(* order in which it sent them, or late, repeated and meaningless ones do. *)
(***************************************************************************)
EXTENDS TCPSender

CONSTANTS StreamLen, SendCapacity, Isn, InitialRTO, MaxRetx, Windows

ASSUME ConstantsAssumption ==
  /\ StreamLen \in Nat /\ SendCapacity \in Nat /\ Isn \in 0 .. (SeqModulus - 1)
  /\ StreamLen + 3 < SeqModulus \div 2
  /\ InitialRTO \in Nat \ {0} /\ MaxRetx \in Nat
  /\ Windows \subseteq Nat

VARIABLES s,
          edge     \* the furthest position the peer has promised to take, or -1
                   \* once an acknowledgment was not one of a correct receiver
                   \* in the order of sending

vars == <<s, edge>>

Init == s = NewSender(SendCapacity, InitialRTO, Isn) /\ edge = 1

\* The sender once its owner has taken the segments out of the queue, which
\* it does after every call.
Taken == [s EXCEPT !.segments_out = << >>]

Fill == s' = fill_window(Taken) /\ UNCHANGED edge

Write ==
  /\ ~ s.stream.eof
  /\ \E n \in 1 .. (StreamLen - s.stream.written) :
       s' = [Taken EXCEPT !.stream = write(@, Slice(@.written, @.written + n))]
  /\ UNCHANGED edge

EndInput ==
  /\ ~ s.stream.eof
  /\ s' = [Taken EXCEPT !.stream = end_input(@)]
  /\ UNCHANGED edge

Ack ==
  \E a \in 0 .. (s.next_seqno + 1) : \E w \in Windows :
    /\ s' = ack_received(Taken, wrap(a, Isn), w)
    /\ edge' = IF /\ s.send_base <= a /\ 1 <= a /\ a <= s.next_seqno
                  /\ edge # -1 /\ edge <= a + w
               THEN a + w ELSE -1

\* One unit of time.  The owner resets the connection, and stops the clock,
\* once there were more than MaxRetx retransmissions; an idle clock is of no
\* interest.
Tick ==
  /\ s.consecutive_retransmissions <= MaxRetx
  /\ s.timer.running
  /\ s' = sender_tick(Taken, 1)
  /\ UNCHANGED edge

SendEmpty == s' = send_empty_segment(Taken) /\ UNCHANGED edge

Next == Fill \/ Write \/ EndInput \/ Ack \/ Tick \/ SendEmpty

Spec == Init /\ [][Next]_vars
-------------------------------------------------------------------------------
TypeOK ==
  /\ s.next_seqno \in 0 .. (StreamLen + 2) /\ s.send_base \in 0 .. (StreamLen + 2)
  /\ s.window_size \in Nat \ {0}
  /\ s.consecutive_retransmissions \in 0 .. (MaxRetx + 1)
  /\ s.timer \in [running : BOOLEAN, total_time : Nat, rt_timeout : Nat]
  /\ buffer_size(s.stream) <= SendCapacity

\* Every byte taken from the stream, the SYN and the FIN are given one
\* sequence number each: none is skipped and none is used twice, however the
\* calls of fill_window come.  The FIN's is behind all bytes of an ended stream.
NumbersMatchStream ==
  /\ s.next_seqno = s.stream.read + (IF s.syn_flag THEN 1 ELSE 0)
                                  + (IF s.fin_flag THEN 1 ELSE 0)
  /\ s.fin_flag => s.stream.eof /\ s.stream.read = s.stream.written

\* The absolute number of an outstanding segment.
Position(seg) == unwrap(seg.seqno, s.isn, s.next_seqno)

\* The outstanding segments hold exactly what is sent and not acknowledged,
\* in order and without a gap, down to the one that the acknowledgment cut
\* in two (send_segment and the popping in ack_received).
OutstandingComplete ==
  LET q       == s.copy_segments_out
      Stop(i) == Position(q[i]) + length_in_sequence_space(q[i])
  IN  /\ q = << >> <=> s.send_base = s.next_seqno
      /\ q # << >> => /\ Position(q[1]) <= s.send_base /\ s.send_base < Stop(1)
                      /\ Stop(Len(q)) = s.next_seqno
      /\ \A i \in 1 .. (Len(q) - 1) : Stop(i) = Position(q[i + 1])
      /\ \A i \in DOMAIN q :
           LET p == Position(q[i])
           IN  /\ q[i].syn <=> p = 0
               /\ q[i].fin <=> (s.fin_flag /\ i = Len(q))
               /\ p > 0 => q[i].payload = Slice(p - 1, p - 1 + Len(q[i].payload))
               /\ Len(q[i].payload) <= MAX_PAYLOAD_SIZE

\* The timer runs exactly while something is outstanding: nothing that was
\* sent is left without a retransmission, and no timer fires for nothing.
TimerRunsWhileOutstanding == s.timer.running <=> s.copy_segments_out # << >>

\* The timeout in force is the initial one doubled once per consecutive
\* retransmission; filling a closed window by a probe does not count.
BackoffMatchesRetries ==
  /\ s.timer.running => s.timer.rt_timeout = InitialRTO * 2 ^ s.consecutive_retransmissions
  /\ ~ s.timer.running => s.consecutive_retransmissions = 0

\* Whatever is newly sent fits in the window that the peer advertised last
\* (one byte when it is closed): "Immediate window is respected"
\* (tests/send_window.cc), by fill_window as called from anywhere.
WindowRespected ==
  [][s.next_seqno < s'.next_seqno => s'.next_seqno <= s'.send_base + s'.window_size]_vars

\* The same while the acknowledgments come from a correct receiver, which
\* never takes a promise back, and in order.
PromiseRespected ==
  [][s.next_seqno < s'.next_seqno /\ edge' # -1 =>
       s'.next_seqno <= s'.send_base + s'.window_size]_vars
===============================================================================
