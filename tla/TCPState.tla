------------------------------- MODULE TCPState -------------------------------
(***************************************************************************)
(* class TCPState (tcp_state.hh, .cc): a connection summed up by the state *)
(* of its sender, the state of its receiver and two flags, and the         *)
(* combinations that are the states of RFC 793.                            *)
(***************************************************************************)
EXTENDS TCPConnection

receiver_summary(r) ==
  IF stream_out(r).error THEN "ERROR"
  ELSE IF ~ has_ackno(r) THEN "LISTEN"
  ELSE IF stream_out(r).eof THEN "FIN_RECV" ELSE "SYN_RECV"

sender_summary(s) ==
  IF s.stream.error THEN "ERROR"
  ELSE IF s.next_seqno = 0 THEN "CLOSED"
  ELSE IF s.next_seqno = bytes_in_flight(s) THEN "SYN_SENT"
  ELSE IF ~ at_eof(s.stream) \/ s.next_seqno < s.stream.written + 2 THEN "SYN_ACKED"
  ELSE IF bytes_in_flight(s) > 0 THEN "FIN_SENT" ELSE "FIN_ACKED"

Summary(sender, receiver, active, linger) ==
  [sender |-> sender, receiver |-> receiver, active |-> active, linger |-> linger]

\* TCPConnection::state().
state(c) ==
  Summary(sender_summary(c.sender), receiver_summary(c.receiver),
          c.active, c.active /\ c.linger)

Official ==
  [LISTEN      |-> Summary("CLOSED",    "LISTEN",   TRUE,  TRUE),
   SYN_RCVD    |-> Summary("SYN_SENT",  "SYN_RECV", TRUE,  TRUE),
   SYN_SENT    |-> Summary("SYN_SENT",  "LISTEN",   TRUE,  TRUE),
   ESTABLISHED |-> Summary("SYN_ACKED", "SYN_RECV", TRUE,  TRUE),
   CLOSE_WAIT  |-> Summary("SYN_ACKED", "FIN_RECV", TRUE,  FALSE),
   LAST_ACK    |-> Summary("FIN_SENT",  "FIN_RECV", TRUE,  FALSE),
   CLOSING     |-> Summary("FIN_SENT",  "FIN_RECV", TRUE,  TRUE),
   FIN_WAIT_1  |-> Summary("FIN_SENT",  "SYN_RECV", TRUE,  TRUE),
   FIN_WAIT_2  |-> Summary("FIN_ACKED", "SYN_RECV", TRUE,  TRUE),
   TIME_WAIT   |-> Summary("FIN_ACKED", "FIN_RECV", TRUE,  TRUE),
   RESET       |-> Summary("ERROR",     "ERROR",    FALSE, FALSE),
   CLOSED      |-> Summary("FIN_ACKED", "FIN_RECV", FALSE, FALSE)]

\* The official state of a connection.
Official_name(c) == CHOOSE n \in DOMAIN Official : Official[n] = state(c)

\* The transitions of RFC 793: its diagram, a FIN in SYN_RCVD, and a reset.
Transition ==
  [LISTEN      |-> {"SYN_SENT", "SYN_RCVD"},
   SYN_SENT    |-> {"SYN_RCVD", "ESTABLISHED", "RESET"},
   SYN_RCVD    |-> {"ESTABLISHED", "FIN_WAIT_1", "CLOSE_WAIT", "RESET"},
   ESTABLISHED |-> {"FIN_WAIT_1", "CLOSE_WAIT", "RESET"},
   FIN_WAIT_1  |-> {"FIN_WAIT_2", "CLOSING", "TIME_WAIT", "RESET"},
   FIN_WAIT_2  |-> {"TIME_WAIT", "RESET"},
   CLOSING     |-> {"TIME_WAIT", "RESET"},
   TIME_WAIT   |-> {"CLOSED", "RESET"},
   CLOSE_WAIT  |-> {"LAST_ACK", "RESET"},
   LAST_ACK    |-> {"CLOSED", "RESET"},
   RESET       |-> {},
   CLOSED      |-> {}]

\* One call may take two transitions: the segment that opens a connection or
\* ends the inbound stream also lets the FIN out that was waiting for it.
After(n) == Transition[n] \union UNION {Transition[m] : m \in Transition[n]}
===============================================================================
