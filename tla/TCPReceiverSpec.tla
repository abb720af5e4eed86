---------------------------- MODULE TCPReceiverSpec ----------------------------
(***************************************************************************)
(* A TCPReceiver at work: the segments of a peer that sends InboundLen     *)
(* bytes under the initial sequence number PeerIsn arrive in any order,    *)
(* any number of times and cut in any way, inside the window or beyond it, *)
(* while the owner reads the inbound stream.                               *)
(***************************************************************************)
EXTENDS TCPReceiver

CONSTANTS InboundLen, Capacity, PeerIsn

ASSUME ReceiverAssumption ==
  /\ InboundLen \in Nat /\ Capacity \in Nat /\ PeerIsn \in 0 .. (SeqModulus - 1)
  /\ InboundLen + 1 < SeqModulus \div 2

VARIABLE rc

\* The ways to cut bytes a .. b - 1 out of the stream: the SYN comes before
\* the first byte, the FIN after the last one.
Cuts ==
  {c \in [a : 0 .. InboundLen, b : 0 .. InboundLen, syn : BOOLEAN, fin : BOOLEAN] :
     /\ c.a <= c.b
     /\ c.syn => c.a = 0
     /\ c.fin => c.b = InboundLen}

Part(c) ==
  [NewSegment EXCEPT !.seqno = wrap(IF c.syn THEN 0 ELSE c.a + 1, PeerIsn),
                     !.syn = c.syn, !.fin = c.fin, !.payload = Slice(c.a, c.b)]

ReceiverInit == rc = NewReceiver(Capacity)

Receive == \E c \in Cuts : rc' = receiver_segment_received(rc, Part(c))

Read ==
  \E n \in 1 .. buffer_size(stream_out(rc)) :
    rc' = [rc EXCEPT !.reassembler.output = read(@, n)]

ReceiverNext == Receive \/ Read

ReceiverSpec == ReceiverInit /\ [][ReceiverNext]_rc
-------------------------------------------------------------------------------
ReceiverTypeOK ==
  /\ rc.syn \in BOOLEAN /\ rc.fin \in BOOLEAN
  /\ rc.isn \in 0 .. (SeqModulus - 1)
  /\ rc.recv_base \in 0 .. (InboundLen + 2)
  /\ window_size(rc) \in 0 .. Capacity

\* The left edge that segment_received tests against (_recv_base) is the
\* number that ackno() computes afresh, and is 0 before the SYN.
RecvBaseIsAckno ==
  /\ rc.syn => rc.recv_base = Acked(rc) /\ ackno(rc) = wrap(rc.recv_base, PeerIsn)
  /\ ~ rc.syn => rc = NewReceiver(Capacity)

\* The stream ends when, and only when, the FIN was seen and every byte
\* before it is in.
EndOfStream ==
  stream_out(rc).eof <=> rc.fin /\ stream_out(rc).written = InboundLen

\* Neither edge of the advertised window ever moves back: what the peer was
\* allowed to send stays allowed (ackno and window_size, over any step).
WindowNeverShrinks ==
  [][rc.syn => /\ Acked(rc) <= Acked(rc')
               /\ Acked(rc) + window_size(rc) <= Acked(rc') + window_size(rc')]_rc

\* What the segment c does to the left edge when the window is open and c
\* holds the byte that the receiver is waiting for.
NextByteAdvances(c) ==
  rc.syn /\ window_size(rc) > 0
    /\ c.a <= stream_out(rc).written /\ stream_out(rc).written < c.b
  => Acked(rc) < Acked(receiver_segment_received(rc, Part(c)))

\* A segment without flags that holds the next byte is always accepted.  One
\* with a FIN is not: segment_received remembers the FIN of a segment whose
\* last bytes it cut off, and then refuses its retransmissions.
NextByteAccepted == \A c \in Cuts : ~ c.syn /\ ~ c.fin => NextByteAdvances(c)

\* The reassembler inside only sees excerpts of the peer's stream at their
\* places: it behaves like ReassemblerSpec, with all that is proved there.
Inner == INSTANCE ReassemblerSpec WITH
           StreamLen <- InboundLen, ra <- rc.reassembler

RefinesReassembler == Inner!Spec
===============================================================================
