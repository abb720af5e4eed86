------------------------------ MODULE TCPSegment ------------------------------
(***************************************************************************)
(* class TCPSegment and struct TCPHeader, the fields the protocol acts on. *)
(***************************************************************************)
EXTENDS Integers, Sequences

NewSegment ==
  [seqno |-> 0, syn |-> FALSE, fin |-> FALSE, rst |-> FALSE,
   ack |-> FALSE, ackno |-> 0, win |-> 0, payload |-> << >>]

\* Faulty variant: the FIN is not counted.
length_without_fin(seg) == Len(seg.payload) + (IF seg.syn THEN 1 ELSE 0)

length_in_sequence_space(seg) ==
  Len(seg.payload) + (IF seg.syn THEN 1 ELSE 0) + (IF seg.fin THEN 1 ELSE 0)
===============================================================================
