----------------------------- MODULE MCEndpoints -----------------------------
(***************************************************************************)
(* Instances of the two halves of a connection, TCPSenderSpec and          *)
(* TCPReceiverSpec, and of the sequence numbers that both use.  A          *)
(* behaviour is about one of the three, its subject; the others stand      *)
(* still.                                                                  *)
(***************************************************************************)
EXTENDS TCPSenderSpec, TCPReceiverSpec, WrappingSpec

VARIABLE subject

MCInit ==
  /\ subject \in {"sender", "receiver", "numbers"}
  /\ Init /\ ReceiverInit /\ NumbersInit
  /\ subject = "numbers" \/ isn = 0

MCNext ==
  /\ \/ subject = "sender" /\ Next /\ UNCHANGED <<rc, numbers>>
     \/ subject = "receiver" /\ ReceiverNext /\ UNCHANGED <<vars, numbers>>
     \/ subject = "numbers" /\ NumbersNext /\ UNCHANGED <<vars, rc>>
  /\ UNCHANGED subject

MCSpec == MCInit /\ [][MCNext]_<<subject, vars, rc, numbers>>
-------------------------------------------------------------------------------
\* The reassembler of the receiver, walked loop by loop.
Loop == INSTANCE ReassemblerLoop WITH
          StreamLen <- InboundLen, ra <- rc.reassembler, Stale <- {"next"}

\* For every excerpt in every state of the receiver, the loops of insert and
\* push_substring compute what the one step of StreamReassembler says.
LoopsAgree == subject = "receiver" => Loop!LoopsAgree
===============================================================================
