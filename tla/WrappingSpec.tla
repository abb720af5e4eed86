----------------------------- MODULE WrappingSpec -----------------------------
(***************************************************************************)
(* A peer names positions of a stream by their wrapped numbers, and the    *)
(* program turns them back, with the furthest position it knows of as the  *)
(* checkpoint: the way TCPReceiver and TCPSender use wrap and unwrap.      *)
(***************************************************************************)
EXTENDS WrappingIntegers

\* Positions stay below the last period of the absolute numbers.
MaxAbsolute == AbsModulus - SeqModulus

VARIABLES isn, checkpoint,
          named,     \* the last position named by the peer
          found      \* what unwrap made of its number

numbers == <<isn, checkpoint, named, found>>

NumbersInit ==
  /\ isn \in 0 .. (SeqModulus - 1)
  /\ checkpoint = 0 /\ named = 0 /\ found = 0

\* A position less than half a period away from the checkpoint arrives.
Arrive ==
  \E p \in 0 .. (MaxAbsolute - 1) :
    /\ Distance(p, checkpoint) < SeqModulus \div 2
    /\ named' = p
    /\ found' = unwrap(wrap(p, isn), isn, checkpoint)
    /\ checkpoint' = IF found' > checkpoint THEN found' ELSE checkpoint
    /\ UNCHANGED isn

NumbersNext == Arrive

NumbersSpec == NumbersInit /\ [][NumbersNext]_numbers
-------------------------------------------------------------------------------
NumbersTypeOK ==
  /\ isn \in 0 .. (SeqModulus - 1)
  /\ checkpoint \in 0 .. (AbsModulus - 1)
  /\ named \in 0 .. (AbsModulus - 1) /\ found \in 0 .. (AbsModulus - 1)

\* A position within half a period of the checkpoint survives the trip over
\* the wire, across any number of wrap-arounds (wrap and unwrap).
RoundTrip == found = named

\* unwrap returns "the 64-bit sequence number that wraps to `n` and is
\* closest to `checkpoint`" (wrapping_integers.cc), for every number n.
UnwrapIsClosest ==
  \A n \in 0 .. (SeqModulus - 1) :
    LET u == unwrap(n, isn, checkpoint)
    IN  /\ wrap(u, isn) = n
        /\ \A v \in 0 .. (AbsModulus - 1) :
             wrap(v, isn) = n => Distance(u, checkpoint) <= Distance(v, checkpoint)
===============================================================================
