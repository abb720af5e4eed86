------------------------------ MODULE Reassembly ------------------------------
(***************************************************************************)
(* What the stream reassembler promises, without its data structure: of    *)
(* every excerpt it keeps the bytes that fit between what was read and the *)
(* capacity, it hands on the longest run of bytes it has from the start of *)
(* the stream, and it ends the stream when that run is the whole stream.   *)
(***************************************************************************)
EXTENDS Integers

CONSTANTS StreamLen, Capacity

VARIABLES held,     \* the positions of all bytes kept so far
          taken,    \* how many bytes the reader has taken
          last      \* whether the end of the stream is known

vars == <<held, taken, last>>

\* The first position that is not held: everything before it is handed on.
Assembled == CHOOSE n \in 0 .. StreamLen : n \notin held /\ 0 .. (n - 1) \subseteq held

Ended == last /\ Assembled = StreamLen

Init == held = {} /\ taken = 0 /\ last = FALSE

Keep(a, b, eof) ==
  /\ held' = held \union {i \in a .. (b - 1) : i < taken + Capacity}
  /\ last' = (last \/ eof)
  /\ taken' = taken

Take == taken' \in (taken + 1) .. Assembled /\ UNCHANGED <<held, last>>

Next ==
  \/ \E a \in 0 .. StreamLen : \E b \in a .. StreamLen : \E eof \in BOOLEAN :
       (eof => b = StreamLen) /\ Keep(a, b, eof)
  \/ Take

Spec == Init /\ [][Next]_vars
===============================================================================
