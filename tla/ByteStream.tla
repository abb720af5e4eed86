------------------------------ MODULE ByteStream ------------------------------
(***************************************************************************)
(* class ByteStream (byte_stream.hh, byte_stream.cc): the flow-controlled  *)
(* in-memory queue of bytes between one writer and one reader.  A stream   *)
(* is a record of the class's members; every method is an operator from a  *)
(* stream to a stream.                                                     *)
(*                                                                         *)
(* A byte is modelled by its position in the logical stream it belongs to, *)
(* so that a byte that is lost, repeated or taken from the wrong offset    *)
(* shows in the contents.                                                  *)
(***************************************************************************)
EXTENDS Integers, Sequences

\* The bytes at positions a .. b - 1 of a logical stream.
Slice(a, b) == [i \in 1 .. (b - a) |-> a + i - 1]

\* The part of the string s from offset k on: s.substr(k).
Substr(s, k) == SubSeq(s, k + 1, Len(s))

Least(m, n) == IF m <= n THEN m ELSE n

NewStream(cap) ==
  [buf |-> <<>>, cap |-> cap, eof |-> FALSE, error |-> FALSE,
   written |-> 0, read |-> 0]

buffer_size(b) == Len(b.buf)

buffer_empty(b) == buffer_size(b) = 0

\* _eof && buffer_empty(): the reader has reached the end.
at_eof(b) == b.eof /\ buffer_empty(b)

remaining_capacity(b) == b.cap - buffer_size(b)

\* Accepts what fits and drops the rest; it does not look at _eof.
write(b, data) ==
  LET bw == Least(Len(data), remaining_capacity(b))
  IN  [b EXCEPT !.buf = @ \o SubSeq(data, 1, bw), !.written = @ + bw]

peek_output(b, len) == SubSeq(b.buf, 1, Least(len, buffer_size(b)))

pop_output(b, len) == [b EXCEPT !.buf = Substr(@, len), !.read = @ + len]

\* What read(len) leaves behind; what it returns is peek_output(b, len).
read(b, len) == pop_output(b, Least(len, buffer_size(b)))

end_input(b) == [b EXCEPT !.eof = TRUE]

set_error(b) == [b EXCEPT !.error = TRUE]
===============================================================================
