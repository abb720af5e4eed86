-------------------------------- MODULE Buffers --------------------------------
(***************************************************************************)
(* Buffer, BufferList and BufferViewList (buffer.hh, buffer.cc).  A Buffer *)
(* is its storage, a sequence or none, and an offset into it; a BufferList *)
(* is a sequence of Buffers, and a BufferViewList a sequence of strings.   *)
(***************************************************************************)
EXTENDS Integers, Sequences, SequencesExt

\* Storage is a sequence of length one, or empty when it was released.
NewBuffer(s) == [storage |-> <<s>>, offset |-> 0]

str(b) ==
  IF b.storage = << >> THEN << >> ELSE SubSeq(b.storage[1], b.offset + 1, Len(b.storage[1]))

\* Buffer::remove_prefix, for n no larger than the string.
buffer_remove_prefix(b, n) ==
  LET moved == [b EXCEPT !.offset = @ + n]
  IN  IF b.storage # << >> /\ moved.offset = Len(b.storage[1])
      THEN [moved EXCEPT !.storage = << >>] ELSE moved

append(list, other) == list \o other

concatenate(list) == FoldLeft(LAMBDA s, b : s \o str(b), << >>, list)

size(list) == FoldLeft(LAMBDA n, b : n + Len(str(b)), 0, list)

\* BufferList::remove_prefix gives the rest, and what of n was left over, for
\* which the code throws.
remove_prefix(list, n) ==
  LET Visit(acc, b) ==
        IF acc.n = 0 THEN [acc EXCEPT !.rest = Append(@, b)]
        ELSE IF acc.n < Len(str(b))
        THEN [n |-> 0, rest |-> Append(acc.rest, buffer_remove_prefix(b, acc.n))]
        ELSE [acc EXCEPT !.n = @ - Len(str(b))]
  IN  FoldLeft(Visit, [n |-> n, rest |-> << >>], list)

\* BufferViewList(const BufferList &).
Views(list) == [k \in DOMAIN list |-> str(list[k])]

view_size(views) == FoldLeft(LAMBDA n, v : n + Len(v), 0, views)

\* Faulty variant: a view that is only partly removed stays as it is.
view_remove_prefix_stays(views, n) ==
  LET Visit(acc, v) ==
        IF acc.n < Len(v) \/ acc.n = 0 THEN [n |-> 0, rest |-> Append(acc.rest, v)]
        ELSE [acc EXCEPT !.n = @ - Len(v)]
  IN  FoldLeft(Visit, [n |-> n, rest |-> << >>], views)

\* BufferViewList::remove_prefix, in the same way.
view_remove_prefix(views, n) ==
  LET Visit(acc, v) ==
        IF acc.n = 0 THEN [acc EXCEPT !.rest = Append(@, v)]
        ELSE IF acc.n < Len(v)
        THEN [n |-> 0, rest |-> Append(acc.rest, SubSeq(v, acc.n + 1, Len(v)))]
        ELSE [acc EXCEPT !.n = @ - Len(v)]
  IN  FoldLeft(Visit, [n |-> n, rest |-> << >>], views)
===============================================================================
