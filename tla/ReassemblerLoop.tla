---------------------------- MODULE ReassemblerLoop ----------------------------
(***************************************************************************)
(* The loops of StreamReassembler::insert and push_substring, one element  *)
(* at a time.  insert erases the element an iterator points to and then    *)
(* increments that iterator (stream_reassembler.cc:47-49 and 64, 53), which*)
(* the C++ standard leaves undefined.  Stale names what a build does then: *)
(*   "next"   the freed tree node still leads to the next element;         *)
(*   "other"  the tree was relinked around the freed node, which leads to  *)
(*            an element further left, or past the next one (that takes a  *)
(*            node with two subtrees, the right one of two nodes or more). *)
(* If the allocator has reused the node the process may also die: then     *)
(* there is no next state.                                                 *)
(***************************************************************************)
EXTENDS ReassemblerSpec

CONSTANT Stale

ASSUME StaleAssumption == Stale \subseteq {"next", "other"} /\ Stale # {}

\* The iterator set.end().
EndIt == [start |-> -1, data |-> <<>>]

\* Faulty variant: upper_bound in place of lower_bound.
FirstAfter(segs, pos) ==
  LET from == {p \in segs : p.start > pos}
  IN  IF from = {} THEN EndIt
      ELSE CHOOSE p \in from : \A q \in from : p.start <= q.start

\* The first element that starts at or after pos: lower_bound, begin, ++it.
FirstFrom(segs, pos) ==
  LET from == {p \in segs : p.start >= pos}
  IN  IF from = {} THEN EndIt
      ELSE CHOOSE p \in from : \A q \in from : p.start <= q.start

\* Where it++ can lead after erase(it).
AfterErased(segs, it) ==
  LET next  == FirstFrom(segs, it.start)
      left  == {p \in segs : p.start < it.start}
      later == (segs \ left) \ {next}
  IN  (IF "next" \in Stale THEN {next} ELSE {}) \union
      (IF "other" \in Stale THEN left \union (IF left = {} THEN {} ELSE later)
                            ELSE {})

\* std::set::insert: an element with the same key is kept.
SetInsert(segs, seg) ==
  IF \E p \in segs : p.start = seg.start THEN segs ELSE segs \union {seg}

\* The for loop over the right-hand side (lines 52-68) from iterator it on:
\* the set of its possible ends.  start and size do not change in it.
RECURSIVE RightLoop(_, _, _, _, _)
RightLoop(r, tmp, start, size, it) ==
  IF it = EndIt \/ start + size < it.start
  THEN {[r EXCEPT !.segs  = SetInsert(@, tmp), !.bytes = @ + Len(tmp.data)]}
  ELSE IF start >= it.start /\ start + size <= end(it) THEN {r}
  ELSE LET tmp1 == IF start + size < end(it)
                   THEN [tmp EXCEPT !.data = @ \o Beyond(it, start + size)] ELSE tmp
           r1   == [r EXCEPT !.segs = @ \ {it}, !.bytes = @ - Len(it.data)]
       IN  UNION {RightLoop(r1, tmp1, start, size, nxt) :
                    nxt \in AfterErased(r1.segs, it)}

\* insert (lines 25-69): the left neighbour first.
insert_loop(r, seg) ==
  LET it == LastBefore(r.segs, seg.start)
      r1 == [r EXCEPT !.segs = @ \ {it}, !.bytes = @ - Len(it.data)]
      tmp == [start |-> it.start, data |-> it.data \o Beyond(seg, end(it))]
  IN  IF /\ \E p \in r.segs : p.start < seg.start
         /\ seg.start <= end(it)
      THEN IF end(seg) <= end(it) THEN {r}
           ELSE UNION {RightLoop(r1, tmp, tmp.start, Len(tmp.data), nxt) :
                         nxt \in AfterErased(r1.segs, it)}
      ELSE RightLoop(r, seg, seg.start, Len(seg.data), FirstFrom(r.segs, seg.start))

\* The while loop of push_substring (lines 94-101).  At end() it reads a
\* member of _output in place of a start; that is a pointer, beyond any
\* position, and the loop stops.
RECURSIVE WriteLoop(_, _)
WriteLoop(r, pos) ==
  LET it  == FirstFrom(r.segs, 0)
      out == IF pos < end(it) THEN write(r.output, Beyond(it, pos)) ELSE r.output
  IN  IF it = EndIt \/ it.start > pos THEN r
      ELSE WriteLoop([r EXCEPT !.output = out, !.segs = @ \ {it},
                               !.bytes = @ - Len(it.data)], pos)

push_outcomes(r, data, index, eof) ==
  LET first_unassembled == r.output.written
      first_unaccepted  == r.output.read + r.cap
      stop == index + Len(data)
      seg  == [start |-> index,
               data  |-> IF first_unaccepted < stop
                         THEN SubSeq(data, 1, first_unaccepted - index) ELSE data]
      r1   == [r EXCEPT !.output = write(@, Beyond(seg, first_unassembled))]
      ends == IF stop < first_unassembled \/ first_unaccepted <= index THEN {r}
              ELSE IF index <= first_unassembled THEN {WriteLoop(r1, end(seg))}
              ELSE insert_loop(r, seg)
  IN  {judge_eof(e, stop, eof) : e \in ends}

LoopPush ==
  \E a \in 0 .. StreamLen : \E b \in a .. StreamLen : \E eof \in BOOLEAN :
    /\ eof => b = StreamLen
    /\ ra' \in push_outcomes(ra, Slice(a, b), a, eof)

LoopNext == LoopPush \/ Read

LoopSpec == Init /\ [][LoopNext]_ra
-------------------------------------------------------------------------------
\* Walking the loops gives what push_substring of StreamReassembler computes,
\* for every excerpt in every state, as long as the stale iterator reaches the
\* next element.
LoopsAgree ==
  \A a \in 0 .. StreamLen : \A b \in a .. StreamLen : \A eof \in BOOLEAN :
    (eof => b = StreamLen) =>
      push_outcomes(ra, Slice(a, b), a, eof) = {push_substring(ra, Slice(a, b), a, eof)}
===============================================================================
