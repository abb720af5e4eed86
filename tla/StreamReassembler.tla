-------------------------- MODULE StreamReassembler --------------------------
(***************************************************************************)
(* class StreamReassembler (stream_reassembler.cc): stitches excerpts of a *)
(* byte stream, in any order and overlapping, back into the stream.        *)
(*                                                                         *)
(* This module gives every loop of the code its result when iterators move *)
(* to the next element; ReassemblerLoop walks the loops step by step, with *)
(* what an iterator to an erased element can do, and is checked to agree   *)
(* with this module when that element's successor is reached.              *)
(***************************************************************************)
EXTENDS ByteStream, FiniteSets

end(seg) == seg.start + Len(seg.data)

\* Faulty variant: merged segments are not subtracted.
TotalSize_forgotten(segs) == 0

\* The sum of the sizes of the segments in a set.
TotalSize(segs) == Cardinality(UNION {{p} \X (1 .. Len(p.data)) : p \in segs})

NewReassembler(cap) ==
  [segs |-> {}, bytes |-> 0, eof |-> FALSE, pos_eof |-> 0,
   output |-> NewStream(cap), cap |-> cap]

\* Faulty variant: the bytes up to pos are not cut off.
Beyond_uncut(seg, pos) == seg.data

\* Where the stored segment (or new segment) seg reaches beyond position pos.
Beyond(seg, pos) == Substr(seg.data, pos - seg.start)

\* The last stored segment that starts before position pos.
LastBefore(segs, pos) ==
  CHOOSE l \in segs : /\ l.start < pos
                      /\ \A p \in segs : p.start < pos => p.start <= l.start

\* Faulty variant: what reaches beyond the end is lost.
Extend_never(seg, segs) == seg

\* seg extended by the one element of a set that reaches beyond its end.
Extend(seg, segs) ==
  LET longer == {p \in segs : end(seg) < end(p)}
  IN  IF longer = {} THEN seg
      ELSE [seg EXCEPT !.data = @ \o Beyond(CHOOSE p \in longer : TRUE, end(seg))]

\* Stores seg, merged with the stored segments it overlaps or touches.
insert(r, seg) ==
  LET left    == {p \in r.segs : p.start < seg.start}
      l       == LastBefore(r.segs, seg.start)
      joins   == left # {} /\ seg.start <= end(l)
      merged  == IF joins THEN [start |-> l.start,
                                data  |-> l.data \o Beyond(seg, end(l))]
                          ELSE seg
      right   == {p \in r.segs \ left : p.start <= end(merged)}
      covered == \E p \in right : merged.start >= p.start /\ end(merged) <= end(p)
      gone    == right \union (IF joins THEN {l} ELSE {})
      stored  == Extend(merged, right)
  IN  IF (joins /\ end(seg) <= end(l)) \/ covered
      THEN r
      ELSE [r EXCEPT !.segs  = (@ \ gone) \union {stored},
                     !.bytes = @ - TotalSize(gone) + Len(stored.data)]

\* Writes seg, which starts no later than the first unassembled byte, and
\* the stored segment it leads up to.
assemble(r, seg) ==
  LET ready == {p \in r.segs : p.start <= end(seg)}
      all   == Extend(seg, ready)
      first == write(r.output, Beyond(seg, r.output.written))
  IN  [r EXCEPT !.output = write(first, Beyond(all, end(seg))),
                !.segs   = @ \ ready,
                !.bytes  = @ - TotalSize(ready)]

\* Faulty variant: the stream ends with the excerpt that ends it.
judge_eof_early(r, stop, eof) ==
  IF eof THEN [r EXCEPT !.eof = TRUE, !.pos_eof = stop, !.output = end_input(@)] ELSE r

\* Faulty variant: the end is forgotten when bytes before it are missing.
judge_eof_now(r, stop, eof) ==
  IF eof /\ r.output.written = stop THEN [r EXCEPT !.output = end_input(@)] ELSE r

\* The label JUDGE_EOF.
judge_eof(r, stop, eof) ==
  LET known == IF eof THEN [r EXCEPT !.eof = TRUE, !.pos_eof = stop] ELSE r
  IN  IF known.eof /\ known.output.written = known.pos_eof
      THEN [known EXCEPT !.output = end_input(@)]
      ELSE known

push_substring(r, data, index, eof) ==
  LET first_unassembled == r.output.written
      first_unaccepted  == r.output.read + r.cap
      stop  == index + Len(data)
      seg   == [start |-> index,
                data  |-> IF first_unaccepted < stop
                          THEN SubSeq(data, 1, first_unaccepted - index) ELSE data]
      taken == IF stop < first_unassembled \/ first_unaccepted <= index THEN r
               ELSE IF index <= first_unassembled THEN assemble(r, seg)
               ELSE insert(r, seg)
  IN  judge_eof(taken, stop, eof)
===============================================================================
