---------------------------- MODULE ReassemblerSpec ----------------------------
(***************************************************************************)
(* A StreamReassembler at work: the excerpts of one logical stream of      *)
(* StreamLen bytes are pushed in any order, any number of times and        *)
(* overlapping at will, while the reader takes bytes out.                  *)
(***************************************************************************)
EXTENDS StreamReassembler

CONSTANTS StreamLen, Capacity

ASSUME ConstantsAssumption == StreamLen \in Nat /\ Capacity \in Nat

VARIABLE ra

Init == ra = NewReassembler(Capacity)

\* eof says that the last byte of the excerpt is the last byte of the stream;
\* the excerpt that reaches the end may come without it (the FIN may follow).
Push ==
  \E a \in 0 .. StreamLen : \E b \in a .. StreamLen : \E eof \in BOOLEAN :
    /\ eof => b = StreamLen
    /\ ra' = push_substring(ra, Slice(a, b), a, eof)

Read ==
  \E n \in 1 .. buffer_size(ra.output) :
    ra' = [ra EXCEPT !.output = read(@, n)]

Next == Push \/ Read

Spec == Init /\ [][Next]_ra
-------------------------------------------------------------------------------
\* The positions of the bytes waiting in the stored segments.
Pending == UNION {p.start .. (end(p) - 1) : p \in ra.segs}

Segment == [start : Nat, data : Seq(Nat)]

Stream == [buf : Seq(Nat), cap : {Capacity}, eof : BOOLEAN, error : BOOLEAN,
           written : Nat, read : Nat]

TypeOK ==
  ra \in [segs : SUBSET Segment, bytes : Int, eof : BOOLEAN, pos_eof : Nat,
         output : Stream, cap : {Capacity}]

\* What the reader finds in the output is the stream itself, each byte once
\* and in order, whatever the order and the overlaps of the excerpts
\* (push_substring's substr offsets and the merging in insert).
OutputInOrder ==
  ra.output.buf = Slice(ra.output.read, ra.output.written)

\* The stored segments hold the right bytes, lie beyond the assembled part
\* and within the capacity, and neither overlap nor touch one another: the
\* loops of insert and push_substring stop at the first segment that does
\* not touch, and write one stored segment at most.
PendingWellFormed ==
  \A p \in ra.segs :
    /\ p.data = Slice(p.start, end(p))
    /\ ra.output.written < p.start
    /\ end(p) <= ra.output.read + Capacity
    /\ end(p) <= StreamLen
    /\ \A q \in ra.segs : p # q => end(p) < q.start \/ end(q) < p.start

\* The capacity bounds what is stored, assembled and unassembled together.
WithinCapacity == buffer_size(ra.output) + ra.bytes <= Capacity

\* unassembled_bytes() counts every waiting byte once, however often it was
\* pushed (stream_reassembler.hh, note on unassembled_bytes), and with the bytes
\* not read yet stays within the capacity.
CountsOnce == ra.bytes = Cardinality(Pending) /\ WithinCapacity

\* The output ends only when it holds the whole stream, and never before its
\* last byte is assembled (JUDGE_EOF).
EndsWithTheStream ==
  /\ ra.eof => ra.pos_eof = StreamLen
  /\ ra.output.eof <=> (ra.eof /\ ra.output.written = StreamLen)

\* The reassembler does what Reassembly promises.
Abstract == INSTANCE Reassembly WITH
       held  <- (0 .. (ra.output.written - 1)) \union Pending,
       taken <- ra.output.read,
       last  <- ra.eof

RefinesReassembly == Abstract!Spec
===============================================================================
