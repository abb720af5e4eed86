---------------------------- MODULE ReceiverProofs ----------------------------
(***************************************************************************)
(* Proofs about TCPReceiverSpec, for every inbound stream, capacity, first *)
(* sequence number and modulus: the receiver hands its reassembler only    *)
(* excerpts at their places, so that all that ReassemblerProofs shows of a *)
(* reassembler holds of the one inside; its left edge is what it           *)
(* acknowledges, and its window never takes back what it offered.          *)
(***************************************************************************)
EXTENDS TCPReceiverSpec, WrappingProofs

\* A leaf that names no prover is tried with these.
USE SMTT(60), ZenonT(60)

R == INSTANCE ReassemblerProofs WITH StreamLen <- InboundLen, ra <- rc.reassembler
-------------------------------------------------------------------------------
\* The operators of R, those of Inner and those that the receiver calls have
\* the same definitions, one by one.

\* Excerpts.
LEMMA SameSlice == \A a, b : R!Slice(a, b) = Slice(a, b) /\ Inner!Slice(a, b) = Slice(a, b)
BY DEF Slice, R!Slice, Inner!Slice

\* The end of a segment.
LEMMA SameEnd == \A s : R!end(s) = end(s) /\ Inner!end(s) = end(s)
BY DEF end, R!end, Inner!end

\* What a segment holds beyond a position.
LEMMA SameBeyond ==
  \A s, k : R!Beyond(s, k) = Beyond(s, k) /\ Inner!Beyond(s, k) = Beyond(s, k)
BY DEF Beyond, R!Beyond, Inner!Beyond, Substr, R!Substr, Inner!Substr

\* The sizes of segments.
LEMMA SameTotal ==
  \A s : R!TotalSize(s) = TotalSize(s) /\ Inner!TotalSize(s) = TotalSize(s)
<1>1. \A S : R!Cardinality(S) = Cardinality(S) /\ Inner!Cardinality(S) = Cardinality(S)
  BY DEF Cardinality, R!Cardinality, Inner!Cardinality
<1> QED BY <1>1 DEF TotalSize, R!TotalSize, Inner!TotalSize

\* The left neighbour.
LEMMA SameLast ==
  \A s, k : /\ R!LastBefore(s, k) = LastBefore(s, k)
            /\ Inner!LastBefore(s, k) = LastBefore(s, k)
BY DEF LastBefore, R!LastBefore, Inner!LastBefore

\* ByteStream::write.
LEMMA SameWrite == \A b, d : R!write(b, d) = write(b, d) /\ Inner!write(b, d) = write(b, d)
<1>1. \A b, d : R!write(b, d) = write(b, d)
  BY DEF write, R!write, Least, R!Least, remaining_capacity, R!remaining_capacity,
         buffer_size, R!buffer_size
<1>2. \A b, d : Inner!write(b, d) = write(b, d)
  BY DEF write, Inner!write, Least, Inner!Least, remaining_capacity,
         Inner!remaining_capacity, buffer_size, Inner!buffer_size
<1> QED BY <1>1, <1>2, SMTT(60)

\* ByteStream::read.
LEMMA SameRead ==
  \A b, n : /\ R!read(b, n) = read(b, n) /\ Inner!read(b, n) = read(b, n)
            /\ R!buffer_size(b) = buffer_size(b) /\ Inner!buffer_size(b) = buffer_size(b)
<1>1. \A b, n : R!read(b, n) = read(b, n) /\ R!buffer_size(b) = buffer_size(b)
  BY DEF read, R!read, pop_output, R!pop_output, Substr, R!Substr, Least, R!Least,
         buffer_size, R!buffer_size
<1>2. \A b, n : Inner!read(b, n) = read(b, n) /\ Inner!buffer_size(b) = buffer_size(b)
  BY SMTT(60) DEF read, Inner!read, pop_output, Inner!pop_output, Substr, Inner!Substr,
         Least, Inner!Least, buffer_size, Inner!buffer_size
<1> QED BY <1>1, <1>2, SMTT(60)

\* Extending a segment.
LEMMA SameExtend ==
  \A b, d : R!Extend(b, d) = Extend(b, d) /\ Inner!Extend(b, d) = Extend(b, d)
<1>1. \A b, d : R!Extend(b, d) = Extend(b, d)
  BY DEF Extend, R!Extend, end, R!end, Beyond, R!Beyond, Substr, R!Substr
<1>2. \A b, d : Inner!Extend(b, d) = Extend(b, d)
  BY DEF Extend, Inner!Extend, end, Inner!end, Beyond, Inner!Beyond, Substr, Inner!Substr
<1> QED BY <1>1, <1>2

\* Writing a segment to the output.
LEMMA SameAssemble ==
  \A r, seg : /\ R!assemble(r, seg) = assemble(r, seg)
              /\ Inner!assemble(r, seg) = assemble(r, seg)
<1>1. \A r, seg : R!assemble(r, seg) = assemble(r, seg)
  BY SameBeyond, SameTotal, SameWrite, SameExtend, ZenonT(60) DEF assemble, R!assemble, end, R!end
<1>2. \A r, seg : Inner!assemble(r, seg) = assemble(r, seg)
  BY SameBeyond, SameTotal, SameWrite, SameExtend, ZenonT(60)
     DEF assemble, Inner!assemble, end, Inner!end
<1> QED BY <1>1, <1>2, SMTT(60)

\* Storing a segment: the two definitions agree part by part.
LEMMA SameInsert == \A r, seg : R!insert(r, seg) = insert(r, seg)
<1> TAKE r, s
<1> DEFINE left   == {p \in r.segs : p.start < s.start}
           l      == LastBefore(r.segs, s.start)
           joins  == left # {} /\ s.start <= end(l)
           merged == IF joins THEN [start |-> l.start,
                                    data  |-> l.data \o Beyond(s, end(l))]
                              ELSE s
           right  == {p \in r.segs \ left : p.start <= end(merged)}
           covered == \E p \in right : merged.start >= p.start /\ end(merged) <= end(p)
           gone   == right \union (IF joins THEN {l} ELSE {})
           x      == Extend(merged, right)
           new    == [r EXCEPT !.segs  = (@ \ gone) \union {x},
                               !.bytes = @ - TotalSize(gone) + Len(x.data)]
<1>1. insert(r, s) = IF (joins /\ end(s) <= end(l)) \/ covered THEN r ELSE new
  BY SMTT(60) DEF insert
<1> DEFINE R_l      == R!LastBefore(r.segs, s.start)
           R_joins  == left # {} /\ s.start <= R!end(R_l)
           R_merged == IF R_joins THEN [start |-> R_l.start,
                                    data  |-> R_l.data \o R!Beyond(s, R!end(R_l))]
                              ELSE s
           R_right  == {p \in r.segs \ left : p.start <= R!end(R_merged)}
           R_covered == \E p \in R_right : R_merged.start >= p.start /\ R!end(R_merged) <= R!end(p)
           R_gone   == R_right \union (IF R_joins THEN {R_l} ELSE {})
           R_x      == R!Extend(R_merged, R_right)
           R_new    == [r EXCEPT !.segs  = (@ \ R_gone) \union {R_x},
                               !.bytes = @ - R!TotalSize(R_gone) + Len(R_x.data)]
<1>2. R!insert(r, s) = IF (R_joins /\ R!end(s) <= R!end(R_l)) \/ R_covered THEN r ELSE R_new
  BY SMTT(60) DEF R!insert
<1> HIDE DEF left
<1>3. R_l = l
  BY SameLast, SMTT(60)
<1> HIDE DEF l, R_l
<1>4. R_joins = joins
  BY <1>3, SameEnd, SMTT(60)
<1> HIDE DEF joins, R_joins
<1>5. R_merged = merged
  BY <1>3, <1>4, SameEnd, SameBeyond, ZenonT(60)
<1> HIDE DEF merged, R_merged
<1>6. R_right = right
  BY <1>5, SameEnd
<1> HIDE DEF right, R_right
<1>7. R_covered = covered /\ R_gone = gone /\ R_x = x
  BY <1>3, <1>4, <1>5, <1>6, SameEnd, SameExtend
<1> HIDE DEF covered, gone, x, R_covered, R_gone, R_x
<1>8. R_new = new
  BY <1>7, SameTotal, ZenonT(60)
<1> HIDE DEF new, R_new
<1> QED BY <1>1, <1>2, <1>3, <1>4, <1>7, <1>8, SameEnd, SMTT(60)

\* The same for Inner.
LEMMA SameInsertInner == \A r, seg : Inner!insert(r, seg) = insert(r, seg)
<1> TAKE r, s
<1> DEFINE left   == {p \in r.segs : p.start < s.start}
           l      == LastBefore(r.segs, s.start)
           joins  == left # {} /\ s.start <= end(l)
           merged == IF joins THEN [start |-> l.start,
                                    data  |-> l.data \o Beyond(s, end(l))]
                              ELSE s
           right  == {p \in r.segs \ left : p.start <= end(merged)}
           covered == \E p \in right : merged.start >= p.start /\ end(merged) <= end(p)
           gone   == right \union (IF joins THEN {l} ELSE {})
           x      == Extend(merged, right)
           new    == [r EXCEPT !.segs  = (@ \ gone) \union {x},
                               !.bytes = @ - TotalSize(gone) + Len(x.data)]
<1>1. insert(r, s) = IF (joins /\ end(s) <= end(l)) \/ covered THEN r ELSE new
  BY DEF insert
<1> DEFINE I_l      == Inner!LastBefore(r.segs, s.start)
           I_joins  == left # {} /\ s.start <= Inner!end(I_l)
           I_merged == IF I_joins THEN [start |-> I_l.start,
                                    data  |-> I_l.data \o Inner!Beyond(s, Inner!end(I_l))]
                              ELSE s
           I_right  == {p \in r.segs \ left : p.start <= Inner!end(I_merged)}
           I_covered == \E p \in I_right : I_merged.start >= p.start /\ Inner!end(I_merged) <= Inner!end(p)
           I_gone   == I_right \union (IF I_joins THEN {I_l} ELSE {})
           I_x      == Inner!Extend(I_merged, I_right)
           I_new    == [r EXCEPT !.segs  = (@ \ I_gone) \union {I_x},
                               !.bytes = @ - Inner!TotalSize(I_gone) + Len(I_x.data)]
<1>2. Inner!insert(r, s) = IF (I_joins /\ Inner!end(s) <= Inner!end(I_l)) \/ I_covered THEN r ELSE I_new
  BY DEF Inner!insert
<1> HIDE DEF left
<1>3. I_l = l
  BY SameLast, SMTT(60)
<1> HIDE DEF l, I_l
<1>4. I_joins = joins
  BY <1>3, SameEnd, SMTT(60)
<1> HIDE DEF joins, I_joins
<1>5. I_merged = merged
  BY <1>3, <1>4, SameEnd, SameBeyond, ZenonT(60)
<1> HIDE DEF merged, I_merged
<1>6. I_right = right
  BY <1>5, SameEnd
<1> HIDE DEF right, I_right
<1>7. I_covered = covered /\ I_gone = gone /\ I_x = x
  BY <1>3, <1>4, <1>5, <1>6, SameEnd, SameExtend
<1> HIDE DEF covered, gone, x, I_covered, I_gone, I_x
<1>8. I_new = new
  BY <1>7, SameTotal, ZenonT(60)
<1> HIDE DEF new, I_new
<1> QED BY <1>1, <1>2, <1>3, <1>4, <1>7, <1>8, SameEnd

\* JUDGE_EOF.
LEMMA SameJudge ==
  \A r, s, e : /\ R!judge_eof(r, s, e) = judge_eof(r, s, e)
               /\ Inner!judge_eof(r, s, e) = judge_eof(r, s, e)
<1>1. \A r, s, e : R!judge_eof(r, s, e) = judge_eof(r, s, e)
  BY DEF judge_eof, R!judge_eof, end_input, R!end_input
<1>2. \A r, s, e : Inner!judge_eof(r, s, e) = judge_eof(r, s, e)
  BY SMTT(60) DEF judge_eof, Inner!judge_eof, end_input, Inner!end_input
<1> QED BY <1>1, <1>2

\* push_substring.
LEMMA SamePush ==
  \A r, d, i, e : /\ R!push_substring(r, d, i, e) = push_substring(r, d, i, e)
                  /\ Inner!push_substring(r, d, i, e) = push_substring(r, d, i, e)
<1>1. \A r, d, i, e : R!push_substring(r, d, i, e) = push_substring(r, d, i, e)
  BY SameAssemble, SameInsert, SameJudge, SMTT(60) DEF push_substring, R!push_substring
<1>2. \A r, d, i, e : Inner!push_substring(r, d, i, e) = push_substring(r, d, i, e)
  BY SameAssemble, SameInsertInner, SameJudge, SMTT(60) DEF push_substring, Inner!push_substring
<1> QED BY <1>1, <1>2, SMTT(60)

\* A new reassembler.
LEMMA SameNew ==
  \A cap : /\ R!NewReassembler(cap) = NewReassembler(cap)
           /\ Inner!NewReassembler(cap) = NewReassembler(cap)
BY DEF NewReassembler, R!NewReassembler, Inner!NewReassembler,
       NewStream, R!NewStream, Inner!NewStream
-------------------------------------------------------------------------------
\* What is assumed of the constants gives the reassembler's assumption.
LEMMA InnerConstants == R!ConstantsAssumption
BY ReceiverAssumption, SMTT(60) DEF R!ConstantsAssumption

\* The length of an excerpt.
LEMMA SliceLength ==
  ASSUME NEW a \in Nat, NEW b \in Nat, a <= b
  PROVE  Len(Slice(a, b)) = b - a
<1>1. Len(R!Slice(a, b)) = b - a
  BY InnerConstants, R!SliceSeq, SMTT(60)
<1> QED BY <1>1, SameSlice, SMTT(60)

\* The positions of the streams of a good reassembler.
LEMMA Positions ==
  ASSUME NEW r, R!Good(r)
  PROVE  /\ r.output.written \in Nat /\ r.output.read \in Nat /\ InboundLen \in Nat
         /\ Capacity \in Nat
         /\ r.output.read <= r.output.written /\ r.output.written <= InboundLen
         /\ r.output.written <= r.output.read + Capacity
         /\ buffer_size(r.output) = r.output.written - r.output.read
         /\ r.output.eof \in BOOLEAN /\ r.eof \in BOOLEAN
         /\ r.output.eof <=> r.eof /\ r.output.written = InboundLen
<1>1. R!Core(r)
  BY SMTT(60) DEF R!Good
<1>2. /\ r.output.written \in Nat /\ r.output.read \in Nat /\ InboundLen \in Nat
      /\ Capacity \in Nat
      /\ r.output.read <= r.output.written /\ r.output.written <= InboundLen
      /\ r.output.written <= r.output.read + Capacity
  BY <1>1, InnerConstants, R!CoreFacts, SMTT(60)
<1>3. /\ r.output.eof \in BOOLEAN /\ r.eof \in BOOLEAN
      /\ r.output.buf = R!Slice(r.output.read, r.output.written)
  BY <1>1, SMTT(60) DEF R!Core, R!Reassemblers, R!Stream, R!GoodStream
<1>4. Len(R!Slice(r.output.read, r.output.written)) = r.output.written - r.output.read
  BY <1>2, R!SliceSeq, ZenonT(60)
<1>5. r.output.eof <=> r.eof /\ r.output.written = InboundLen
  BY <1>1 DEF R!Good, R!Core
<1> QED BY <1>2, <1>3, <1>4, <1>5, SMTT(60) DEF buffer_size

\* Pushing an excerpt at its place keeps the reassembler good, takes nothing
\* back, and assembles the byte that is waited for when it is in the excerpt
\* and below the capacity.
LEMMA Pushed ==
  ASSUME NEW r, R!Good(r), NEW a \in Nat, NEW b \in Nat, a <= b, b <= InboundLen,
         NEW eof \in BOOLEAN, eof => b = InboundLen
  PROVE  LET new == push_substring(r, Slice(a, b), a, eof)
             w   == r.output.written
         IN  /\ R!Good(new) /\ new.output.read = r.output.read /\ (new.eof <=> r.eof \/ eof)
             /\ w <= new.output.written /\ (r.output.eof => new.output.eof)
             /\ a <= w /\ w < b /\ w < r.output.read + Capacity => w < new.output.written
<1> DEFINE new == push_substring(r, Slice(a, b), a, eof)
           w   == r.output.written
           v   == new.output.written
<1>1. R!Core(r)
  BY DEF R!Good
<1>2. new = R!push_substring(r, R!Slice(a, b), a, eof)
  BY SamePush, SameSlice, SMTT(60)
<1>3. /\ R!Good(new) /\ new.output.read = r.output.read /\ (new.eof <=> r.eof \/ eof)
      /\ \A i \in Nat : R!Has(new, i) <=>
           R!Has(r, i) \/ (a <= i /\ i < b /\ i < r.output.read + Capacity)
  BY <1>1, <1>2, InnerConstants, R!PushGood, SMTT(60)
<1> HIDE DEF new
<1>4. \A p \in new.segs : p.start \in Nat /\ v < p.start
  BY <1>3, SMTT(60) DEF R!Good, R!Core, R!GoodSegs, R!Segment
<1>5. v \in Nat /\ ~ R!Has(new, v)
  BY <1>3, <1>4, Positions, SMTT(60) DEF R!Has
<1>6. w \in Nat /\ \A i \in Nat : i < w => R!Has(r, i)
  BY Positions, SMTT(60) DEF R!Has
<1>7. w <= v
  BY <1>3, <1>5, <1>6, SMTT(60)
<1>8. r.output.eof => new.output.eof
  BY <1>3, <1>7, Positions, SMTT(60)
<1>9. a <= w /\ w < b /\ w < r.output.read + Capacity => w # v
  BY <1>3, <1>5, <1>6, SMTT(60)
<1> QED BY <1>3, <1>5, <1>6, <1>7, <1>8, <1>9 DEF new

\* The number after the SYN.
LEMMA AfterSyn == wrap(0, PeerIsn) = PeerIsn /\ Plus(wrap(0, PeerIsn), 1) = wrap(1, PeerIsn)
<1> DEFINE S == SeqModulus
           A == AbsModulus
<1>1. /\ S \in Nat /\ S > 0 /\ S <= A /\ A \in Nat /\ A > 0
      /\ PeerIsn \in 0 .. (S - 1) /\ PeerIsn \in Nat
  BY ModuliAssumption, OnePeriod, ReceiverAssumption, SMTT(60) DEF MaxAbsolute
<1>2. PeerIsn % S = PeerIsn /\ (0 + PeerIsn) % A = PeerIsn
  BY <1>1, SMTT(60)
<1>3. wrap(0, PeerIsn) = PeerIsn
  BY <1>2, SMTT(60) DEF wrap
<1>4. CASE 1 + PeerIsn < S
  BY <1>1, <1>3, <1>4, SMTT(60) DEF wrap, Plus
<1>5. CASE 1 + PeerIsn = S
  <2>1. (PeerIsn + 1) % S = 0 /\ (1 + PeerIsn) % S = 0 /\ 0 % S = 0
    BY <1>1, <1>5, SMTT(60)
  <2>2. (1 + PeerIsn) % A = 0 \/ (1 + PeerIsn) % A = 1 + PeerIsn
    BY <1>1, <1>5, SMTT(60)
  <2> QED BY <2>1, <2>2, <1>3, SMTT(60) DEF wrap, Plus
<1> QED BY <1>1, <1>3, <1>4, <1>5, SMTT(60)

\* The members of a segment cut out of the stream.
LEMMA PartFacts ==
  ASSUME NEW c \in Cuts
  PROVE  /\ c.a \in Nat /\ c.b \in Nat /\ c.a <= c.b /\ c.b <= InboundLen
         /\ c.syn \in BOOLEAN /\ c.fin \in BOOLEAN /\ (c.fin => c.b = InboundLen)
         /\ c.syn => c.a = 0
         /\ Part(c).syn = c.syn /\ Part(c).fin = c.fin /\ Part(c).payload = Slice(c.a, c.b)
         /\ Part(c).seqno = wrap(IF c.syn THEN 0 ELSE c.a + 1, PeerIsn)
         /\ length_in_sequence_space(Part(c)) =
              (c.b - c.a) + (IF c.syn THEN 1 ELSE 0) + (IF c.fin THEN 1 ELSE 0)
<1>1. /\ c.a \in Nat /\ c.b \in Nat /\ c.a <= c.b /\ c.b <= InboundLen
      /\ c.syn \in BOOLEAN /\ c.fin \in BOOLEAN /\ (c.fin => c.b = InboundLen)
      /\ c.syn => c.a = 0
  BY ReceiverAssumption, SMTT(60) DEF Cuts
<1>2. /\ Part(c).syn = c.syn /\ Part(c).fin = c.fin /\ Part(c).payload = Slice(c.a, c.b)
      /\ Part(c).seqno = wrap(IF c.syn THEN 0 ELSE c.a + 1, PeerIsn)
  BY SMTT(60) DEF Part, NewSegment
<1>4. Len(Slice(c.a, c.b)) = c.b - c.a
  BY <1>1, SliceLength, ZenonT(60)
<1> QED BY <1>1, <1>2, <1>4, SMTT(60) DEF length_in_sequence_space

\* The members of a receiver.
Receivers ==
  [reassembler : R!Reassemblers, cap : {Capacity}, isn : Int,
   syn : BOOLEAN, fin : BOOLEAN, recv_base : Int]

\* The inductive invariant: the reassembler inside is good, knows of the FIN
\* when the receiver does, and the left edge is what ackno() would compute.
Placed(r) ==
  /\ r \in Receivers /\ R!Good(r.reassembler)
  /\ r.fin <=> r.reassembler.eof
  /\ r.syn => r.isn = PeerIsn /\ r.recv_base = Acked(r)
  /\ ~ r.syn => r = NewReceiver(Capacity)

\* The members of what Open makes of a receiver that has not seen the SYN.
LEMMA OpenIs ==
  ASSUME NEW r, r \in Receivers, ~ r.syn, NEW seg, seg.syn, seg.seqno \in Int
  PROVE  LET o == Open(r, seg)
         IN  /\ o \in Receivers /\ o.syn = TRUE /\ o.isn = seg.seqno /\ o.recv_base = 1
             /\ o.reassembler = r.reassembler /\ o.fin = r.fin
<1> DEFINE p == seg.seqno
           q == 1
           o == [r EXCEPT !.syn = TRUE, !.isn = p, !.recv_base = q]
<1>1. Open(r, seg) = o
  BY DEF Open
<1>2. p \in Int /\ q \in Int
  BY SMTT(60)
<1> HIDE DEF p, q
<1>3. /\ o \in Receivers /\ o.syn = TRUE /\ o.isn = p /\ o.recv_base = q
      /\ o.reassembler = r.reassembler /\ o.fin = r.fin
  BY <1>2, ZenonT(60) DEF Receivers
<1> QED BY <1>1, <1>3 DEF p, q

\* The SYN opens a new receiver at byte 1.
LEMMA OpenPlaced ==
  ASSUME NEW r, Placed(r), NEW c \in Cuts
  PROVE  LET o == Open(r, Part(c))
         IN  /\ Placed(o) /\ o.reassembler = r.reassembler /\ o.fin = r.fin
             /\ (r.syn => o = r) /\ (~ c.syn => o = r) /\ (c.syn => o.syn)
<1> DEFINE o == Open(r, Part(c))
<1>1. CASE c.syn /\ ~ r.syn
  <2>0. r \in Receivers
    BY DEF Placed
  <2>1. r = NewReceiver(Capacity)
    BY <1>1, SMTT(60) DEF Placed
  <2>3. PeerIsn \in Int
    BY ReceiverAssumption, SMTT(60)
  <2>4. /\ o \in Receivers /\ o.syn = TRUE /\ o.isn = PeerIsn /\ o.recv_base = 1
        /\ o.reassembler = r.reassembler /\ o.fin = r.fin
    <3>1. Part(c).syn /\ Part(c).seqno = PeerIsn
      BY <1>1, PartFacts, AfterSyn
    <3> QED BY <1>1, <2>0, <2>3, <3>1, OpenIs, ZenonT(60)
  <2>5. o.reassembler.output.written = 0 /\ ~ o.reassembler.output.eof
    BY <2>1, <2>4, SMTT(60) DEF NewReceiver, NewReassembler, NewStream
  <2>6. Acked(o) = 1
    BY <2>5, SMTT(60) DEF Acked, stream_out
  <2> QED BY <1>1, <2>4, <2>6 DEF Placed, o
<1>2. CASE ~ (c.syn /\ ~ r.syn)
  <2>1. o = r
    BY <1>2, PartFacts, SMTT(60) DEF Open
  <2> QED BY <1>2, <2>1, PartFacts, SMTT(60)
<1> QED BY <1>1, <1>2

\* What Accept does to an open receiver.
LEMMA AcceptPlaced ==
  ASSUME NEW r, Placed(r), r.syn, NEW c \in Cuts
  PROVE  LET n == Accept(r, Part(c), c.a + 1)
         IN  /\ Placed(n) /\ n.syn
             /\ n.reassembler = push_substring(r.reassembler, Slice(c.a, c.b), c.a, c.fin)
<1> DEFINE x == push_substring(r.reassembler, Slice(c.a, c.b), c.a, c.fin)
           n == Accept(r, Part(c), c.a + 1)
<1>1. ((c.a + 1) - 1) % AbsModulus = c.a
  <2>1. /\ SeqModulus \in Nat /\ SeqModulus <= AbsModulus /\ AbsModulus \in Nat
        /\ AbsModulus > 0 /\ c.a \in Nat /\ c.a <= InboundLen /\ InboundLen \in Nat
        /\ InboundLen + 1 < SeqModulus \div 2
    BY ModuliAssumption, OnePeriod, ReceiverAssumption, PartFacts, SMTT(60) DEF MaxAbsolute
  <2>2. c.a < AbsModulus /\ (c.a + 1) - 1 = c.a
    BY <2>1, SMTT(60)
  <2> QED BY <2>1, <2>2, SMTT(60)
<1>2. /\ R!Good(x) /\ (x.eof <=> r.reassembler.eof \/ c.fin)
      /\ x \in R!Reassemblers
  <2>1. /\ c.a \in Nat /\ c.b \in Nat /\ c.a <= c.b /\ c.b <= InboundLen
        /\ c.fin \in BOOLEAN /\ (c.fin => c.b = InboundLen)
    BY PartFacts, ZenonT(60)
  <2>2. R!Good(r.reassembler)
    BY ZenonT(60) DEF Placed
  <2>3. R!Good(x) /\ (x.eof <=> r.reassembler.eof \/ c.fin)
    BY <2>1, <2>2, Pushed, SMTT(60)
  <2> HIDE DEF x
  <2>4. x \in R!Reassemblers
    BY <2>3, ZenonT(60) DEF R!Good, R!Core
  <2> QED BY <2>3, <2>4, ZenonT(60)
<1>3. x = push_substring(r.reassembler, Part(c).payload, ((c.a + 1) - 1) % AbsModulus, Part(c).fin)
  BY <1>1, PartFacts
<1> HIDE DEF x
<1>4. x.output.written \in Int /\ Part(c).fin \in BOOLEAN /\ Part(c).fin = c.fin
      /\ r \in Receivers
  BY <1>2, Positions, PartFacts DEF Placed
<1> DEFINE seg    == Part(c)
           k      == c.a + 1
           fin    == [r EXCEPT !.fin = @ \/ seg.fin]
           pushed == [fin EXCEPT !.reassembler =
                        push_substring(@, seg.payload, (k - 1) % AbsModulus, seg.fin)]
           m      == [pushed EXCEPT !.recv_base = Acked(pushed)]
<1>5. /\ x = push_substring(r.reassembler, seg.payload, (k - 1) % AbsModulus, seg.fin)
      /\ n = Accept(r, seg, k)
  BY Zenon, <1>3
<1>6. seg.fin \in BOOLEAN /\ (seg.fin <=> c.fin)
  BY <1>4, SMTT(60)
<1> HIDE DEF seg, k, n
<1>7. Accept(r, seg, k) = m
  BY Zenon DEF Accept
<1>8. /\ fin \in Receivers /\ fin.reassembler = r.reassembler /\ fin.syn = r.syn
      /\ fin.isn = r.isn /\ (fin.fin <=> r.fin \/ seg.fin)
  BY <1>4, <1>6, ZenonT(60) DEF Receivers
<1> HIDE DEF fin
<1>9. pushed = [fin EXCEPT !.reassembler = x]
  BY <1>5, <1>8
<1>10. [fin EXCEPT !.reassembler = x] \in Receivers
  BY <1>2, <1>8 DEF Receivers
<1>11. /\ pushed \in Receivers /\ pushed.reassembler = x /\ pushed.syn = r.syn
       /\ pushed.isn = r.isn /\ (pushed.fin <=> r.fin \/ seg.fin)
  BY <1>8, <1>9, <1>10, ZenonT(60) DEF Receivers
<1> HIDE DEF pushed
<1>12. /\ Acked(pushed) = x.output.written + (IF x.output.eof THEN 2 ELSE 1)
       /\ Acked(pushed) \in Int
  BY <1>4, <1>11 DEF Acked, stream_out
<1>13. /\ m \in Receivers /\ m.recv_base = Acked(pushed) /\ m.reassembler = x
       /\ m.syn = r.syn /\ m.isn = r.isn /\ (m.fin <=> r.fin \/ seg.fin)
  BY <1>11, <1>12, ZenonT(60) DEF Receivers
<1> HIDE DEF m
<1>14. m.recv_base = Acked(m)
  BY <1>12, <1>13 DEF Acked, stream_out
<1>15. Placed(m) /\ m.syn
  BY <1>2, <1>6, <1>13, <1>14, SMTT(60) DEF Placed
<1>16. n = m
  BY <1>5, <1>7, SMTT(60)
<1> QED BY <1>13, <1>15, <1>16, SMTT(60) DEF x, n

\* segment_received unwraps the sequence number of a segment to the place
\* that the segment was cut from.
LEMMA PlaceFound ==
  ASSUME NEW r, Placed(r), r.syn, NEW c \in Cuts, NEW n \in Nat, n <= InboundLen
  PROVE  unwrap(IF c.syn THEN Plus(Part(c).seqno, 1) ELSE Part(c).seqno, r.isn, n) = c.a + 1
<1>1. r.isn = PeerIsn
  BY DEF Placed
<1>2. (IF c.syn THEN Plus(Part(c).seqno, 1) ELSE Part(c).seqno) = wrap(c.a + 1, PeerIsn)
  <2>1. CASE c.syn
    <3>1. c.a = 0 /\ Part(c).seqno = wrap(0, PeerIsn) /\ c.a + 1 = 1
      BY <2>1, PartFacts, SMTT(60)
    <3> QED BY <2>1, <3>1, AfterSyn, SMTT(60)
  <2>2. CASE ~ c.syn
    BY <2>2, PartFacts, SMTT(60)
  <2> QED BY <2>1, <2>2, SMTT(60)
<1> DEFINE p == c.a + 1
           half == SeqModulus \div 2
<1>3. /\ c.a \in Nat /\ c.a <= InboundLen /\ InboundLen \in Nat /\ InboundLen + 1 < half
      /\ SeqModulus \in Nat /\ SeqModulus > 0 /\ PeerIsn \in 0 .. (SeqModulus - 1)
  BY PartFacts, ReceiverAssumption, ModuliAssumption, SMTT(60)
<1>4. half \in Nat /\ half < SeqModulus
  BY <1>3, SMTT(60)
<1> HIDE DEF half
<1>5. p \in Nat /\ p < half + 1 /\ p < SeqModulus /\ n < half
  BY <1>3, <1>4, SMTT(60)
<1> HIDE DEF p
<1>6. unwrap(wrap(p, PeerIsn), PeerIsn, n) = p
  BY <1>3, <1>5, FoundNearby, SMTT(60) DEF half
<1> QED BY <1>1, <1>2, <1>6, SMTT(60) DEF p

\* A segment is dropped, opens the connection, or is handed to the
\* reassembler at its place; it is handed over when it carries no flags, ends
\* behind the left edge and starts before the right one.
LEMMA ReceivePlaced ==
  ASSUME NEW r, Placed(r), NEW c \in Cuts
  PROVE  LET n == receiver_segment_received(r, Part(c))
             x == push_substring(r.reassembler, Slice(c.a, c.b), c.a, c.fin)
         IN  /\ Placed(n) /\ (r.syn => n.syn)
             /\ n.reassembler = r.reassembler \/ n.reassembler = x
             /\ r.syn /\ ~ c.syn /\ ~ c.fin /\ c.a < c.b
                  /\ c.a + 1 < r.recv_base + window_size(r) /\ r.recv_base < c.b + 1
                => n.reassembler = x
<1> DEFINE seg      == Part(c)
           n        == receiver_segment_received(r, seg)
           x        == push_substring(r.reassembler, Slice(c.a, c.b), c.a, c.fin)
           length   == length_in_sequence_space(seg)
           seqno    == IF seg.syn THEN Plus(seg.seqno, 1) ELSE seg.seqno
           o        == Open(r, seg)
           absolute == unwrap(seqno, o.isn, stream_out(r).written)
           inWindow == /\ absolute < o.recv_base + window_size(r)
                       /\ o.recv_base < absolute + length
           wanted   == IF seg.fin THEN ~ r.fin ELSE length > 0 /\ inWindow
           a        == Accept(o, seg, absolute)
<1>1. n = IF (seg.syn /\ r.syn) \/ ~ o.syn THEN r
          ELSE IF (seg.syn /\ length = 1) \/ ~ wanted THEN o ELSE a
  BY DEF receiver_segment_received
<1>2. /\ Placed(o) /\ o.reassembler = r.reassembler
      /\ (r.syn => o = r) /\ (~ c.syn => o = r) /\ (c.syn => o.syn)
  BY OpenPlaced, SMTT(60)
<1>3. seg.syn = c.syn /\ seg.fin = c.fin
  BY PartFacts, SMTT(60)
<1>4. stream_out(r).written \in Nat /\ stream_out(r).written <= InboundLen
  BY Positions, SMTT(60) DEF Placed, stream_out
<1>5. seqno = IF c.syn THEN Plus(seg.seqno, 1) ELSE seg.seqno
  BY <1>3, SMTT(60)
<1>6. o.syn => absolute = c.a + 1
  BY <1>2, <1>4, <1>5, PlaceFound, SMTT(60)
<1>7. o.syn => /\ Placed(a) /\ a.syn
               /\ a.reassembler = x
  <2> HAVE o.syn
  <2>1. a = Accept(o, seg, c.a + 1)
    BY <1>6, SMTT(60)
  <2> HIDE DEF o, a, absolute
  <2> QED BY <1>2, <2>1, AcceptPlaced, SMTT(60) DEF a
<1>8. ~ c.syn /\ ~ c.fin => length = c.b - c.a
  BY PartFacts, SMTT(60)
<1> HIDE DEF a, o, length, x, seqno
<1>9. Placed(n) /\ (r.syn => n.syn) /\ (n.reassembler = r.reassembler \/ n.reassembler = x)
  BY <1>1, <1>2, <1>3, <1>7, SMTT(60)
<1>10. ASSUME r.syn, ~ c.syn, ~ c.fin, c.a < c.b,
              c.a + 1 < r.recv_base + window_size(r), r.recv_base < c.b + 1
       PROVE  n.reassembler = x
  <2>1. o = r /\ o.syn /\ ~ seg.syn /\ ~ seg.fin
    BY <1>2, <1>3, <1>10, SMTT(60)
  <2>2. c.a \in Nat /\ c.b \in Nat
    BY PartFacts, SMTT(60)
  <2>3. length > 0 /\ absolute + length = c.b + 1
    BY <1>6, <1>8, <1>10, <2>1, <2>2, SMTT(60)
  <2>4. absolute = c.a + 1
    BY <1>6, <2>1, SMTT(60)
  <2> HIDE DEF absolute
  <2>5. inWindow
    BY <1>10, <2>1, <2>3, <2>4, SMTT(60)
  <2>6. n = a
    BY <1>1, <2>1, <2>3, <2>5, SMTT(60)
  <2> QED BY <1>7, <2>1, <2>6, SMTT(60)
<1> QED BY <1>9, <1>10, SMTT(60) DEF x

\* The owner's read moves the reading end of the output and nothing else.
LEMMA ReadPlaced ==
  ASSUME NEW r, Placed(r), NEW n \in 1 .. buffer_size(stream_out(r))
  PROVE  LET new == [r EXCEPT !.reassembler.output = read(@, n)]
             x   == [r.reassembler EXCEPT !.output = read(@, n)]
         IN  /\ Placed(new) /\ new.reassembler = x /\ new.syn = r.syn
             /\ x.output.written = r.reassembler.output.written
             /\ x.output.eof = r.reassembler.output.eof
             /\ x.output.read = r.reassembler.output.read + n
<1> DEFINE y   == r.reassembler
           x   == [y EXCEPT !.output = read(@, n)]
           new == [r EXCEPT !.reassembler = x]
<1>1. [r EXCEPT !.reassembler.output = read(@, n)] = new
  BY DEF Placed, Receivers
<1>2. /\ R!Good(y) /\ r \in Receivers /\ (r.fin <=> y.eof)
      /\ (r.syn => r.isn = PeerIsn /\ r.recv_base = Acked(r))
  BY DEF Placed
<1>3. n \in 1 .. R!buffer_size(y.output) /\ x = [y EXCEPT !.output = R!read(@, n)]
  BY SameRead, SMTT(60) DEF stream_out
<1>4. r.syn
  <2> SUFFICES ASSUME ~ r.syn PROVE FALSE
    OBVIOUS
  <2>1. r = NewReceiver(Capacity)
    BY SMTT(60) DEF Placed
  <2>2. buffer_size(stream_out(r)) = 0
    BY <2>1, SMTT(60) DEF buffer_size, stream_out, NewReceiver, NewReassembler, NewStream
  <2> QED BY <2>2, SMTT(60)
<1> HIDE DEF y
<1>5. LET z == [y EXCEPT !.output = R!read(@, n)]
      IN  /\ R!Good(z) /\ z.output.read = y.output.read + n /\ z.eof = y.eof
          /\ z.output.eof = y.output.eof /\ z.output.written = y.output.written
  BY <1>2, <1>3, InnerConstants, R!ReadGood, SMTT(60)
<1>6. /\ R!Good(x) /\ x.output.read = y.output.read + n /\ x.eof = y.eof
      /\ x.output.eof = y.output.eof /\ x.output.written = y.output.written
  BY <1>3, <1>5, ZenonT(60)
<1>7. x \in R!Reassemblers
  BY <1>6 DEF R!Good, R!Core
<1> HIDE DEF x
<1>8. /\ new \in Receivers /\ new.reassembler = x /\ new.syn = r.syn /\ new.fin = r.fin
      /\ new.isn = r.isn /\ new.recv_base = r.recv_base
  BY <1>2, <1>7 DEF Receivers
<1> HIDE DEF new
<1>9. Acked(new) = Acked(r)
  BY <1>6, <1>8 DEF Acked, stream_out, y
<1>10. Placed(new)
  BY <1>2, <1>4, <1>6, <1>8, <1>9, SMTT(60) DEF Placed
<1> QED BY <1>1, <1>6, <1>8, <1>10, SMTT(60) DEF x, y

\* Placed is an inductive invariant of the receiver.
LEMMA PlacedInvariant == ReceiverSpec => []Placed(rc)
<1>1. ReceiverInit => Placed(rc)
  <2> SUFFICES ASSUME rc = NewReceiver(Capacity) PROVE Placed(rc)
    BY DEF ReceiverInit
  <2>1. R!Good(NewReassembler(Capacity))
    BY SameNew, InnerConstants, R!InitGood, SMTT(60)
  <2>2. NewReassembler(Capacity) \in R!Reassemblers
    BY <2>1, SMTT(60) DEF R!Good, R!Core
  <2>3. NewReassembler(Capacity).eof = FALSE
    BY SMTT(60) DEF NewReassembler
  <2>4. rc.reassembler = NewReassembler(Capacity) /\ rc.syn = FALSE /\ rc.fin = FALSE
    BY SMTT(60) DEF NewReceiver
  <2>5. rc \in Receivers
    BY <2>2, SMTT(60) DEF Receivers, NewReceiver
  <2> QED BY <2>1, <2>3, <2>4, <2>5, SMTT(60) DEF Placed
<1>2. Placed(rc) /\ [ReceiverNext]_rc => Placed(rc)'
  <2> SUFFICES ASSUME Placed(rc), [ReceiverNext]_rc PROVE Placed(rc')
    BY SMTT(60)
  <2>1. CASE Receive
    BY <2>1, ReceivePlaced, SMTT(60) DEF Receive
  <2>2. CASE Read
    BY <2>2, ReadPlaced, SMTT(60) DEF Read
  <2>3. CASE UNCHANGED rc
    BY <2>3, SMTT(60)
  <2> QED BY <2>1, <2>2, <2>3, SMTT(60) DEF ReceiverNext
<1> QED BY <1>1, <1>2, PTL DEF ReceiverSpec
-------------------------------------------------------------------------------
\* What the receiver counts on holds for every stream, capacity and initial
\* sequence number: its members stay in their ranges (tcp_receiver.hh).
THEOREM ReceiverTypeCorrect == ReceiverSpec => []ReceiverTypeOK
<1>1. Placed(rc) => ReceiverTypeOK
  <2> SUFFICES ASSUME Placed(rc) PROVE ReceiverTypeOK
    BY SMTT(60)
  <2> DEFINE o == rc.reassembler.output
  <2>1. /\ o.written \in Nat /\ o.read \in Nat /\ InboundLen \in Nat /\ Capacity \in Nat
        /\ o.read <= o.written /\ o.written <= InboundLen /\ o.written <= o.read + Capacity
        /\ buffer_size(o) = o.written - o.read
    BY Positions, SMTT(60) DEF Placed
  <2>2. rc.syn \in BOOLEAN /\ rc.fin \in BOOLEAN /\ rc.cap = Capacity
    BY SMTT(60) DEF Placed, Receivers
  <2>3. window_size(rc) \in 0 .. Capacity
    BY <2>1, <2>2, SMTT(60) DEF window_size, stream_out
  <2>4. Acked(rc) \in 0 .. (InboundLen + 2)
    BY <2>1, SMTT(60) DEF Acked, stream_out
  <2>5. PeerIsn \in 0 .. (SeqModulus - 1) /\ 0 \in 0 .. (SeqModulus - 1)
    BY ReceiverAssumption, ModuliAssumption, SMTT(60)
  <2>6. rc.isn \in 0 .. (SeqModulus - 1) /\ rc.recv_base \in 0 .. (InboundLen + 2)
    <3>1. CASE rc.syn
      BY <3>1, <2>4, <2>5, SMTT(60) DEF Placed
    <3>2. CASE ~ rc.syn
      BY <3>2, <2>1, <2>5, SMTT(60) DEF Placed, NewReceiver
    <3> QED BY <3>1, <3>2, SMTT(60)
  <2> QED BY <2>2, <2>3, <2>6, SMTT(60) DEF ReceiverTypeOK
<1> QED BY <1>1, PlacedInvariant, PTL

\* The left edge that segment_received tests against is the one that ackno()
\* tells the peer.
THEOREM LeftEdgeAcknowledged == ReceiverSpec => []RecvBaseIsAckno
<1>1. Placed(rc) => RecvBaseIsAckno
  BY SMTT(60) DEF Placed, RecvBaseIsAckno, ackno
<1> QED BY <1>1, PlacedInvariant, PTL

\* The inbound stream ends when, and only when, the FIN was seen and every
\* byte before it is in (segment_received and JUDGE_EOF together).
THEOREM EndOfStreamHolds == ReceiverSpec => []EndOfStream
<1>1. Placed(rc) => EndOfStream
  BY Positions, SMTT(60) DEF Placed, EndOfStream, stream_out
<1> QED BY <1>1, PlacedInvariant, PTL

\* The owner reads the peer's bytes from position 0 on, in order: what
\* ReassemblerProofs shows of the output holds of the receiver's stream_out().
THEOREM InboundInOrder == ReceiverSpec => []R!OutputInOrder
<1>1. Placed(rc) => R!OutputInOrder
  BY InnerConstants, R!GoodSafe, SMTT(60) DEF Placed
<1> QED BY <1>1, PlacedInvariant, PTL

\* An in-window segment without flags that holds the byte waited for always
\* moves the left edge (the window test of segment_received and the
\* reassembler's bounds agree).
THEOREM NextByteTaken == ReceiverSpec => []NextByteAccepted
<1>1. Placed(rc) => NextByteAccepted
  <2> SUFFICES ASSUME Placed(rc), NEW c \in Cuts, ~ c.syn, ~ c.fin, rc.syn,
                      window_size(rc) > 0, c.a <= stream_out(rc).written,
                      stream_out(rc).written < c.b
               PROVE  Acked(rc) < Acked(receiver_segment_received(rc, Part(c)))
    BY SMTT(60) DEF NextByteAccepted, NextByteAdvances
  <2> DEFINE y == rc.reassembler
             w == y.output.written
             n == receiver_segment_received(rc, Part(c))
             x == push_substring(y, Slice(c.a, c.b), c.a, c.fin)
  <2>1. /\ c.a \in Nat /\ c.b \in Nat /\ c.a <= c.b /\ c.b <= InboundLen /\ c.fin \in BOOLEAN
        /\ (c.fin => c.b = InboundLen) /\ c.a <= w /\ w < c.b
    BY PartFacts, SMTT(60) DEF stream_out
  <2>2. R!Good(y) /\ rc.cap = Capacity
    BY SMTT(60) DEF Placed, Receivers
  <2>3. /\ w \in Nat /\ y.output.read \in Nat /\ Capacity \in Nat /\ InboundLen \in Nat
        /\ buffer_size(y.output) = w - y.output.read /\ ~ y.output.eof
    BY <2>1, <2>2, Positions, SMTT(60)
  <2>4. window_size(rc) = Capacity - (w - y.output.read) /\ Acked(rc) = w + 1
    BY <2>2, <2>3, SMTT(60) DEF window_size, stream_out, Acked
  <2>5. w < y.output.read + Capacity
    BY <2>3, <2>4, SMTT(60)
  <2>6. rc.recv_base = w + 1
    BY <2>4, SMTT(60) DEF Placed
  <2>7. R!Good(x) /\ w < x.output.written
    BY <2>1, <2>2, <2>5, Pushed, SMTT(60)
  <2>8. n.reassembler = x
    BY <2>1, <2>3, <2>4, <2>5, <2>6, ReceivePlaced, SMTT(60)
  <2> HIDE DEF x, n
  <2>9. x.output.written \in Nat
    BY <2>7, Positions, SMTT(60)
  <2>10. Acked(n) >= x.output.written + 1
    BY <2>8, <2>9, SMTT(60) DEF Acked, stream_out
  <2>11. Acked(n) \in Int
    BY <2>8, <2>9, SMTT(60) DEF Acked, stream_out
  <2> QED BY <2>3, <2>4, <2>7, <2>9, <2>10, <2>11, SMTT(60) DEF n
<1> QED BY <1>1, PlacedInvariant, PTL

\* The step of the reassembler inside that a step of the receiver is.
LEMMA InnerStep ==
  ASSUME Placed(rc), ReceiverNext
  PROVE  /\ Inner!Next \/ UNCHANGED rc.reassembler
         /\ rc.syn => rc'.syn
         /\ rc'.reassembler.output.written >= rc.reassembler.output.written
         /\ rc'.reassembler.output.read >= rc.reassembler.output.read
         /\ rc.reassembler.output.eof => rc'.reassembler.output.eof
<1> DEFINE y == rc.reassembler
<1>1. R!Good(y)
  BY SMTT(60) DEF Placed
<1>2. y.output.written \in Nat /\ y.output.read \in Nat
  BY <1>1, Positions, SMTT(60)
<1>3. CASE Receive
  <2>1. PICK c \in Cuts : rc' = receiver_segment_received(rc, Part(c))
    BY <1>3, SMTT(60) DEF Receive
  <2> DEFINE x == push_substring(y, Slice(c.a, c.b), c.a, c.fin)
  <2>2. (rc.syn => rc'.syn) /\ (rc'.reassembler = y \/ rc'.reassembler = x)
    BY <2>1, ReceivePlaced, SMTT(60)
  <2>3. /\ c.a \in Nat /\ c.b \in Nat /\ c.a <= c.b /\ c.b <= InboundLen /\ c.fin \in BOOLEAN
        /\ (c.fin => c.b = InboundLen) /\ InboundLen \in Nat
    BY PartFacts, ReceiverAssumption, SMTT(60)
  <2>4. /\ x.output.read = y.output.read /\ y.output.written <= x.output.written
        /\ (y.output.eof => x.output.eof)
    <3> DEFINE a == c.a
               b == c.b
               e == c.fin
    <3>1. /\ a \in Nat /\ b \in Nat /\ a <= b /\ b <= InboundLen /\ e \in BOOLEAN
          /\ (e => b = InboundLen) /\ R!Good(y)
      BY <1>1, <2>3, SMTT(60)
    <3> HIDE DEF y, a, b, e
    <3>2. LET z == push_substring(y, Slice(a, b), a, e)
          IN  /\ z.output.read = y.output.read /\ y.output.written <= z.output.written
              /\ (y.output.eof => z.output.eof)
      BY <3>1, Pushed, SMTT(60)
    <3> QED BY <3>2, SMTT(60) DEF a, b, e
  <2>5. x = Inner!push_substring(y, Inner!Slice(c.a, c.b), c.a, c.fin)
    BY SamePush, SameSlice, SMTT(60)
  <2> HIDE DEF x
  <2>6. ASSUME rc'.reassembler = x PROVE Inner!Next
    <3>1. c.a \in 0 .. InboundLen /\ c.b \in c.a .. InboundLen
      BY <2>3, SMTT(60)
    <3>2. Inner!Push
      BY <2>3, <2>5, <2>6, <3>1, SMTT(60) DEF Inner!Push
    <3> QED BY <3>2, SMTT(60) DEF Inner!Next
  <2>7. CASE rc'.reassembler = x
    BY <1>2, <2>2, <2>4, <2>6, <2>7, SMTT(60)
  <2>8. CASE rc'.reassembler = y
    BY <1>2, <2>2, <2>8, SMTT(60)
  <2> QED BY <2>2, <2>7, <2>8, SMTT(60)
<1>4. CASE Read
  <2>1. PICK n \in 1 .. buffer_size(stream_out(rc)) :
          rc' = [rc EXCEPT !.reassembler.output = read(@, n)]
    BY <1>4, SMTT(60) DEF Read
  <2> DEFINE x == [y EXCEPT !.output = read(@, n)]
  <2>2. /\ rc'.reassembler = x /\ rc'.syn = rc.syn
        /\ x.output.written = y.output.written /\ x.output.eof = y.output.eof
        /\ x.output.read = y.output.read + n
    BY <2>1, ReadPlaced, SMTT(60)
  <2>3. n \in Nat /\ n \in 1 .. Inner!buffer_size(y.output)
    <3>1. buffer_size(y.output) \in Int
      BY <1>1, Positions, SMTT(60)
    <3> QED BY <3>1, SameRead, SMTT(60) DEF stream_out
  <2>4. x = [y EXCEPT !.output = Inner!read(@, n)]
    BY SameRead, SMTT(60)
  <2>5. Inner!Read
    BY <2>2, <2>3, <2>4, SMTT(60) DEF Inner!Read
  <2> QED BY <1>2, <2>2, <2>3, <2>5, SMTT(60) DEF Inner!Next
<1> QED BY <1>3, <1>4, SMTT(60) DEF ReceiverNext

\* The reassembler inside sees what ReassemblerSpec lets it see: the receiver
\* implements it, one push or read for a step that reaches it.
THEOREM ImplementsReassembler == ReceiverSpec => RefinesReassembler
<1>1. ReceiverInit => Inner!Init
  BY SameNew, SMTT(60) DEF ReceiverInit, NewReceiver, Inner!Init
<1>2. Placed(rc) /\ [ReceiverNext]_rc => [Inner!Next]_(rc.reassembler)
  BY InnerStep, SMTT(60)
<1> QED BY <1>1, <1>2, PlacedInvariant, PTL
        DEF ReceiverSpec, RefinesReassembler, Inner!Spec

\* Neither edge of the window that ackno() and window_size() advertise moves
\* back, over any step: what the peer was allowed to send stays allowed.
THEOREM WindowKept == ReceiverSpec => WindowNeverShrinks
<1>1. Placed(rc) /\ Placed(rc)' /\ [ReceiverNext]_rc =>
        [rc.syn => /\ Acked(rc) <= Acked(rc')
                   /\ Acked(rc) + window_size(rc) <= Acked(rc') + window_size(rc')]_rc
  <2> SUFFICES ASSUME Placed(rc), Placed(rc'), ReceiverNext
               PROVE  /\ Acked(rc) <= Acked(rc')
                      /\ Acked(rc) + window_size(rc) <= Acked(rc') + window_size(rc')
    BY SMTT(60)
  <2> DEFINE o  == rc.reassembler.output
             o2 == rc'.reassembler.output
  <2>1. /\ o2.written >= o.written /\ o2.read >= o.read /\ (o.eof => o2.eof)
    BY InnerStep, SMTT(60)
  <2>2. /\ o.written \in Nat /\ o.read \in Nat /\ Capacity \in Nat
        /\ buffer_size(o) = o.written - o.read
    BY Positions, SMTT(60) DEF Placed
  <2>3. /\ o2.written \in Nat /\ o2.read \in Nat /\ buffer_size(o2) = o2.written - o2.read
    BY Positions, SMTT(60) DEF Placed
  <2>4. rc.cap = Capacity /\ rc'.cap = Capacity
    BY SMTT(60) DEF Placed, Receivers
  <2> HIDE DEF o, o2
  <2>5. /\ Acked(rc) = o.written + (IF o.eof THEN 2 ELSE 1)
        /\ Acked(rc') = o2.written + (IF o2.eof THEN 2 ELSE 1)
        /\ window_size(rc) = Capacity - (o.written - o.read)
        /\ window_size(rc') = Capacity - (o2.written - o2.read)
    BY <2>2, <2>3, <2>4, SMTT(60) DEF Acked, window_size, stream_out, o, o2
  <2> QED BY <2>1, <2>2, <2>3, <2>5, SMTT(60)
<1> QED BY <1>1, PlacedInvariant, PTL DEF ReceiverSpec, WindowNeverShrinks
===============================================================================
