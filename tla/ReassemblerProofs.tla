--------------------------- MODULE ReassemblerProofs ---------------------------
(***************************************************************************)
(* Proofs about ReassemblerSpec for every capacity and stream length.      *)
(***************************************************************************)
EXTENDS ReassemblerSpec, FiniteSetTheorems, WellFoundedInduction, TLAPS

\* A leaf that names no prover is tried with these.
USE SMTT(60), ZenonT(60)

\* A slice is a sequence of as many bytes as there are positions in it.
LEMMA SliceSeq ==
  ASSUME NEW a \in Nat, NEW b \in Nat, a <= b
  PROVE  Slice(a, b) \in Seq(Nat) /\ Len(Slice(a, b)) = b - a
BY DEF Slice

\* Two adjacent slices make one.
LEMMA SliceConcat ==
  ASSUME NEW a \in Nat, NEW b \in Nat, NEW c \in Nat, a <= b, b <= c
  PROVE  Slice(a, b) \o Slice(b, c) = Slice(a, c)
BY DEF Slice

\* substr of a slice is the slice from a later position on.
LEMMA SliceSubstr ==
  ASSUME NEW a \in Nat, NEW b \in Nat, NEW k \in Nat, k <= b - a
  PROVE  Substr(Slice(a, b), k) = Slice(a + k, b)
BY DEF Slice, Substr

\* A prefix of a slice is the slice up to an earlier position.
LEMMA SlicePrefix ==
  ASSUME NEW a \in Nat, NEW b \in Nat, NEW k \in Nat, k <= b - a
  PROVE  SubSeq(Slice(a, b), 1, k) = Slice(a, a + k)
BY DEF Slice

\* A bounded set of numbers has a largest element.
LEMMA MaxExists ==
  ASSUME NEW T, T \subseteq Nat, T # {}, NEW b \in Nat, \A t \in T : t <= b
  PROVE  \E x \in T : \A y \in T : y <= x
<1> DEFINE D == {b - t : t \in T}
           R == OpToRel(<, Nat)
<1>1. IsWellFoundedOn(R, Nat)
  BY NatLessThanWellFounded, ZenonT(60)
<1>2. \A m, n \in Nat : m < n => <<m, n>> \in R
  BY DEF OpToRel
<1> HIDE DEF R
<1>3. D \subseteq Nat /\ D # {}
  <2>1. \A t \in T : t \in Nat
    OBVIOUS
  <2>2. \A t \in T : b - t \in Nat
    BY <2>1
  <2> QED BY <2>2, ZenonT(60)
<1>4. \E x \in D : \A y \in D : ~ (<<y, x>> \in R)
  <2> HIDE DEF D
  <2> QED BY <1>1, <1>3, WFMin, ZenonT(60)
<1>5. PICK x \in D : \A y \in D : ~ (y < x)
  BY <1>3, <1>2, <1>4, ZenonT(60)
<1>6. PICK t \in T : x = b - t
  OBVIOUS
<1>7. ASSUME NEW y \in T PROVE y <= t
  <2>1. ~ (b - y < b - t) BY <1>5, <1>6
  <2>2. y \in Nat /\ t \in Nat
    BY ZenonT(60)
  <2> QED BY <2>1, <2>2
<1> QED
  BY <1>7
-------------------------------------------------------------------------------
\* An output stream in a good state.
GoodStream(b) ==
  /\ b \in Stream
  /\ b.read <= b.written /\ b.written <= b.read + Capacity
  /\ b.written <= StreamLen
  /\ b.buf = Slice(b.read, b.written)

\* Segments that hold the right bytes, between positions lo and hi, and that
\* neither overlap nor touch.
GoodSegs(segs, lo, hi) ==
  /\ \A p \in segs : /\ p \in Segment
                     /\ p.data = Slice(p.start, end(p))
                     /\ lo < p.start /\ end(p) <= hi
  /\ \A p, q \in segs : p # q => end(p) < q.start \/ end(q) < p.start

\* The first position beyond the capacity or the stream.
Limit(b) == Least(b.read + Capacity, StreamLen)

\* ByteStream::write of the bytes that come next: the output stays a slice of
\* the stream and within its capacity, and nothing that fits is dropped.
LEMMA WriteSlice ==
  ASSUME NEW b, GoodStream(b), NEW e \in Nat, b.written <= e, e <= Limit(b)
  PROVE  /\ GoodStream(write(b, Slice(b.written, e)))
         /\ write(b, Slice(b.written, e)).written = e
         /\ write(b, Slice(b.written, e)).read = b.read
         /\ write(b, Slice(b.written, e)).eof = b.eof
<1> DEFINE d == Slice(b.written, e)
<1>1. /\ b.written \in Nat /\ b.read \in Nat /\ Capacity \in Nat /\ b.cap = Capacity
      /\ StreamLen \in Nat /\ b.buf \in Seq(Nat) /\ b.written <= StreamLen
      /\ b.read <= b.written /\ b.written <= b.read + Capacity
      /\ e <= b.read + Capacity /\ e <= StreamLen /\ b.read <= e
  BY ConstantsAssumption DEF GoodStream, Stream, Limit, Least
<1>2. d \in Seq(Nat) /\ Len(d) = e - b.written
  BY <1>1, SliceSeq, ZenonT(60)
<1>3. Len(b.buf) = b.written - b.read
  BY <1>1, SliceSeq, ZenonT(60) DEF GoodStream
<1>4. Least(Len(d), remaining_capacity(b)) = Len(d)
  <2> HIDE DEF d
  <2>1. remaining_capacity(b) = Capacity - (b.written - b.read)
    BY <1>1, <1>3 DEF remaining_capacity, buffer_size
  <2> QED BY SMTT(60), Zenon, <1>1, <1>2, <2>1 DEF Least
<1>5. SubSeq(d, 1, Len(d)) = d
  BY <1>2
<1>6. write(b, d) = [b EXCEPT !.buf = @ \o d, !.written = @ + Len(d)]
  BY <1>4, <1>5, ZenonT(60) DEF write
<1>7. b.buf \o d = Slice(b.read, e)
  <2>1. b.buf = Slice(b.read, b.written)
    BY DEF GoodStream
  <2>2. Slice(b.read, b.written) \o Slice(b.written, e) = Slice(b.read, e)
    BY <1>1, SliceConcat, ZenonT(60)
  <2> QED BY <2>1, <2>2
<1>8. Slice(b.read, e) \in Seq(Nat)
  BY <1>1, SliceSeq, ZenonT(60)
<1> HIDE DEF d
<1>9. write(b, d) = [b EXCEPT !.buf = Slice(b.read, e), !.written = e]
  <2>1. b \in Stream /\ b.written + Len(d) = e
    BY <1>1, <1>2 DEF GoodStream
  <2> QED BY <1>6, <1>7, <2>1, ZenonT(60) DEF Stream
<1>10. GoodStream(write(b, d)) /\ write(b, d).written = e
       /\ write(b, d).read = b.read /\ write(b, d).eof = b.eof
  BY ZenonT(60), <1>1, <1>8, <1>9 DEF GoodStream, Stream
<1> QED BY <1>10 DEF d

\* Extend makes one run of seg and the segments that start inside it or
\* right behind it.
LEMMA ExtendSlice ==
  ASSUME NEW seg \in Segment, seg.data = Slice(seg.start, end(seg)),
         NEW lo \in Nat, NEW hi \in Nat, end(seg) <= hi,
         NEW segs, GoodSegs(segs, lo, hi),
         \A p \in segs : p.start <= end(seg)
  PROVE  LET x == Extend(seg, segs)
         IN  /\ x \in Segment /\ x.start = seg.start
             /\ x.data = Slice(x.start, end(x))
             /\ end(seg) <= end(x) /\ end(x) <= hi
             /\ \A p \in segs : end(p) <= end(x)
             /\ end(x) = end(seg) \/ \E p \in segs : end(x) = end(p)
<1> DEFINE longer == {p \in segs : end(seg) < end(p)}
           x == Extend(seg, segs)
<1>1. seg.start \in Nat /\ end(seg) \in Nat /\ seg.start <= end(seg)
  BY DEF Segment, end
<1>2. \A p \in segs : p.start \in Nat /\ end(p) \in Nat /\ p.start <= end(p)
  BY SMTT(60) DEF GoodSegs, Segment, end
<1>3. CASE longer = {}
  <2>1. x = seg
    BY <1>3 DEF Extend
  <2> QED BY <2>1, <1>1, <1>2, <1>3
<1>4. CASE longer # {}
  <2> DEFINE p == CHOOSE q \in longer : TRUE
  <2>1. p \in segs /\ end(seg) < end(p)
    BY <1>4
  <2>2. x = [seg EXCEPT !.data = @ \o Beyond(p, end(seg))]
    BY <1>4 DEF Extend
  <2> HIDE DEF p
  <2>a. p.start \in Nat /\ end(p) \in Nat /\ seg.start <= end(p) /\ end(seg) <= end(p)
    BY <1>1, <1>2, <2>1
  <2>3. p \in Segment /\ p.data = Slice(p.start, end(p)) /\ p.start <= end(seg) /\ end(p) <= hi
    BY <2>1 DEF GoodSegs
  <2>4. end(seg) - p.start \in Nat /\ end(seg) - p.start <= end(p) - p.start
        /\ p.start + (end(seg) - p.start) = end(seg)
    BY <1>1, <1>2, <2>1, <2>3
  <2>5. Beyond(p, end(seg)) = Slice(end(seg), end(p))
    BY <1>2, <2>1, <2>3, <2>4, SliceSubstr DEF Beyond
  <2>6. seg.data \o Beyond(p, end(seg)) = Slice(seg.start, end(p))
    <3>1. Slice(seg.start, end(seg)) \o Slice(end(seg), end(p)) = Slice(seg.start, end(p))
      BY ZenonT(60), <1>1, <2>a, SliceConcat
    <3> QED BY <2>5, <3>1
  <2>7. x = [seg EXCEPT !.data = Slice(seg.start, end(p))]
    BY <2>2, <2>6
  <2>8. Slice(seg.start, end(p)) \in Seq(Nat) /\ Len(Slice(seg.start, end(p))) = end(p) - seg.start
    BY <1>1, <2>a, SliceSeq, ZenonT(60)
  <2>9. x \in Segment /\ x.start = seg.start /\ x.data = Slice(seg.start, end(p))
    BY SMTT(60), Zenon, <2>7, <2>8 DEF Segment
  <2>10. end(x) = end(p)
    BY <1>1, <1>2, <2>1, <2>8, <2>9 DEF end
  <2>11. \A q \in segs : end(q) <= end(p)
    <3> TAKE q \in segs
    <3>1. CASE q = p
      BY <3>1, <1>2, <2>1
    <3>2. CASE q # p
      <4>1. end(p) < q.start \/ end(q) < p.start
        BY <3>2, <2>1 DEF GoodSegs
      <4> QED BY <4>1, <1>1, <1>2, <2>1, <2>3
    <3> QED BY <3>1, <3>2
  <2> QED BY <2>1, <2>a, <2>3, <2>9, <2>10, <2>11, SMTT(60)
<1> QED BY <1>3, <1>4
-------------------------------------------------------------------------------
\* The sizes of stored segments are counted by the pairs of a segment and an
\* offset in it.
Cells(segs) == UNION {{p} \X (1 .. Len(p.data)) : p \in segs}

\* One segment has as many cells as bytes.
LEMMA BlockSize ==
  ASSUME NEW s \in Segment
  PROVE  /\ IsFiniteSet({s} \X (1 .. Len(s.data)))
         /\ Cardinality({s} \X (1 .. Len(s.data))) = Len(s.data)
<1> DEFINE n == Len(s.data)
           I == 1 .. n
<1>1. n \in Nat /\ 1 \in Int /\ n \in Int
  BY DEF Segment
<1>2. IsFiniteSet(I) /\ Cardinality(I) = n
  <2> HIDE DEF n
  <2>1. IsFiniteSet(1 .. n) /\ Cardinality(1 .. n) = IF 1 > n THEN 0 ELSE n - 1 + 1
    BY <1>1, FS_Interval
  <2> QED BY <1>1, <2>1
<1>3. IsFiniteSet({s}) /\ Cardinality({s}) = 1
  BY FS_Singleton
<1> HIDE DEF n, I
<1>4. IsFiniteSet({s} \X I) /\ Cardinality({s} \X I) = Cardinality({s}) * Cardinality(I)
  BY <1>2, <1>3, FS_Product
<1>5. Cardinality({s} \X I) = n
  BY <1>1, <1>2, <1>3, <1>4
<1> QED BY <1>4, <1>5 DEF n, I

\* Finitely many segments have finitely many cells.
LEMMA CellsFinite ==
  ASSUME NEW segs, IsFiniteSet(segs), \A p \in segs : p \in Segment
  PROVE  IsFiniteSet(Cells(segs))
<1> DEFINE F == {{p} \X (1 .. Len(p.data)) : p \in segs}
<1>1. IsFiniteSet(F)
  <2> DEFINE f == [p \in segs |-> {p} \X (1 .. Len(p.data))]
  <2>1. f \in Surjection(segs, F)
    BY ZenonT(60) DEF Surjection
  <2> QED BY <2>1, FS_Surjection
<1>2. \A T \in F : IsFiniteSet(T)
  <2> TAKE T \in F
  <2>1. PICK p \in segs : T = {p} \X (1 .. Len(p.data))
    OBVIOUS
  <2>2. IsFiniteSet({p} \X (1 .. Len(p.data)))
    BY BlockSize
  <2> QED BY <2>1, <2>2
<1> QED BY <1>1, <1>2, FS_UNION, ZenonT(60) DEF Cells

\* Taking segments away subtracts their sizes from the total: what the code
\* does to _unassembled_byte when it erases them.
LEMMA TotalSizeRemove ==
  ASSUME NEW segs, IsFiniteSet(segs), \A p \in segs : p \in Segment,
         NEW gone \in SUBSET segs
  PROVE  /\ TotalSize(gone) \in Nat
         /\ TotalSize(segs \ gone) = TotalSize(segs) - TotalSize(gone)
<1>1. IsFiniteSet(Cells(segs))
  BY CellsFinite
<1>2. Cells(gone) \subseteq Cells(segs) /\ Cells(segs \ gone) = Cells(segs) \ Cells(gone)
  BY DEF Cells
<1>3. Cells(segs) \intersect Cells(gone) = Cells(gone)
  BY <1>2
<1>4. IsFiniteSet(Cells(gone))
  BY <1>1, <1>2, FS_Subset
<1>5. Cardinality(Cells(gone)) \in Nat
  BY <1>4, FS_CardinalityType
<1>6. Cardinality(Cells(segs \ gone)) = Cardinality(Cells(segs)) - Cardinality(Cells(gone))
  <2> DEFINE S == Cells(segs)
             T == Cells(gone)
  <2> HIDE DEF S, T
  <2>1. IsFiniteSet(S) /\ IsFiniteSet(T) /\ S \intersect T = T
    BY <1>1, <1>3, <1>4 DEF S, T
  <2>2. Cardinality(S \ T) = Cardinality(S) - Cardinality(S \intersect T)
    BY <2>1, FS_Difference
  <2> QED BY SMTT(60), Zenon, <1>2, <2>1, <2>2 DEF S, T
<1> QED BY <1>5, <1>6 DEF Cells, TotalSize

\* Adding a segment that was not there adds its size to the total.
LEMMA TotalSizeAdd ==
  ASSUME NEW segs, IsFiniteSet(segs), \A p \in segs : p \in Segment,
         NEW s \in Segment, s \notin segs
  PROVE  TotalSize(segs \union {s}) = TotalSize(segs) + Len(s.data)
<1>1. IsFiniteSet(Cells(segs)) /\ Cardinality(Cells(segs)) \in Nat
  BY CellsFinite, FS_CardinalityType
<1>2. Len(s.data) \in Nat
  BY DEF Segment
<1> DEFINE S == Cells(segs)
           B == {s} \X (1 .. Len(s.data))
<1>3. IsFiniteSet(B) /\ Cardinality(B) = Len(s.data)
  BY BlockSize
<1>4. Cells(segs \union {s}) = S \union B /\ S \intersect B = {}
  BY DEF Cells
<1> HIDE DEF S, B
<1>5. Cardinality(S \union B) = Cardinality(S) + Cardinality(B) - Cardinality(S \intersect B)
  BY <1>1, <1>3, FS_Union DEF S
<1>6. Cardinality(S \intersect B) = 0
  BY <1>4, FS_EmptySet
<1>7. Cardinality(S \union B) = Cardinality(S) + Len(s.data)
  BY SMTT(60), Zenon, <1>1, <1>2, <1>3, <1>5, <1>6 DEF S
<1> QED BY <1>4, <1>7, ZenonT(60) DEF Cells, TotalSize, S
-------------------------------------------------------------------------------
Reassemblers ==
  [segs : SUBSET Segment, bytes : Int, eof : BOOLEAN, pos_eof : Nat,
   output : Stream, cap : {Capacity}]

\* A good reassembler, before and after JUDGE_EOF.
Core(r) ==
  /\ r \in Reassemblers
  /\ GoodStream(r.output)
  /\ GoodSegs(r.segs, r.output.written, Limit(r.output))
  /\ IsFiniteSet(r.segs)
  /\ r.bytes = TotalSize(r.segs)
  /\ r.eof => r.pos_eof = StreamLen
  /\ r.output.eof => r.eof /\ r.output.written = StreamLen

\* The members of a good reassembler, with their types, one by one.
LEMMA CoreFacts ==
  ASSUME NEW r, Core(r)
  PROVE  /\ r.output \in Stream /\ r.output.written \in Nat /\ r.output.read \in Nat
         /\ r.output.read <= r.output.written
         /\ r.output.written <= r.output.read + Capacity
         /\ r.output.written <= StreamLen
         /\ r.output.written <= Limit(r.output)
         /\ Limit(r.output) \in Nat
         /\ Limit(r.output) <= StreamLen /\ Limit(r.output) <= r.output.read + Capacity
         /\ r.cap = Capacity
         /\ Capacity \in Nat /\ StreamLen \in Nat
BY ConstantsAssumption DEF Core, Reassemblers, GoodStream, Stream, Limit, Least

\* Position i is assembled, or waits in a stored segment.
Has(r, i) ==
  i < r.output.written \/ \E p \in r.segs : p.start <= i /\ i < end(p)

\* Of the bytes and flags of r, new differs in the positions a .. e - 1, which
\* are added.
Adds(r, new, a, e) ==
  /\ new.output.read = r.output.read /\ new.eof = r.eof
  /\ \A i \in Nat : Has(new, i) <=> Has(r, i) \/ (a <= i /\ i < e)

\* A segment that starts at position a and holds the bytes up to e.
Seg(a, e) == [start |-> a, data |-> Slice(a, e)]

\* A segment made of a slice starts and ends where the slice does.
LEMMA SegFacts ==
  ASSUME NEW a \in Nat, NEW e \in Nat, a <= e
  PROVE  /\ Seg(a, e) \in Segment /\ Seg(a, e).start = a
         /\ Seg(a, e).data = Slice(a, e) /\ end(Seg(a, e)) = e
BY SliceSeq DEF Seg, Segment, end

\* What a segment holds beyond a position inside it is a slice again.
LEMMA BeyondSlice ==
  ASSUME NEW s \in Segment, s.data = Slice(s.start, end(s)),
         NEW k \in Nat, s.start <= k, k <= end(s)
  PROVE  Beyond(s, k) = Slice(k, end(s))
<1>1. s.start \in Nat /\ end(s) \in Nat
  BY DEF Segment, end
<1>2. k - s.start \in Nat /\ k - s.start <= end(s) - s.start /\ s.start + (k - s.start) = k
  BY <1>1
<1>3. Substr(Slice(s.start, end(s)), k - s.start) = Slice(s.start + (k - s.start), end(s))
  BY <1>1, <1>2, SliceSubstr
<1> QED BY <1>2, <1>3 DEF Beyond

\* Writing a segment that continues the output keeps the reassembler good and
\* adds the bytes of the segment.
LEMMA AssembleGood ==
  ASSUME NEW r, Core(r), NEW a \in Nat, NEW e \in Nat,
         a <= r.output.written, r.output.written <= e, e <= Limit(r.output)
  PROVE  /\ Core(assemble(r, Seg(a, e)))
         /\ Adds(r, assemble(r, Seg(a, e)), a, e)
<1> DEFINE s == Seg(a, e)
           b == r.output
           ready == {p \in r.segs : p.start <= end(s)}
           x == Extend(s, ready)
           b1 == write(b, Beyond(s, b.written))
           b2 == write(b1, Beyond(x, end(s)))
           new == assemble(r, s)
<1>1. a <= e /\ b.written \in Nat /\ b.read \in Nat /\ Limit(b) \in Nat
  BY CoreFacts
<1>2. s \in Segment /\ s.start = a /\ s.data = Slice(a, e) /\ end(s) = e
  BY <1>1, SegFacts
<1>3. GoodStream(b) /\ GoodSegs(r.segs, b.written, Limit(b)) /\ r \in Reassemblers
  BY DEF Core
<1> HIDE DEF s
<1>4. Beyond(s, b.written) = Slice(b.written, e)
  BY <1>1, <1>2, BeyondSlice
<1>5. GoodStream(b1) /\ b1.written = e /\ b1.read = b.read /\ b1.eof = b.eof
  BY SMTT(60), Zenon, <1>1, <1>3, <1>4, WriteSlice
<1>6. GoodSegs(ready, b.written, Limit(b))
  BY <1>3 DEF GoodSegs
<1>7. /\ x \in Segment /\ x.start = a /\ x.data = Slice(x.start, end(x))
      /\ e <= end(x) /\ end(x) <= Limit(b)
      /\ \A p \in ready : end(p) <= end(x)
      /\ end(x) = e \/ \E p \in ready : end(x) = end(p)
  <2>1. s.data = Slice(s.start, end(s)) /\ end(s) <= Limit(b)
    BY <1>2
  <2>2. \A p \in ready : p.start <= end(s)
    OBVIOUS
  <2> HIDE DEF ready
  <2>3. /\ x \in Segment /\ x.start = s.start
        /\ x.data = Slice(x.start, end(x))
        /\ end(s) <= end(x) /\ end(x) <= Limit(b)
        /\ \A p \in ready : end(p) <= end(x)
        /\ end(x) = end(s) \/ \E p \in ready : end(x) = end(p)
    BY <1>1, <1>2, <1>6, <2>1, <2>2, ExtendSlice, SMTT(60), Zenon
  <2> QED BY <1>2, <2>3
<1> HIDE DEF x, b1
<1>8. end(x) \in Nat
  BY <1>7 DEF Segment, end
<1>9. Beyond(x, end(s)) = Slice(e, end(x))
  BY <1>1, <1>2, <1>7, BeyondSlice
<1>10. Limit(b1) = Limit(b)
  BY SMTT(60), Zenon, <1>5 DEF Limit
<1>11. GoodStream(b2) /\ b2.written = end(x) /\ b2.read = b.read /\ b2.eof = b.eof
  BY SMTT(60), Zenon, <1>5, <1>7, <1>8, <1>9, <1>10, WriteSlice
<1> HIDE DEF b2
<1>12. GoodSegs(r.segs \ ready, end(x), Limit(b))
  <2>1. \A p \in r.segs : p.start \in Nat /\ end(p) \in Nat /\ p.start <= end(p)
    BY <1>3 DEF GoodSegs, Segment, end
  <2>2. ASSUME NEW p \in r.segs \ ready PROVE end(x) < p.start
    <3>1. p \in r.segs /\ e < p.start
      BY <1>1, <1>2, <2>1
    <3>2. CASE end(x) = e
      BY <3>1, <3>2
    <3>3. CASE \E q \in ready : end(x) = end(q)
      <4>1. PICK q \in ready : end(x) = end(q)
        BY <3>3
      <4>2. q \in r.segs /\ q.start <= e /\ p # q
        BY <1>2
      <4>3. end(p) < q.start \/ end(q) < p.start
        BY <3>1, <4>2, <1>3 DEF GoodSegs
      <4> QED BY SMTT(60), Zenon, <1>1, <2>1, <3>1, <4>1, <4>2, <4>3
    <3> QED BY <1>7, <3>2, <3>3
  <2> QED BY <1>3, <2>2 DEF GoodSegs
<1>13. TotalSize(ready) \in Nat /\ TotalSize(r.segs \ ready) = TotalSize(r.segs) - TotalSize(ready)
       /\ IsFiniteSet(r.segs \ ready)
  <2>1. IsFiniteSet(r.segs) /\ \A p \in r.segs : p \in Segment
    BY DEF Core, Reassemblers
  <2> QED BY <2>1, TotalSizeRemove, FS_Subset
<1>14. new = [r EXCEPT !.output = b2, !.segs = r.segs \ ready,
                       !.bytes = r.bytes - TotalSize(ready)]
  BY Zenon DEF assemble, b2, b1, x
<1>15. /\ new \in Reassemblers /\ new.output = b2 /\ new.segs = r.segs \ ready
       /\ new.eof = r.eof /\ new.bytes = r.bytes - TotalSize(ready)
       /\ new.pos_eof = r.pos_eof
  <2>1. b2 \in Stream /\ r.segs \ ready \in SUBSET Segment
        /\ r.bytes - TotalSize(ready) \in Int
    BY <1>3, <1>11, <1>13 DEF GoodStream, Reassemblers
  <2> HIDE DEF ready, new
  <2> DEFINE g == r.segs \ ready
             n == r.bytes - TotalSize(ready)
  <2>2. new = [r EXCEPT !.output = b2, !.segs = g, !.bytes = n]
    BY <1>14
  <2>3. r \in Reassemblers /\ g \in SUBSET Segment /\ n \in Int /\ b2 \in Stream
    BY <1>3, <2>1
  <2> HIDE DEF g, n
  <2>4. /\ new \in Reassemblers /\ new.output = b2 /\ new.segs = g
        /\ new.bytes = n /\ new.eof = r.eof /\ new.pos_eof = r.pos_eof
    BY <2>2, <2>3, ZenonT(60) DEF Reassemblers
  <2> QED BY <2>4 DEF g, n
<1>16. Limit(b2) = Limit(b)
  BY <1>11 DEF Limit
<1>17. new.output.eof => new.eof /\ new.output.written = StreamLen
  <2>1. new.output.eof = b.eof /\ new.eof = r.eof /\ new.output.written = end(x)
    BY <1>11, <1>15
  <2>2. b.eof => r.eof /\ b.written = StreamLen
    BY DEF Core
  <2>3. /\ b.written \in Nat /\ StreamLen \in Nat /\ Limit(b) \in Nat
        /\ b.written <= e /\ Limit(b) <= StreamLen
    BY <1>1, CoreFacts
  <2>4. b.written <= end(x) /\ end(x) <= StreamLen
    BY <1>7, <1>8, <2>3
  <2> HIDE DEF new, b
  <2> QED BY <1>8, <2>1, <2>2, <2>3, <2>4
<1>18. Core(new)
  BY SMTT(60), Zenon, <1>11, <1>12, <1>13, <1>14, <1>15, <1>16, <1>17 DEF Core
<1>19. Adds(r, new, a, e)
  <2>1. /\ new.output.read = b.read /\ new.eof = r.eof
        /\ new.output.written = end(x) /\ new.segs = r.segs \ ready
    BY <1>11, <1>15
  <2>2. \A p \in r.segs : p.start \in Nat /\ end(p) \in Nat
    BY <1>3 DEF GoodSegs, Segment, end
  <2>3. ASSUME NEW i \in Nat PROVE Has(new, i) => Has(r, i) \/ (a <= i /\ i < e)
    <3>1. CASE i < end(x) /\ e <= i
      <4>1. PICK p \in ready : end(x) = end(p)
        BY <1>7, <1>8, <3>1
      <4>2. p \in r.segs /\ p.start <= i /\ i < end(p)
        BY <1>2, <2>2, <3>1, <4>1
      <4> QED BY <4>2 DEF Has
    <3>2. CASE i < e
      BY <1>1, <3>2 DEF Has
    <3>3. CASE ~ (i < end(x)) /\ ~ (i < e)
      BY <2>1, <3>3 DEF Has
    <3> QED BY <1>8, <3>1, <3>2, <3>3
  <2>4. ASSUME NEW i \in Nat, Has(r, i) \/ (a <= i /\ i < e) PROVE Has(new, i)
    <3>1. CASE i < end(x)
      BY <2>1, <3>1 DEF Has
    <3>2. CASE ~ (i < end(x))
      <4>1. ~ (i < b.written) /\ ~ (i < e)
        BY <1>1, <1>7, <1>8, <3>2
      <4>2. PICK p \in r.segs : p.start <= i /\ i < end(p)
        BY <2>4, <4>1 DEF Has
      <4>3. p \notin ready
        BY <1>7, <1>8, <2>2, <3>2, <4>2
      <4> QED BY <2>1, <4>2, <4>3 DEF Has
    <3> QED BY <3>1, <3>2
  <2> QED BY <2>1, <2>3, <2>4 DEF Adds
<1> QED BY <1>18, <1>19 DEF s
-------------------------------------------------------------------------------
\* The left neighbour that insert looks at exists and is the closest one.
LEMMA LastBeforeFacts ==
  ASSUME NEW segs, NEW lo \in Nat, NEW hi \in Nat, GoodSegs(segs, lo, hi), NEW a \in Nat,
         \E p \in segs : p.start < a
  PROVE  /\ LastBefore(segs, a) \in segs /\ LastBefore(segs, a).start < a
         /\ \A p \in segs : p.start < a => p.start <= LastBefore(segs, a).start
<1> DEFINE T == {p.start : p \in {q \in segs : q.start < a}}
<1>1. \A p \in segs : p.start \in Nat
  BY DEF GoodSegs, Segment
<1>2. T \subseteq Nat /\ T # {} /\ \A t \in T : t <= a
  BY <1>1
<1>3. PICK x \in T : \A y \in T : y <= x
  <2> HIDE DEF T
  <2> QED BY <1>2, MaxExists, ZenonT(60)
<1>4. PICK l \in segs : l.start < a /\ l.start = x
  OBVIOUS
<1>5. \A p \in segs : p.start < a => p.start <= l.start
  BY <1>3, <1>4
<1> QED BY <1>4, <1>5 DEF LastBefore

\* The segments of gone replaced by x.
Store(r, gone, x) ==
  [r EXCEPT !.segs  = (@ \ gone) \union {x},
            !.bytes = @ - TotalSize(gone) + Len(x.data)]

\* Replacing the segments of gone by a segment that keeps clear of the others
\* keeps the reassembler good.
LEMMA StoreGood ==
  ASSUME NEW r, Core(r), NEW x \in Segment, x.data = Slice(x.start, end(x)),
         r.output.written < x.start, end(x) <= Limit(r.output),
         NEW gone \in SUBSET r.segs,
         \A q \in r.segs \ gone : end(q) < x.start \/ end(x) < q.start
  PROVE  LET new == Store(r, gone, x)
         IN  /\ Core(new) /\ new.output = r.output /\ new.eof = r.eof
             /\ new.segs = (r.segs \ gone) \union {x}
<1> DEFINE g == (r.segs \ gone) \union {x}
           n == r.bytes - TotalSize(gone) + Len(x.data)
           new == [r EXCEPT !.segs = g, !.bytes = n]
<1>1. r \in Reassemblers /\ IsFiniteSet(r.segs) /\ (\A p \in r.segs : p \in Segment)
      /\ r.bytes = TotalSize(r.segs) /\ r.bytes \in Int
      /\ GoodSegs(r.segs, r.output.written, Limit(r.output))
  BY DEF Core, Reassemblers
<1>2. x.start \in Nat /\ end(x) \in Nat /\ x.start <= end(x) /\ Len(x.data) \in Nat
  BY DEF Segment, end
<1>3. x \notin r.segs \ gone
  BY <1>2
<1>4. IsFiniteSet(r.segs \ gone) /\ IsFiniteSet(g)
  <2> DEFINE rest == r.segs \ gone
  <2>1. IsFiniteSet(rest)
    BY <1>1, FS_Subset
  <2> HIDE DEF rest
  <2>2. IsFiniteSet(rest \union {x})
    BY <2>1, FS_AddElement
  <2> QED BY <2>1, <2>2 DEF rest
<1>5. TotalSize(gone) \in Nat /\ TotalSize(r.segs \ gone) = TotalSize(r.segs) - TotalSize(gone)
  BY <1>1, TotalSizeRemove, ZenonT(60)
<1>6. TotalSize(g) = TotalSize(r.segs \ gone) + Len(x.data)
  <2> DEFINE rest == r.segs \ gone
  <2>1. IsFiniteSet(rest) /\ (\A p \in rest : p \in Segment) /\ x \notin rest
    BY <1>1, <1>3, <1>4
  <2> HIDE DEF rest
  <2>2. TotalSize(rest \union {x}) = TotalSize(rest) + Len(x.data)
    BY <2>1, TotalSizeAdd
  <2> QED BY <2>2 DEF rest
<1>7. n = TotalSize(g) /\ n \in Int
  BY <1>1, <1>2, <1>5, <1>6
<1>8. GoodSegs(g, r.output.written, Limit(r.output))
  BY <1>1, <1>2 DEF GoodSegs
<1>9. g \in SUBSET Segment
  BY <1>1
<1> HIDE DEF g, n
<1>10. /\ new \in Reassemblers /\ new.output = r.output /\ new.segs = g
       /\ new.bytes = n /\ new.eof = r.eof /\ new.pos_eof = r.pos_eof
  BY <1>1, <1>7, <1>9, ZenonT(60) DEF Reassemblers
<1> HIDE DEF new
<1>11. Core(new)
  BY <1>4, <1>7, <1>8, <1>10 DEF Core
<1> QED BY <1>10, <1>11 DEF new, g, n, Store

\* Storing a segment merges it with the ones it overlaps or touches, keeps the
\* reassembler good and adds the bytes of the segment.
LEMMA InsertGood ==
  ASSUME NEW r, Core(r), NEW a \in Nat, NEW e \in Nat,
         r.output.written < a, a <= e, e <= Limit(r.output)
  PROVE  Core(insert(r, Seg(a, e))) /\ Adds(r, insert(r, Seg(a, e)), a, e)
<1> DEFINE s      == Seg(a, e)
           w      == r.output.written
           hi     == Limit(r.output)
           left   == {p \in r.segs : p.start < s.start}
           l      == LastBefore(r.segs, s.start)
           joins  == left # {} /\ s.start <= end(l)
           merged == IF joins THEN [start |-> l.start,
                                    data  |-> l.data \o Beyond(s, end(l))]
                              ELSE s
           right  == {p \in r.segs \ left : p.start <= end(merged)}
           covered == \E p \in right : merged.start >= p.start /\ end(merged) <= end(p)
           gone   == right \union (IF joins THEN {l} ELSE {})
           x      == Extend(merged, right)
           new    == Store(r, gone, x)
<1>1. insert(r, s) = IF (joins /\ end(s) <= end(l)) \/ covered THEN r ELSE new
  BY DEF insert, Store
<1>2. s \in Segment /\ s.start = a /\ s.data = Slice(a, e) /\ end(s) = e
  BY SegFacts
<1>3. w \in Nat /\ hi \in Nat /\ GoodSegs(r.segs, w, hi) /\ r \in Reassemblers
  BY CoreFacts DEF Core
<1>4. \A p \in r.segs : p \in Segment /\ p.start \in Nat /\ end(p) \in Nat /\ p.start <= end(p)
  BY SMTT(60), Zenon, <1>3 DEF GoodSegs, Segment, end
<1>5. left # {} => /\ l \in r.segs /\ l.start < a
                   /\ \A p \in r.segs : p.start < a => p.start <= l.start
  BY SMTT(60), Zenon, <1>2, <1>3, LastBeforeFacts
<1> HIDE DEF s, w, hi, l
<1>6. CASE (joins /\ end(s) <= end(l)) \/ covered
  <2>1. \E p \in r.segs : p.start <= a /\ e <= end(p)
    <3>1. CASE joins /\ end(s) <= end(l)
      BY <1>2, <1>4, <1>5, <3>1
    <3>2. CASE ~ (joins /\ end(s) <= end(l))
      <4>1. PICK p \in right : merged.start >= p.start /\ end(merged) <= end(p)
        BY <1>6, <3>2, ZenonT(60)
      <4>2. p \in r.segs /\ p.start \in Nat /\ a <= p.start
        BY <1>2, <1>4
      <4>3. ~ joins
        <5> SUFFICES ASSUME joins PROVE FALSE
          OBVIOUS
        <5>1. merged.start = l.start /\ l.start < a /\ l.start \in Nat
          BY <1>4, <1>5
        <5> HIDE DEF merged, joins
        <5> QED BY <4>1, <4>2, <5>1
      <4>4. merged = s
        BY <4>3
      <4> HIDE DEF merged, joins
      <4> QED BY <1>2, <4>1, <4>2, <4>4, SMTT(60)
    <3> QED BY <3>1, <3>2
  <2>2. \A i \in Nat : a <= i /\ i < e => Has(r, i)
    BY <1>4, <2>1 DEF Has
  <2>3. Adds(r, r, a, e)
    BY <2>2 DEF Adds
  <2>4. insert(r, s) = r
    BY ZenonT(60), <1>1, <1>6
  <2> QED BY <2>3, <2>4 DEF s
<1>7. CASE ~ ((joins /\ end(s) <= end(l)) \/ covered)
  <2>1. joins => l \in r.segs /\ l.start < a /\ a <= end(l) /\ end(l) < e
    BY <1>2, <1>4, <1>5, <1>7, SMTT(60)
  <2>2. joins => merged = Seg(l.start, e)
    <3> HAVE joins
    <3>1. /\ l.start \in Nat /\ end(l) \in Nat /\ l.start <= end(l)
          /\ l.data = Slice(l.start, end(l))
      BY <1>3, <1>4, <2>1 DEF GoodSegs
    <3>2. Beyond(s, end(l)) = Slice(end(l), e)
      <4>1. s.data = Slice(s.start, end(s)) /\ s.start <= end(l) /\ end(l) <= end(s)
        BY <1>2, <2>1, <3>1
      <4> QED BY SMTT(60), Zenon, <1>2, <3>1, <4>1, BeyondSlice
    <3>3. Slice(l.start, end(l)) \o Slice(end(l), e) = Slice(l.start, e)
      <4>1. end(l) <= e
        BY <2>1, <3>1
      <4> QED BY ZenonT(60), <3>1, <4>1, SliceConcat
    <3>4. merged = [start |-> l.start, data |-> l.data \o Beyond(s, end(l))]
      OBVIOUS
    <3> QED BY <3>1, <3>2, <3>3, <3>4, SMTT(60) DEF Seg
  <2> DEFINE m == IF joins THEN l.start ELSE a
  <2>3. merged = Seg(m, e)
    BY <2>2, SMTT(60) DEF s
  <2>4. m \in Nat /\ m <= a /\ m <= e /\ w < m
    BY <1>3, <1>4, <2>1, SMTT(60) DEF GoodSegs, w
  <2>5. \A q \in left : q \in gone \/ end(q) < m
    <3> TAKE q \in left
    <3>1. q \in r.segs /\ q.start < a /\ left # {}
      BY <1>2
    <3>2. l \in r.segs /\ l.start < a /\ q.start <= l.start
      BY <1>5, <3>1
    <3>3. q # l => end(q) < l.start
      <4>1. q # l => end(q) < l.start \/ end(l) < q.start
        BY SMTT(60), Zenon, <1>3, <3>1, <3>2 DEF GoodSegs
      <4> QED BY SMTT(60), Zenon, <1>4, <3>1, <3>2, <4>1
    <3>4. CASE joins
      BY <3>3, <3>4, SMTT(60)
    <3>5. CASE ~ joins
      <4>1. end(l) < a
        BY SMTT(60), Zenon, <1>2, <1>4, <3>1, <3>2, <3>5
      <4>2. /\ end(q) \in Nat /\ end(l) \in Nat /\ l.start \in Nat /\ a \in Nat
            /\ l.start < a /\ m = a
        BY SMTT(60), Zenon, <1>4, <3>1, <3>2, <3>5
      <4>3. end(q) < a
        BY SMTT(60), Zenon, <3>3, <4>1, <4>2
      <4> QED BY <4>2, <4>3, SMTT(60)
    <3> QED BY <3>4, <3>5, SMTT(60)
  <2>6. joins => l \in gone /\ l \in left
    BY SMTT(60), Zenon, <1>2, <2>1
  <2>7. gone \in SUBSET r.segs
    BY <2>1
  <2> HIDE DEF m, merged, joins
  <2>8. merged \in Segment /\ merged.start = m /\ end(merged) = e
        /\ merged.data = Slice(merged.start, end(merged))
    BY SMTT(60), Zenon, <2>3, <2>4, SegFacts
  <2>9. GoodSegs(right, w, hi) /\ \A p \in right : p.start <= end(merged)
    BY <1>3, SMTT(60) DEF GoodSegs
  <2>10. /\ x \in Segment /\ x.start = m /\ x.data = Slice(x.start, end(x))
         /\ e <= end(x) /\ end(x) <= hi
         /\ \A p \in right : end(p) <= end(x)
         /\ end(x) = e \/ \E p \in right : end(x) = end(p)
    <3>1. end(merged) <= hi
      BY SMTT(60), Zenon, <2>8 DEF hi
    <3> HIDE DEF right
    <3>2. /\ x \in Segment /\ x.start = merged.start /\ x.data = Slice(x.start, end(x))
          /\ end(merged) <= end(x) /\ end(x) <= hi
          /\ \A p \in right : end(p) <= end(x)
          /\ end(x) = end(merged) \/ \E p \in right : end(x) = end(p)
      BY <1>3, <2>8, <2>9, <3>1, ExtendSlice, SMTT(60), Zenon
    <3> QED BY <2>8, <3>2
  <2>a. end(x) \in Nat
    <3>1. x \in Segment
      BY <2>10
    <3> HIDE DEF x
    <3> QED BY <3>1 DEF Segment, end
  <2>11. ASSUME NEW q \in r.segs \ gone PROVE end(q) < x.start \/ end(x) < q.start
    <3>1. CASE q \in left
      BY SMTT(60), Zenon, <2>5, <2>10, <3>1
    <3>2. CASE q \notin left
      <4>1. q \in r.segs /\ e < q.start
        <5>1. q \in r.segs /\ q \in r.segs \ left /\ q \notin right
          BY <3>2
        <5>2. ~ (q.start <= end(merged))
          BY <5>1
        <5>3. q.start \in Nat /\ e \in Nat /\ end(merged) = e
          BY SMTT(60), Zenon, <1>4, <2>8, <5>1
        <5> QED BY <5>1, <5>2, <5>3, SMTT(60)
      <4>2. CASE end(x) = e
        BY SMTT(60), Zenon, <4>1, <4>2
      <4>3. CASE \E p \in right : end(x) = end(p)
        <5>1. PICK p \in right : end(x) = end(p)
          BY ZenonT(60), <4>3
        <5>2. p \in r.segs /\ p.start <= e /\ p # q
          BY <2>8
        <5>3. end(p) < q.start \/ end(q) < p.start
          BY <1>3, <4>1, <5>2, SMTT(60) DEF GoodSegs
        <5>4. /\ end(p) \in Nat /\ end(q) \in Nat /\ p.start \in Nat /\ q.start \in Nat
              /\ q.start <= end(q)
          BY <1>4, <4>1, <5>2, SMTT(60)
        <5>5. e < q.start /\ p.start <= e /\ e \in Nat
          BY <4>1, <5>2, SMTT(60)
        <5> QED BY <5>1, <5>3, <5>4, <5>5, SMTT(60), Zenon
      <4> QED BY SMTT(60), Zenon, <2>10, <4>2, <4>3
    <3> QED BY SMTT(60), Zenon, <3>1, <3>2
  <2>12. \A p \in gone : m <= p.start /\ end(p) <= end(x)
    <3> TAKE p \in gone
    <3>1. CASE p \in right
      BY <1>2, <1>4, <2>4, <2>10, <3>1, SMTT(60)
    <3>2. CASE p \notin right
      <4>1. joins /\ p = l /\ m = l.start /\ end(l) < e
        BY <2>1, <3>2 DEF m
      <4>2. l \in r.segs /\ end(l) \in Nat /\ l.start \in Nat /\ e \in Nat
        BY <1>4, <2>1, <4>1
      <4>3. end(x) \in Nat /\ e <= end(x)
        BY <2>10, <2>a, ZenonT(60)
      <4>4. end(p) = end(l) /\ p.start = l.start
        BY <4>1, ZenonT(60)
      <4> HIDE DEF end, x, l
      <4> QED BY <4>1, <4>2, <4>3, <4>4
    <3> QED BY <3>1, <3>2, ZenonT(60)
  <2>13. ASSUME NEW i \in Nat, m <= i, i < end(x)
         PROVE  (a <= i /\ i < e) \/ \E p \in r.segs : p.start <= i /\ i < end(p)
    <3>1. CASE i < a
      BY <1>4, <2>1, <2>13, <3>1 DEF m
    <3>2. CASE a <= i /\ i < e
      BY <3>2
    <3>3. CASE e <= i
      <4>1. PICK p \in right : end(x) = end(p)
        BY <2>10, <2>13, <2>a, <3>3, SMTT(60)
      <4>2. p \in r.segs /\ p.start <= e
        BY <2>8, SMTT(60)
      <4> QED BY <1>4, <2>13, <3>3, <4>1, <4>2
    <3> QED BY <3>1, <3>2, <3>3
  <2> HIDE DEF gone, x
  <2>14. /\ Core(new) /\ new.output = r.output /\ new.eof = r.eof
         /\ new.segs = (r.segs \ gone) \union {x}
    <3>1. /\ x \in Segment /\ x.data = Slice(x.start, end(x))
          /\ r.output.written < x.start /\ end(x) <= Limit(r.output)
      BY <2>4, <2>10 DEF w, hi
    <3> QED BY <2>7, <2>11, <3>1, StoreGood, SMTT(90)
  <2> HIDE DEF new
  <2>15. Adds(r, new, a, e)
    <3>1. ASSUME NEW i \in Nat, Has(new, i) PROVE Has(r, i) \/ (a <= i /\ i < e)
      BY <2>7, <2>10, <2>13, <2>14, <3>1, SMTT(60) DEF Has
    <3>2. ASSUME NEW i \in Nat, Has(r, i) \/ (a <= i /\ i < e) PROVE Has(new, i)
      <4>1. CASE a <= i /\ i < e
        <5>1. x \in new.segs /\ x.start <= i /\ i < end(x)
          BY <2>4, <2>10, <2>14, <2>a, <4>1, SMTT(60)
        <5> QED BY <5>1, SMTT(60) DEF Has
      <4>2. CASE i < r.output.written
        BY <2>14, <4>2 DEF Has
      <4>3. CASE \E p \in r.segs : p.start <= i /\ i < end(p)
        <5>1. PICK p \in r.segs : p.start <= i /\ i < end(p)
          BY <4>3
        <5>2. CASE p \in gone
          <6>1. x \in new.segs /\ x.start <= i /\ i < end(x)
            BY <1>4, <2>4, <2>10, <2>12, <2>14, <2>a, <5>1, <5>2, SMTT(60)
          <6> QED BY <6>1, SMTT(60) DEF Has
        <5>3. CASE p \notin gone
          BY <2>14, <5>1, <5>3, SMTT(60) DEF Has
        <5> QED BY <5>2, <5>3
      <4> QED BY <3>2, <4>1, <4>2, <4>3, SMTT(60) DEF Has
    <3> QED BY <2>14, <3>1, <3>2, SMTT(60) DEF Adds
  <2> QED BY <1>1, <1>7, <2>14, <2>15, SMTT(60) DEF s
<1> QED BY <1>6, <1>7, ZenonT(60)
-------------------------------------------------------------------------------
\* What holds between two operations: the output has ended exactly when the
\* end is known and reached.
Good(r) == Core(r) /\ (r.eof /\ r.output.written = StreamLen => r.output.eof)

\* JUDGE_EOF ends the output exactly when the stream is whole.
LEMMA JudgeGood ==
  ASSUME NEW r, Core(r), NEW stop \in Nat, NEW eof \in BOOLEAN, eof => stop = StreamLen
  PROVE  LET new == judge_eof(r, stop, eof)
         IN  /\ Good(new) /\ (new.eof <=> r.eof \/ eof) /\ new.segs = r.segs
             /\ new.output.written = r.output.written /\ new.output.read = r.output.read
<1> DEFINE known == IF eof THEN [r EXCEPT !.eof = TRUE, !.pos_eof = stop] ELSE r
<1>1. r \in Reassemblers /\ StreamLen \in Nat /\ r.output \in Stream /\ r.eof \in BOOLEAN
  BY CoreFacts DEF Core, Reassemblers
<1>2. /\ known \in Reassemblers /\ known.output = r.output /\ known.segs = r.segs
      /\ known.bytes = r.bytes /\ (known.eof => known.pos_eof = StreamLen)
      /\ (known.eof <=> r.eof \/ eof)
  <2>1. CASE eof
    BY <1>1, <2>1, ZenonT(60) DEF Reassemblers
  <2>2. CASE ~ eof
    BY <1>1, <2>2 DEF Core
  <2> QED BY <2>1, <2>2
<1>3. Core(known)
  BY <1>2 DEF Core
<1>4. judge_eof(r, stop, eof) =
        IF known.eof /\ known.output.written = known.pos_eof
        THEN [known EXCEPT !.output = end_input(@)] ELSE known
  BY DEF judge_eof
<1> HIDE DEF known
<1>5. CASE known.eof /\ known.output.written = known.pos_eof
  <2> DEFINE b == end_input(known.output)
             new == [known EXCEPT !.output = b]
  <2>1. b \in Stream /\ b.eof = TRUE /\ b.written = known.output.written
        /\ b.read = known.output.read /\ b.buf = known.output.buf
    BY <1>1, <1>2, ZenonT(60) DEF end_input, Stream
  <2> HIDE DEF b
  <2>2. /\ new \in Reassemblers /\ new.output = b /\ new.segs = known.segs
        /\ new.bytes = known.bytes /\ new.eof = known.eof /\ new.pos_eof = known.pos_eof
    BY <1>2, <2>1 DEF Reassemblers
  <2>3. judge_eof(r, stop, eof) = new
    BY <1>4, <1>5 DEF b
  <2> HIDE DEF new
  <2>4. GoodStream(b) /\ Limit(b) = Limit(known.output)
    BY <1>3, <2>1 DEF Core, GoodStream, Limit
  <2>5. Core(new)
    BY <1>2, <1>3, <1>5, <2>1, <2>2, <2>4 DEF Core
  <2> QED BY <1>2, <2>1, <2>2, <2>3, <2>5 DEF Good
<1>6. CASE ~ (known.eof /\ known.output.written = known.pos_eof)
  BY <1>2, <1>3, <1>4, <1>6, SMTT(60) DEF Good
<1> QED BY <1>5, <1>6, SMTT(60)

\* push_substring of an excerpt of the stream keeps the reassembler good, and
\* adds the bytes that fit.
LEMMA PushGood ==
  ASSUME NEW r, Core(r), NEW a \in Nat, NEW b \in Nat, a <= b, b <= StreamLen,
         NEW eof \in BOOLEAN, eof => b = StreamLen
  PROVE  LET new == push_substring(r, Slice(a, b), a, eof)
         IN  /\ Good(new) /\ new.output.read = r.output.read /\ (new.eof <=> r.eof \/ eof)
             /\ \A i \in Nat : Has(new, i) <=>
                  Has(r, i) \/ (a <= i /\ i < b /\ i < r.output.read + Capacity)
<1> DEFINE unacc == r.output.read + r.cap
           data  == IF unacc < b THEN SubSeq(Slice(a, b), 1, unacc - a) ELSE Slice(a, b)
           s     == [start |-> a, data |-> data]
           taken == IF b < r.output.written \/ unacc <= a THEN r
                    ELSE IF a <= r.output.written THEN assemble(r, s)
                    ELSE insert(r, s)
<1>1. Len(Slice(a, b)) = b - a /\ a + Len(Slice(a, b)) = b
  BY SliceSeq, SMTT(60)
<1>2. push_substring(r, Slice(a, b), a, eof) = judge_eof(taken, b, eof)
  BY <1>1, ZenonT(60) DEF push_substring
<1>3. /\ r.output.written \in Nat /\ r.output.read \in Nat /\ r.cap = Capacity
      /\ Capacity \in Nat /\ StreamLen \in Nat /\ unacc \in Nat
      /\ r.output.written <= unacc /\ unacc = r.output.read + Capacity
  BY SMTT(60), Zenon, CoreFacts
<1> DEFINE e == Least(unacc, b)
<1>4. unacc > a => s = Seg(a, e) /\ e \in Nat /\ a <= e /\ e <= Limit(r.output)
  <2> HAVE unacc > a
  <2>1. e \in Nat /\ a <= e /\ e <= Limit(r.output)
    BY <1>3, SMTT(60), Zenon DEF Least, Limit
  <2>2. CASE unacc < b
    <3>1. unacc - a \in Nat /\ unacc - a <= b - a /\ a + (unacc - a) = unacc
      BY <1>3, <2>2
    <3>2. SubSeq(Slice(a, b), 1, unacc - a) = Slice(a, a + (unacc - a))
      BY <3>1, SlicePrefix, ZenonT(60)
    <3>3. e = unacc
      BY <1>3, <2>2 DEF Least
    <3> QED BY <2>1, <2>2, <3>1, <3>2, <3>3, ZenonT(60) DEF Seg
  <2>3. CASE ~ (unacc < b)
    <3>1. e = b
      BY <1>3, <2>3, SMTT(60) DEF Least
    <3> QED BY <2>1, <2>3, <3>1 DEF Seg
  <2> QED BY SMTT(60), Zenon, <2>2, <2>3
<1>5. r.output.written <= b => r.output.written <= e
  BY <1>3 DEF Least
<1>6. \A i \in Nat : i < e <=> i < b /\ i < unacc
  BY <1>3, SMTT(60) DEF Least
<1> HIDE DEF s, e, unacc
<1>7. /\ Core(taken) /\ taken.output.read = r.output.read /\ taken.eof = r.eof
      /\ \A i \in Nat : Has(taken, i) <=> Has(r, i) \/ (a <= i /\ i < b /\ i < unacc)
  <2>1. CASE b < r.output.written \/ unacc <= a
    <3>1. taken = r
      BY <2>1
    <3>2. \A i \in Nat : a <= i /\ i < b /\ i < unacc => Has(r, i)
      BY <1>3, <2>1 DEF Has
    <3> QED BY <3>1, <3>2, SMTT(60)
  <2>2. CASE ~ (b < r.output.written \/ unacc <= a) /\ a <= r.output.written
    <3>1. unacc > a /\ r.output.written <= b
      BY <1>3, <2>2
    <3>2. taken = assemble(r, Seg(a, e)) /\ e \in Nat /\ e <= Limit(r.output)
      BY <1>4, <2>2, <3>1, SMTT(60)
    <3>3. Core(taken) /\ Adds(r, taken, a, e)
      BY SMTT(60), Zenon, <1>5, <2>2, <3>1, <3>2, AssembleGood
    <3> HIDE DEF taken
    <3> QED BY <1>6, <3>3, SMTT(60) DEF Adds
  <2>3. CASE ~ (b < r.output.written \/ unacc <= a) /\ ~ (a <= r.output.written)
    <3>1. unacc > a /\ r.output.written < a
      BY <1>3, <2>3, SMTT(60)
    <3>2. taken = insert(r, Seg(a, e)) /\ e \in Nat /\ a <= e /\ e <= Limit(r.output)
      BY <1>4, <2>3, <3>1, SMTT(60)
    <3>3. Core(taken) /\ Adds(r, taken, a, e)
      BY SMTT(60), Zenon, <3>1, <3>2, InsertGood
    <3> HIDE DEF taken
    <3> QED BY <1>6, <3>3 DEF Adds
  <2> QED BY <2>1, <2>2, <2>3, SMTT(60)
<1> HIDE DEF taken
<1> DEFINE new == judge_eof(taken, b, eof)
<1>8. /\ Good(new) /\ (new.eof <=> taken.eof \/ eof) /\ new.segs = taken.segs
      /\ new.output.written = taken.output.written
      /\ new.output.read = taken.output.read
  BY <1>7, JudgeGood
<1> HIDE DEF new
<1>9. \A i \in Nat : Has(new, i) <=> Has(taken, i)
  BY <1>8 DEF Has
<1> QED BY <1>2, <1>3, <1>7, <1>8, <1>9, SMTT(60) DEF new

\* A read by the owner keeps the reassembler good, and takes the bytes from
\* the output only.
LEMMA ReadGood ==
  ASSUME NEW r, Good(r), NEW n \in 1 .. buffer_size(r.output)
  PROVE  LET new == [r EXCEPT !.output = read(@, n)]
         IN  /\ Good(new) /\ new.output.read = r.output.read + n
             /\ n \in Nat /\ 1 <= n /\ n <= r.output.written - r.output.read
             /\ new.eof = r.eof /\ new.segs = r.segs /\ new.output.eof = r.output.eof
             /\ new.output.written = r.output.written
<1> DEFINE b   == r.output
           b2  == read(b, n)
           new == [r EXCEPT !.output = b2]
<1>1. /\ b \in Stream /\ b.written \in Nat /\ b.read \in Nat /\ b.read <= b.written
      /\ b.written <= b.read + Capacity /\ b.written <= StreamLen
      /\ Capacity \in Nat /\ StreamLen \in Nat /\ Core(r) /\ r \in Reassemblers
      /\ b.buf = Slice(b.read, b.written)
  BY CoreFacts DEF Good, Core, GoodStream
<1>2. buffer_size(b) = b.written - b.read
  BY ZenonT(60), <1>1, SliceSeq DEF buffer_size
<1>3. n \in Nat /\ 1 <= n /\ n <= b.written - b.read /\ b.read + n \in Nat
  <2>1. n \in 1 .. buffer_size(b)
    OBVIOUS
  <2> HIDE DEF b, b2, new
  <2> DEFINE i == b.read
             j == b.written
  <2>2. i \in Nat /\ j \in Nat /\ i <= j /\ n \in 1 .. (j - i)
    BY <1>1, <1>2, <2>1
  <2> HIDE DEF i, j
  <2>3. n \in Nat /\ 1 <= n /\ n <= j - i /\ i + n \in Nat
    BY <2>2, SMTT(60)
  <2> QED BY <2>3 DEF i, j
<1>4. Least(n, buffer_size(b)) = n
  BY <1>1, <1>2, <1>3 DEF Least
<1>5. Substr(b.buf, n) = Slice(b.read + n, b.written)
  <2> DEFINE i == b.read
             j == b.written
  <2>1. i \in Nat /\ j \in Nat /\ n \in Nat /\ n <= j - i /\ b.buf = Slice(i, j)
    BY <1>1, <1>3
  <2> HIDE DEF i, j, b
  <2>2. Substr(Slice(i, j), n) = Slice(i + n, j)
    BY <2>1, SliceSubstr
  <2> QED BY <2>1, <2>2, SMTT(60) DEF i, j
<1>6. b2 = [b EXCEPT !.buf = Slice(b.read + n, b.written), !.read = b.read + n]
  BY <1>4, <1>5, SMTT(60) DEF read, pop_output
<1>7. Slice(b.read + n, b.written) \in Seq(Nat)
  <2>1. b.read + n <= b.written
    BY <1>1, <1>3
  <2> QED BY <1>1, <1>3, <2>1, SliceSeq, ZenonT(60)
<1>8. /\ b2 \in Stream /\ b2.written = b.written /\ b2.read = b.read + n /\ b2.eof = b.eof
      /\ b2.buf = Slice(b.read + n, b.written)
  <2> DEFINE d == Slice(b.read + n, b.written)
             m == b.read + n
  <2>1. b2 = [b EXCEPT !.buf = d, !.read = m] /\ d \in Seq(Nat) /\ m \in Nat
    BY <1>3, <1>6, <1>7
  <2> HIDE DEF d, m, b2
  <2>2. b2 \in Stream /\ b2.written = b.written /\ b2.read = m /\ b2.eof = b.eof /\ b2.buf = d
    BY <1>1, <2>1, ZenonT(60) DEF Stream
  <2> QED BY <2>2 DEF d, m
<1> HIDE DEF b2
<1>9. GoodStream(b2)
  <2> DEFINE i == b.read
             j == b.written
             k == b2.read
  <2>1. /\ i \in Nat /\ j \in Nat /\ j <= i + Capacity /\ j <= StreamLen
        /\ Capacity \in Nat /\ StreamLen \in Nat /\ n \in Nat /\ n <= j - i /\ k = i + n
    BY <1>1, <1>3, <1>8
  <2> HIDE DEF i, j, k
  <2>2. k \in Nat /\ k <= j /\ j <= k + Capacity
    BY <2>1
  <2>3. /\ b2.read <= b2.written /\ b2.written <= b2.read + Capacity
        /\ b2.written <= StreamLen /\ b2.buf = Slice(b2.read, b2.written)
    BY <1>8, <2>1, <2>2 DEF i, j, k
  <2> QED BY <1>8, <2>3 DEF GoodStream
<1>10. Limit(b) \in Nat /\ Limit(b2) \in Nat /\ Limit(b) <= Limit(b2)
  <2> DEFINE i == b.read
             k == b2.read
  <2>1. Limit(b) = Least(i + Capacity, StreamLen) /\ Limit(b2) = Least(k + Capacity, StreamLen)
    BY SMTT(60) DEF Limit
  <2>2. i \in Nat /\ k \in Nat /\ i <= k /\ Capacity \in Nat /\ StreamLen \in Nat
    BY <1>1, <1>3, <1>8, SMTT(60), Zenon
  <2> HIDE DEF i, k
  <2> QED BY SMTT(60), Zenon, <2>1, <2>2 DEF Least
<1>11. GoodSegs(r.segs, b2.written, Limit(b2))
  <2>1. GoodSegs(r.segs, b.written, Limit(b))
    BY <1>1 DEF Core
  <2>2. \A p \in r.segs : p \in Segment /\ end(p) \in Nat
    BY <2>1 DEF GoodSegs, Segment, end
  <2> QED BY <1>8, <1>10, <2>1, <2>2, SMTT(60), Zenon DEF GoodSegs
<1>12. /\ new \in Reassemblers /\ new.output = b2 /\ new.segs = r.segs
       /\ new.bytes = r.bytes /\ new.eof = r.eof /\ new.pos_eof = r.pos_eof
  BY SMTT(60), Zenon, <1>1, <1>8 DEF Reassemblers
<1> HIDE DEF new
<1>13. Core(new)
  <2>1. /\ IsFiniteSet(r.segs) /\ r.bytes = TotalSize(r.segs)
        /\ r.eof => r.pos_eof = StreamLen
        /\ b.eof => r.eof /\ b.written = StreamLen
    BY <1>1 DEF Core
  <2>2. GoodStream(new.output) /\ GoodSegs(new.segs, new.output.written, Limit(new.output))
    BY ZenonT(60), <1>9, <1>11, <1>12
  <2> HIDE DEF b
  <2>3. /\ IsFiniteSet(new.segs) /\ new.bytes = TotalSize(new.segs)
        /\ new.eof => new.pos_eof = StreamLen
        /\ new.output.eof => new.eof /\ new.output.written = StreamLen
    BY <1>8, <1>12, <2>1, SMTT(60)
  <2> QED BY ZenonT(60), <1>12, <2>2, <2>3 DEF Core
<1>14. Good(new)
  BY SMTT(60), Zenon, <1>8, <1>12, <1>13 DEF Good
<1> QED BY SMTT(60), Zenon, <1>3, <1>8, <1>12, <1>14 DEF new, b2

\* A new reassembler is good.
LEMMA InitGood == Good(NewReassembler(Capacity))
<1> DEFINE r == NewReassembler(Capacity)
           b == NewStream(Capacity)
<1>1. StreamLen \in Nat /\ Capacity \in Nat
  BY ConstantsAssumption
<1>2. Slice(0, 0) = << >>
  BY DEF Slice
<1>3. GoodStream(b) /\ b.written = 0 /\ b.eof = FALSE
  BY <1>1, <1>2, SMTT(60) DEF GoodStream, Stream, NewStream
<1>4. /\ r \in Reassemblers /\ r.segs = {} /\ r.bytes = 0 /\ r.eof = FALSE
      /\ r.output = b
  <2>1. r = [segs |-> {}, bytes |-> 0, eof |-> FALSE, pos_eof |-> 0,
             output |-> b, cap |-> Capacity]
    BY DEF NewReassembler
  <2>2. b \in Stream /\ {} \in SUBSET Segment
    BY <1>3 DEF GoodStream
  <2> HIDE DEF r, b
  <2> QED BY <1>1, <2>1, <2>2, SMTT(60) DEF Reassemblers
<1>5. TotalSize({}) = 0 /\ IsFiniteSet({})
  <2>1. UNION {{p} \X (1 .. Len(p.data)) : p \in {}} = {}
    BY SMTT(60)
  <2> QED BY <2>1, FS_EmptySet DEF TotalSize
<1> HIDE DEF r, b
<1>6. Core(r)
  BY <1>3, <1>4, <1>5 DEF Core, GoodSegs
<1> QED BY <1>4, <1>6 DEF Good, r

\* Good is an inductive invariant of the reassembler.
LEMMA GoodInvariant == Spec => []Good(ra)
<1>1. Init => Good(ra)
  BY InitGood DEF Init
<1>2. Good(ra) /\ [Next]_ra => Good(ra)'
  <2> SUFFICES ASSUME Good(ra), [Next]_ra PROVE Good(ra')
    OBVIOUS
  <2>1. CASE Push
    <3>0. PICK a \in 0 .. StreamLen :
            \E b \in a .. StreamLen : \E eof \in BOOLEAN :
              (eof => b = StreamLen) /\ ra' = push_substring(ra, Slice(a, b), a, eof)
      BY <2>1 DEF Push
    <3>1. PICK b \in a .. StreamLen, eof \in BOOLEAN :
            (eof => b = StreamLen) /\ ra' = push_substring(ra, Slice(a, b), a, eof)
      BY <3>0
    <3>2. a \in Nat /\ b \in Nat /\ a <= b /\ b <= StreamLen
      BY ConstantsAssumption
    <3>3. Core(ra)
      BY SMTT(60) DEF Good
    <3>4. Good(push_substring(ra, Slice(a, b), a, eof))
      BY <3>1, <3>2, <3>3, PushGood
    <3> QED BY <3>1, <3>4
  <2>2. CASE Read
    BY <2>2, ReadGood DEF Read
  <2>3. CASE UNCHANGED ra
    BY <2>3, SMTT(60)
  <2> QED BY <2>1, <2>2, <2>3 DEF Next
<1> QED BY <1>1, <1>2, PTL DEF Spec
-------------------------------------------------------------------------------
\* Disjoint segments: as many waiting positions as cells.
LEMMA PositionsCounted ==
  ASSUME NEW segs, NEW lo \in Nat, NEW hi \in Nat, GoodSegs(segs, lo, hi), IsFiniteSet(segs)
  PROVE  LET P == UNION {p.start .. (end(p) - 1) : p \in segs}
         IN  IsFiniteSet(P) /\ Cardinality(P) = TotalSize(segs) /\ P \subseteq lo + 1 .. hi - 1
<1> DEFINE P == UNION {p.start .. (end(p) - 1) : p \in segs}
           C == Cells(segs)
           f == [c \in C |-> c[1].start + c[2] - 1]
<1>1. \A p \in segs : /\ p \in Segment /\ p.start \in Nat /\ Len(p.data) \in Nat
                      /\ end(p) = p.start + Len(p.data) /\ end(p) \in Nat
                      /\ lo < p.start /\ end(p) <= hi
  BY SMTT(60), Zenon DEF GoodSegs, Segment, end
<1>2. IsFiniteSet(C)
  BY <1>1, CellsFinite
<1>3. \A c \in C : c[1] \in segs /\ c[2] \in Int /\ 1 <= c[2] /\ c[2] <= Len(c[1].data)
                   /\ c = <<c[1], c[2]>>
  BY <1>1, SMTT(60), Zenon DEF Cells
<1>4. \A p \in segs : \A i \in 1 .. Len(p.data) : <<p, i>> \in C
  BY DEF Cells
<1> HIDE DEF C
<1>5. \A c \in C : f[c] \in P
  <2> TAKE c \in C
  <2>1. f[c] = c[1].start + c[2] - 1
    OBVIOUS
  <2> DEFINE p == c[1]
             i == c[2]
  <2>a. /\ p \in segs /\ i \in Int /\ 1 <= i /\ i <= Len(p.data)
        /\ p.start \in Nat /\ Len(p.data) \in Nat /\ end(p) = p.start + Len(p.data)
    BY <1>1, <1>3
  <2>2. c[1].start + c[2] - 1 \in c[1].start .. (end(c[1]) - 1)
    <3> HIDE DEF p, i
    <3>1. p.start + i - 1 \in p.start .. (end(p) - 1)
      BY <2>a, SMTT(60)
    <3> QED BY <3>1 DEF p, i
  <2> QED BY <1>3, <2>1, <2>2, SMTT(60)
<1>6. \A x \in P : \E c \in C : f[c] = x
  <2> TAKE x \in P
  <2>1. PICK p \in segs : x \in p.start .. (end(p) - 1)
    OBVIOUS
  <2>2. x - p.start + 1 \in 1 .. Len(p.data) /\ p.start + (x - p.start + 1) - 1 = x
    <3>1. p.start \in Nat /\ Len(p.data) \in Nat /\ end(p) = p.start + Len(p.data)
      BY <1>1
    <3> DEFINE m == p.start
               n == Len(p.data)
    <3>2. m \in Nat /\ n \in Nat /\ x \in m .. (m + n - 1)
      BY <2>1, <3>1
    <3>3. x - m + 1 \in 1 .. n /\ m + (x - m + 1) - 1 = x
      <4> HIDE DEF f, P, m, n
      <4> QED BY <3>2, SMTT(60)
    <3> QED BY <3>3
  <2>3. <<p, x - p.start + 1>> \in C
    BY <1>4, <2>2, SMTT(60)
  <2>4. f[<<p, x - p.start + 1>>] = x
    BY <2>2, <2>3
  <2> QED BY <2>3, <2>4
<1>7. \A c, d \in C : f[c] = f[d] => c = d
  <2> SUFFICES ASSUME NEW c \in C, NEW d \in C, f[c] = f[d] PROVE c = d
    OBVIOUS
  <2>1. c[1].start + c[2] - 1 = d[1].start + d[2] - 1
    OBVIOUS
  <2>2. c[1] = d[1]
    <3> SUFFICES ASSUME c[1] # d[1] PROVE FALSE
      OBVIOUS
    <3>1. end(c[1]) < d[1].start \/ end(d[1]) < c[1].start
      BY <1>3, SMTT(60) DEF GoodSegs
    <3> DEFINE p == c[1]
               q == d[1]
               i == c[2]
               j == d[2]
    <3>2. /\ i \in Int /\ 1 <= i /\ i <= Len(p.data) /\ p.start \in Nat /\ Len(p.data) \in Nat
          /\ j \in Int /\ 1 <= j /\ j <= Len(q.data) /\ q.start \in Nat /\ Len(q.data) \in Nat
          /\ end(p) = p.start + Len(p.data) /\ end(q) = q.start + Len(q.data)
      BY <1>1, <1>3, ZenonT(60)
    <3>3. p.start + i - 1 = q.start + j - 1 /\ (end(p) < q.start \/ end(q) < p.start)
      BY <2>1, <3>1
    <3> HIDE DEF p, q, i, j
    <3>4. p.start + Len(p.data) < q.start \/ q.start + Len(q.data) < p.start
      BY <3>2, <3>3
    <3>5. p.start + i - 1 # q.start + j - 1
      <4> DEFINE m == p.start
                 n == Len(p.data)
                 k == q.start
                 l == Len(q.data)
      <4>1. /\ m \in Nat /\ n \in Nat /\ k \in Nat /\ l \in Nat
            /\ i \in Int /\ 1 <= i /\ i <= n /\ j \in Int /\ 1 <= j /\ j <= l
            /\ (m + n < k \/ k + l < m)
        BY <3>2, <3>4
      <4>2. m + i - 1 # k + j - 1
        <5> HIDE DEF f, P, m, n, k, l
        <5>1. CASE m + n < k
          BY <4>1, <5>1, SMTT(60)
        <5>2. CASE k + l < m
          BY <4>1, <5>2, SMTT(60)
        <5> QED BY <4>1, <5>1, <5>2
      <4> QED BY <4>2
    <3> QED BY <3>3, <3>5
  <2>3. c[2] = d[2]
    BY SMTT(60), Zenon, <1>1, <1>3, <2>1, <2>2
  <2> QED BY <1>3, <2>2, <2>3, SMTT(60)
<1>8. f \in Bijection(C, P)
  BY <1>5, <1>6, <1>7, SMTT(60) DEF Bijection, Injection, Surjection, IsInjective
<1>9. IsFiniteSet(P) /\ Cardinality(P) = Cardinality(C)
  <2> HIDE DEF f, P
  <2> QED BY <1>2, <1>8, FS_Bijection, SMTT(60) DEF ExistsBijection
<1>10. P \subseteq lo + 1 .. hi - 1
  BY SMTT(60), Zenon, <1>1
<1> QED BY <1>9, <1>10 DEF C, Cells, TotalSize

\* The inductive invariant implies each of the properties.
LEMMA GoodSafe ==
  ASSUME Good(ra)
  PROVE  /\ TypeOK /\ OutputInOrder /\ PendingWellFormed
         /\ CountsOnce /\ EndsWithTheStream
<1> DEFINE w  == ra.output.written
           hi == Limit(ra.output)
<1>1. Core(ra)
  BY SMTT(60) DEF Good
<1>2. /\ w \in Nat /\ ra.output.read \in Nat /\ hi \in Nat /\ w <= hi
      /\ ra.output.read <= w /\ hi <= StreamLen /\ hi <= ra.output.read + Capacity
      /\ Capacity \in Nat /\ StreamLen \in Nat
  BY <1>1, CoreFacts, SMTT(60)
<1>3. GoodSegs(ra.segs, w, hi) /\ IsFiniteSet(ra.segs) /\ ra.bytes = TotalSize(ra.segs)
      /\ GoodStream(ra.output)
  BY <1>1 DEF Core
<1> HIDE DEF w, hi
<1>4. TypeOK
  BY <1>1, SMTT(60) DEF Core, Reassemblers, TypeOK
<1>5. OutputInOrder
  BY <1>3, SMTT(60) DEF GoodStream, OutputInOrder
<1>6. PendingWellFormed
  <2>1. \A p \in ra.segs : p.start \in Nat /\ end(p) \in Nat
    BY <1>3, SMTT(60) DEF GoodSegs, Segment, end
  <2>2. \A p \in ra.segs : /\ p.data = Slice(p.start, end(p)) /\ w < p.start
                           /\ end(p) <= hi
                           /\ \A q \in ra.segs : p # q => end(p) < q.start \/ end(q) < p.start
    BY <1>3, SMTT(60) DEF GoodSegs
  <2>3. \A p \in ra.segs : end(p) <= ra.output.read + Capacity /\ end(p) <= StreamLen
    BY <1>2, <2>1, <2>2, SMTT(60), Zenon
  <2> QED BY <2>2, <2>3, SMTT(60) DEF PendingWellFormed, w
<1>7. IsFiniteSet(Pending) /\ Cardinality(Pending) = TotalSize(ra.segs)
      /\ Pending \subseteq w + 1 .. hi - 1
  BY SMTT(60), Zenon, <1>2, <1>3, PositionsCounted DEF Pending
<1>8. WithinCapacity
  <2> DEFINE lo1 == w + 1
             hi1 == hi - 1
             I   == lo1 .. hi1
  <2>1. lo1 \in Int /\ hi1 \in Int
    BY <1>2
  <2> HIDE DEF lo1, hi1
  <2>2. IsFiniteSet(I) /\ Cardinality(I) = IF lo1 > hi1 THEN 0 ELSE hi1 - lo1 + 1
    BY <2>1, FS_Interval
  <2>3. Pending \subseteq I
    BY <1>7 DEF lo1, hi1
  <2> HIDE DEF I
  <2>4. Cardinality(Pending) <= Cardinality(I) /\ Cardinality(Pending) \in Nat
    BY <1>7, <2>2, <2>3, FS_Subset, FS_CardinalityType, ZenonT(60)
  <2>5. Cardinality(I) <= hi - w
    BY <1>2, <2>1, <2>2 DEF lo1, hi1
  <2>6. buffer_size(ra.output) = w - ra.output.read
    BY <1>2, <1>3, SliceSeq, ZenonT(60) DEF GoodStream, buffer_size, w
  <2>7. ra.bytes = Cardinality(Pending) /\ Cardinality(I) \in Nat
    BY <1>3, <1>7, <2>2, FS_CardinalityType
  <2>8. ra.bytes <= hi - w
    <3> DEFINE p == Cardinality(Pending)
               c == Cardinality(I)
    <3>1. p \in Nat /\ c \in Nat /\ p <= c /\ c <= hi - w /\ w \in Nat /\ hi \in Nat
      BY <1>2, <2>4, <2>5, <2>7
    <3> HIDE DEF p, c
    <3>2. p <= hi - w
      BY <3>1
    <3> QED BY <2>7, <3>2 DEF p
  <2>9. (w - ra.output.read) + ra.bytes <= Capacity
    <3> DEFINE r == ra.output.read
               n == ra.bytes
    <3>1. /\ r \in Nat /\ n \in Nat /\ w \in Nat /\ hi \in Nat /\ Capacity \in Nat
          /\ n <= hi - w /\ hi <= r + Capacity
      BY <1>2, <2>4, <2>7, <2>8
    <3> HIDE DEF r, n
    <3>2. (w - r) + n <= Capacity
      BY <3>1
    <3> QED BY <3>2 DEF r, n
  <2> QED BY <2>6, <2>9 DEF WithinCapacity
<1>9. CountsOnce
  BY <1>3, <1>7, <1>8, SMTT(60) DEF CountsOnce
<1>10. EndsWithTheStream
  BY DEF Good, Core, EndsWithTheStream
<1> QED BY <1>4, <1>5, <1>6, <1>9, <1>10, SMTT(60)

\* The members of the reassembler always have their types.
THEOREM TypeCorrect == Spec => []TypeOK
BY GoodInvariant, GoodSafe, PTL

\* The reader of the output gets the stream, in order and without a gap,
\* for every capacity, stream length and series of excerpts.
THEOREM OutputCorrect == Spec => []OutputInOrder
BY GoodInvariant, GoodSafe, PTL

\* The set of stored segments never holds two that overlap or touch.
THEOREM SegmentsWellFormed == Spec => []PendingWellFormed
BY GoodInvariant, GoodSafe, PTL

\* unassembled_bytes() is the number of distinct waiting bytes, and with the
\* unread bytes of the output it stays within the capacity.
THEOREM CountsCorrect == Spec => []CountsOnce
BY GoodInvariant, GoodSafe, PTL

\* The output ends exactly when the whole stream has been assembled and the
\* end is known.
THEOREM EndCorrect == Spec => []EndsWithTheStream
BY GoodInvariant, GoodSafe, PTL
-------------------------------------------------------------------------------
\* The refinement mapping, for any reassembler.
HeldBy(r) == (0 .. (r.output.written - 1)) \union UNION {p.start .. (end(p) - 1) : p \in r.segs}

\* The positions held are those that Has names.
LEMMA HeldHas ==
  ASSUME NEW r, Good(r)
  PROVE  HeldBy(r) \subseteq Nat /\ \A i \in Nat : i \in HeldBy(r) <=> Has(r, i)
<1> DEFINE w == r.output.written
           P == UNION {p.start .. (end(p) - 1) : p \in r.segs}
<1>1. w \in Nat /\ \A p \in r.segs : p.start \in Nat /\ end(p) \in Nat
  BY CoreFacts, SMTT(60) DEF Good, Core, GoodSegs, Segment, end
<1>2. \A i : i \in P <=> i \in Nat /\ \E p \in r.segs : p.start <= i /\ i < end(p)
  <2> TAKE i
  <2>1. i \in P <=> \E p \in r.segs : i \in p.start .. (end(p) - 1)
    OBVIOUS
  <2>2. ASSUME NEW p \in r.segs
        PROVE  i \in p.start .. (end(p) - 1) <=> i \in Nat /\ p.start <= i /\ i < end(p)
    <3> DEFINE j == p.start
               k == end(p)
    <3>1. j \in Nat /\ k \in Nat
      BY <1>1
    <3> HIDE DEF j, k
    <3>2. i \in j .. (k - 1) <=> i \in Nat /\ j <= i /\ i < k
      BY <3>1
    <3> QED BY <3>2 DEF j, k
  <2> QED BY <2>1, <2>2
<1> HIDE DEF P
<1>3. \A i : i \in (0 .. (w - 1)) <=> i \in Nat /\ i < w
  <2> HIDE DEF w
  <2> QED BY <1>1
<1>4. HeldBy(r) = (0 .. (w - 1)) \union P
  BY DEF HeldBy, P
<1> QED BY <1>2, <1>3, <1>4, SMTT(60) DEF Has

\* All bytes before the first one that is missing have been written.
LEMMA WrittenAssembled ==
  ASSUME Good(ra)
  PROVE  Abstract!Assembled = ra.output.written
<1> DEFINE w == ra.output.written
           held == HeldBy(ra)
<1>1. /\ w \in Nat /\ w <= StreamLen /\ StreamLen \in Nat
      /\ \A p \in ra.segs : p.start \in Nat /\ w < p.start
  BY CoreFacts DEF Good, Core, GoodSegs, Segment
<1>2. \A i \in Nat : i \in held <=> Has(ra, i)
  BY HeldHas
<1>3. Abstract!Assembled =
        CHOOSE n \in 0 .. StreamLen : n \notin held /\ 0 .. (n - 1) \subseteq held
  BY DEF Abstract!Assembled, HeldBy, Pending
<1> HIDE DEF held
<1>4. w \notin held /\ \A i \in Nat : i < w => i \in held
  BY <1>1, <1>2 DEF Has
<1> HIDE DEF w
<1>5. w \in 0 .. StreamLen /\ 0 .. (w - 1) \subseteq held
  BY <1>1, <1>4
<1>6. ASSUME NEW n \in 0 .. StreamLen, n \notin held, 0 .. (n - 1) \subseteq held
      PROVE  n = w
  <2>1. ~ (w < n)
    <3> SUFFICES ASSUME w < n PROVE FALSE
      OBVIOUS
    <3>1. w \in 0 .. (n - 1)
      BY <1>1
    <3> QED BY <1>4, <1>6, <3>1
  <2>2. ~ (n < w)
    BY <1>1, <1>4, <1>6
  <2> QED BY <1>1, <2>1, <2>2
<1> QED BY <1>3, <1>4, <1>5, <1>6, SMTT(60) DEF w

\* An excerpt pushed is one kept, and a read one taken.
LEMMA StepRefines ==
  ASSUME Good(ra), Good(ra'), Next
  PROVE  Abstract!Next
<1> DEFINE Held == (0 .. (ra.output.written - 1)) \union Pending
<1>1. Held = HeldBy(ra) /\ Held' = HeldBy(ra')
  BY DEF HeldBy, Pending
<1> HIDE DEF Held
<1>2. /\ Held \subseteq Nat /\ Held' \subseteq Nat
      /\ \A i \in Nat : (i \in Held <=> Has(ra, i)) /\ (i \in Held' <=> Has(ra', i))
  BY <1>1, HeldHas, SMTT(60)
<1>3. /\ ra.output.written \in Nat /\ ra.output.read \in Nat /\ ra.eof \in BOOLEAN
      /\ ra'.eof \in BOOLEAN /\ Core(ra) /\ Capacity \in Nat /\ StreamLen \in Nat
  BY CoreFacts DEF Good, Core, Reassemblers
<1>4. CASE Push
  <2>0. PICK a \in 0 .. StreamLen :
          \E b \in a .. StreamLen : \E eof \in BOOLEAN :
            (eof => b = StreamLen) /\ ra' = push_substring(ra, Slice(a, b), a, eof)
    BY <1>4 DEF Push
  <2>1. PICK b \in a .. StreamLen, eof \in BOOLEAN :
          (eof => b = StreamLen) /\ ra' = push_substring(ra, Slice(a, b), a, eof)
    BY <2>0
  <2>2. a \in Nat /\ b \in Nat /\ a <= b /\ b <= StreamLen
    BY <1>3, SMTT(60)
  <2>3. /\ ra'.output.read = ra.output.read /\ (ra'.eof <=> ra.eof \/ eof)
        /\ \A i \in Nat : Has(ra', i) <=>
             Has(ra, i) \/ (a <= i /\ i < b /\ i < ra.output.read + Capacity)
    BY <1>3, <2>1, <2>2, PushGood, SMTT(60)
  <2>4. Held' = Held \union {i \in a .. (b - 1) : i < ra.output.read + Capacity}
    <3>1. \A i : i \in a .. (b - 1) <=> i \in Nat /\ a <= i /\ i < b
      BY <2>2, SMTT(60)
    <3>2. \A i : i \in Held' <=> i \in Held \union {j \in a .. (b - 1) : j < ra.output.read + Capacity}
      BY <1>2, <2>3, <3>1, ZenonT(60)
    <3> QED BY <3>2
  <2>5. Abstract!Keep(a, b, eof)
    BY <1>3, <2>3, <2>4 DEF Abstract!Keep, Held
  <2> QED BY <2>1, <2>5 DEF Abstract!Next
<1>5. CASE Read
  <2>1. PICK n \in 1 .. buffer_size(ra.output) : ra' = [ra EXCEPT !.output = read(@, n)]
    BY <1>5 DEF Read
  <2>2. /\ ra'.output.read = ra.output.read + n
        /\ n \in Nat /\ 1 <= n /\ n <= ra.output.written - ra.output.read
        /\ ra'.eof = ra.eof /\ ra'.segs = ra.segs /\ ra'.output.written = ra.output.written
    BY <2>1, ReadGood
  <2>3. Held' = Held
    BY <1>1, <2>2 DEF HeldBy
  <2>4. ra'.output.read \in (ra.output.read + 1) .. ra.output.written
    BY <1>3, <2>2
  <2>5. Abstract!Take
    BY <2>2, <2>3, <2>4, WrittenAssembled DEF Abstract!Take, Held
  <2> QED BY <2>5 DEF Abstract!Next
<1> QED BY <1>4, <1>5, SMTT(60) DEF Next

\* The reassembler, with its set of merged segments, implements Reassembly: of
\* every excerpt it keeps exactly the bytes that fit, and it hands on exactly
\* the run of bytes before the first that is missing.
THEOREM ImplementsReassembly == Spec => RefinesReassembly
<1>1. Init => Abstract!Init
  BY DEF Init, Abstract!Init, NewReassembler, NewStream, Pending
<1>2. Good(ra) /\ Good(ra)' /\ [Next]_ra => [Abstract!Next]_(Abstract!vars)
  <2> SUFFICES ASSUME Good(ra), Good(ra)', [Next]_ra PROVE [Abstract!Next]_(Abstract!vars)
    OBVIOUS
  <2>1. CASE Next
    BY <2>1, StepRefines
  <2>2. CASE ra' = ra
    BY <2>2 DEF Abstract!vars, Pending
  <2> QED BY <2>1, <2>2
<1> QED BY <1>1, <1>2, GoodInvariant, PTL DEF Spec, RefinesReassembly, Abstract!Spec
===============================================================================
