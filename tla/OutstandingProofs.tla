--------------------------- MODULE OutstandingProofs ---------------------------
(***************************************************************************)
(* More about TCPSenderSpec: what the sender keeps for retransmission, and *)
(* how far ahead of the acknowledgments it goes.                           *)
(***************************************************************************)
EXTENDS SenderProofs, WrappingProofs

\* A leaf that names no prover is tried with these.
USE SMTT(60), ZenonT(60)

\* The absolute number of a segment, and the first one behind it.
Pos(seg) == unwrap(seg.seqno, Isn, 0)

Stop(seg) == Pos(seg) + length_in_sequence_space(seg)

\* A segment that carries the SYN, or the bytes at its place.
Sane(seg) ==
  /\ seg \in Segments
  /\ Pos(seg) \in Nat /\ seg.seqno = wrap(Pos(seg), Isn)
  /\ Pos(seg) < Stop(seg) /\ Stop(seg) <= StreamLen + 2
  /\ seg.syn <=> Pos(seg) = 0
  /\ Pos(seg) > 0 => seg.payload = Slice(Pos(seg) - 1, (Pos(seg) - 1) + Len(seg.payload))
  /\ Len(seg.payload) <= MAX_PAYLOAD_SIZE

\* Segments that follow each other without a gap.
Chained(q) ==
  /\ q \in Seq(Segments)
  /\ \A i \in 1 .. Len(q) : Sane(q[i])
  /\ \A i \in 1 .. (Len(q) - 1) : Stop(q[i]) = Pos(q[i + 1])

\* They start at lo and end at hi.
Run(q, lo, hi) ==
  /\ Chained(q)
  /\ q # << >> => Pos(q[1]) = lo /\ Stop(q[Len(q)]) = hi
  /\ q = << >> => lo = hi

\* lo is inside the first one.
Linked(q, lo, hi) ==
  /\ Chained(q)
  /\ q # << >> => Pos(q[1]) <= lo /\ lo < Stop(q[1]) /\ Stop(q[Len(q)]) = hi
  /\ q = << >> => lo = hi

\* The last one carries the FIN, if v.
Fins(q, v) == \A i \in 1 .. Len(q) : q[i].fin <=> v /\ i = Len(q)

\* What waits in the stream is the part behind what was read.
Stored(x) ==
  /\ x.stream.buf = Slice(x.stream.read, x.stream.written)
  /\ x.stream.written <= StreamLen /\ x.stream.cap = SendCapacity

\* The inductive invariant, on top of Sound: the outstanding segments lead
\* from the last acknowledgment to the next number.
Held(x) ==
  /\ Stored(x)
  /\ x.window_size \in Nat \ {0} /\ x.send_base \in Nat /\ x.send_base <= x.next_seqno
  /\ ~ x.syn_flag => x.stream.read = 0 /\ ~ x.fin_flag
  /\ Linked(x.copy_segments_out, x.send_base, x.next_seqno)
  /\ Fins(x.copy_segments_out, x.fin_flag)

\* y is x after sending what fits in the window.
Within(x, y) ==
  /\ y.send_base = x.send_base /\ y.window_size = x.window_size
  /\ y.window_size_zero = x.window_size_zero
  /\ y.consecutive_retransmissions = x.consecutive_retransmissions
  /\ x.next_seqno <= y.next_seqno
  /\ x.next_seqno <= x.send_base + x.window_size =>
       y.next_seqno <= x.send_base + x.window_size
-------------------------------------------------------------------------------
\* The positions of the stream are less than half a period apart.
LEMMA Half ==
  /\ StreamLen \in Nat /\ SeqModulus \in Nat /\ SeqModulus > 0
  /\ Isn \in 0 .. (SeqModulus - 1)
  /\ SeqModulus \div 2 \in Nat /\ SeqModulus \div 2 < SeqModulus
  /\ StreamLen + 3 < SeqModulus \div 2
BY ConstantsAssumption, ModuliAssumption

\* unwrap finds the position of a number that the sender or its peer names.
LEMMA Named ==
  ASSUME NEW p \in 0 .. (StreamLen + 3), NEW n \in 0 .. (StreamLen + 2)
  PROVE  unwrap(wrap(p, Isn), Isn, n) = p
<1>1. p \in Nat /\ p < SeqModulus \div 2 + 1 /\ p < SeqModulus /\ n \in Nat
      /\ n < SeqModulus \div 2
  BY Half
<1> QED BY <1>1, Half, FoundNearby

\* A segment numbered p is at p.
LEMMA Numbered ==
  ASSUME NEW seg, NEW p \in 0 .. (StreamLen + 3), seg.seqno = wrap(p, Isn)
  PROVE  Pos(seg) = p
<1>1. 0 \in 0 .. (StreamLen + 2)
  BY Half
<1> QED BY <1>1, Named DEF Pos

\* The length of a segment, and where a sane one is.
LEMMA Lengths ==
  ASSUME NEW seg \in Segments
  PROVE  length_in_sequence_space(seg) \in Nat
<1>1. Len(seg.payload) \in Nat /\ seg.syn \in BOOLEAN /\ seg.fin \in BOOLEAN
  BY DEF Segments
<1> DEFINE m == IF seg.syn THEN 1 ELSE 0
           n == IF seg.fin THEN 1 ELSE 0
<1>2. m \in Nat /\ n \in Nat
  OBVIOUS
<1>3. length_in_sequence_space(seg) = Len(seg.payload) + m + n
  BY DEF length_in_sequence_space
<1> HIDE DEF m, n
<1> QED BY <1>1, <1>2, <1>3

LEMMA Places ==
  ASSUME NEW seg, Sane(seg)
  PROVE  /\ Pos(seg) \in Nat /\ Stop(seg) \in Nat /\ Pos(seg) < Stop(seg)
         /\ Stop(seg) <= StreamLen + 2 /\ seg.seqno = wrap(Pos(seg), Isn)
<1>1. seg \in Segments /\ Pos(seg) \in Nat
  BY DEF Sane
<1>2. Stop(seg) \in Nat
  BY <1>1, Lengths DEF Stop
<1> QED BY <1>1, <1>2 DEF Sane

\* Whatever the checkpoint.
LEMMA Anywhere ==
  ASSUME NEW seg, Sane(seg), NEW n \in 0 .. (StreamLen + 2)
  PROVE  unwrap(seg.seqno, Isn, n) = Pos(seg)
<1> DEFINE p == Pos(seg)
<1>1. p \in Nat /\ p < Stop(seg) /\ Stop(seg) <= StreamLen + 2 /\ seg.seqno = wrap(p, Isn)
      /\ Stop(seg) \in Int
  BY Places
<1> HIDE DEF p
<1>2. p \in 0 .. (StreamLen + 3)
  BY <1>1, Half
<1>3. unwrap(wrap(p, Isn), Isn, n) = p
  BY <1>2, Named
<1> QED BY <1>1, <1>3 DEF p

\* A run that starts where another one ends continues it.
LEMMA Continued ==
  ASSUME NEW q, NEW lo \in Nat, NEW mid \in Nat, NEW hi \in Nat, Linked(q, lo, mid),
         NEW segs, Run(segs, mid, hi)
  PROVE  Linked(q \o segs, lo, hi)
<1> DEFINE m == Len(q)
           n == Len(segs)
           r == q \o segs
<1>1. q \in Seq(Segments) /\ segs \in Seq(Segments) /\ m \in Nat /\ n \in Nat
  BY DEF Linked, Run, Chained
<1>2. r \in Seq(Segments) /\ Len(r) = m + n
  BY <1>1
<1>3. /\ \A i \in 1 .. m : r[i] = q[i]
      /\ \A i \in (m + 1) .. (m + n) : r[i] = segs[i - m]
  BY <1>1
<1> HIDE DEF r
<1>4. ASSUME NEW i \in 1 .. Len(r) PROVE Sane(r[i])
  <2>1. CASE i \in 1 .. m
    BY <1>3, <2>1 DEF Linked, Chained
  <2>2. CASE i \in (m + 1) .. (m + n)
    <3>1. i - m \in 1 .. n
      BY <1>1, <2>2
    <3> QED BY <1>3, <2>2, <3>1 DEF Run, Chained
  <2> QED BY <1>1, <1>2, <2>1, <2>2
<1>5. ASSUME NEW i \in 1 .. (Len(r) - 1) PROVE Stop(r[i]) = Pos(r[i + 1])
  <2>1. CASE i < m
    <3>1. i \in 1 .. (m - 1) /\ i \in 1 .. m /\ i + 1 \in 1 .. m
      BY <1>1, <2>1
    <3> QED BY <1>3, <3>1 DEF Linked, Chained
  <2>2. CASE i = m
    <3>1. m \in 1 .. m /\ m + 1 \in (m + 1) .. (m + n) /\ (m + 1) - m = 1 /\ n > 0 /\ m > 0
      BY <1>1, <1>2, <2>2
    <3>2. q # << >> /\ segs # << >>
      BY <3>1
    <3>3. Stop(q[m]) = mid /\ Pos(segs[1]) = mid
      BY <3>2 DEF Linked, Run
    <3> QED BY <1>3, <2>2, <3>1, <3>3
  <2>3. CASE i > m
    <3>1. /\ i \in (m + 1) .. (m + n) /\ i + 1 \in (m + 1) .. (m + n)
          /\ i - m \in 1 .. (n - 1) /\ (i + 1) - m = (i - m) + 1
      BY <1>1, <1>2, <2>3
    <3> QED BY <1>3, <3>1, SMTT(60) DEF Run, Chained
  <2> QED BY <1>1, <2>1, <2>2, <2>3
<1>6. Chained(r)
  BY <1>2, <1>4, <1>5 DEF Chained
<1>7. CASE segs = << >>
  <2>1. r = q /\ mid = hi
    BY <1>1, <1>7 DEF r, Run
  <2> QED BY <2>1 DEF r
<1>8. CASE segs # << >> /\ q = << >>
  <2>1. r = segs /\ lo = mid /\ Pos(segs[1]) = mid /\ Stop(segs[n]) = hi /\ n >= 1
    BY <1>1, <1>8 DEF r, Run, Linked
  <2>2. Pos(segs[1]) < Stop(segs[1])
    BY <1>1, <2>1 DEF Run, Chained, Sane
  <2> QED BY <1>6, <1>8, <2>1, <2>2 DEF Linked, r
<1>9. CASE segs # << >> /\ q # << >>
  <2>1. n >= 1 /\ m >= 1
    BY <1>1, <1>9
  <2>2. /\ r[1] = q[1] /\ r[m + n] = segs[n] /\ r # << >>
    <3>1. m + n \in (m + 1) .. (m + n) /\ (m + n) - m = n /\ 1 \in 1 .. m
      BY <1>1, <2>1
    <3> QED BY <1>1, <1>2, <1>3, <2>1, <3>1, SMTT(60)
  <2>3. Pos(q[1]) <= lo /\ lo < Stop(q[1]) /\ Stop(segs[n]) = hi
    BY <1>9 DEF Run, Linked
  <2> QED BY <1>2, <1>6, <2>2, <2>3 DEF Linked, r
<1> QED BY <1>7, <1>8, <1>9

\* The FIN comes last.
LEMMA FinsContinued ==
  ASSUME NEW q \in Seq(Segments), Fins(q, FALSE), NEW segs \in Seq(Segments),
         NEW v \in BOOLEAN, Fins(segs, v), v => segs # << >>
  PROVE  Fins(q \o segs, v)
<1> DEFINE m == Len(q)
           n == Len(segs)
           r == q \o segs
<1>1. m \in Nat /\ n \in Nat /\ Len(r) = m + n
  OBVIOUS
<1>2. /\ \A i \in 1 .. m : r[i] = q[i]
      /\ \A i \in (m + 1) .. (m + n) : r[i] = segs[i - m]
  OBVIOUS
<1> HIDE DEF r
<1>3. v => n > 0
  BY <1>1
<1>4. ASSUME NEW i \in 1 .. Len(r) PROVE r[i].fin <=> v /\ i = Len(r)
  <2>1. CASE i \in 1 .. m
    <3>1. ~ q[i].fin
      BY <2>1 DEF Fins
    <3>2. v => i # Len(r)
      BY <1>1, <1>3, <2>1
    <3> QED BY <1>2, <2>1, <3>1, <3>2
  <2>2. CASE i \in (m + 1) .. (m + n)
    <3>1. i - m \in 1 .. n /\ (i - m = n <=> i = Len(r))
      BY <1>1, <2>2
    <3>2. segs[i - m].fin <=> v /\ i - m = n
      BY <3>1 DEF Fins
    <3> QED BY <1>2, <2>2, <3>1, <3>2
  <2> QED BY <1>1, <2>1, <2>2
<1> QED BY <1>4 DEF Fins, r

\* What is behind an acknowledgment is linked to it: the popping of
\* ack_received.
LEMMA Popped ==
  ASSUME NEW x, IsSender(x), NEW lo \in Nat, Linked(x.copy_segments_out, lo, x.next_seqno),
         x.next_seqno \in 0 .. (StreamLen + 2), Fins(x.copy_segments_out, x.fin_flag),
         NEW a \in Nat, lo <= a, a <= x.next_seqno
  PROVE  /\ Linked(Unacknowledged(x, a), a, x.next_seqno)
         /\ Fins(Unacknowledged(x, a), x.fin_flag)
<1> DEFINE q == x.copy_segments_out
           n == Len(q)
           hi == x.next_seqno
           Open(i) == a < unwrap(q[i].seqno, x.isn, hi) + length_in_sequence_space(q[i])
           I == {i \in 1 .. n : Open(i)}
           P(i) == (i <= n => Open(i)) /\ \A j \in 1 .. (i - 1) : ~ Open(j)
           first == CHOOSE i \in 1 .. (n + 1) : P(i)
           r == SubSeq(q, first, n)
<1>1. q \in Seq(Segments) /\ n \in Nat /\ Linked(q, lo, hi) /\ x.isn = Isn
      /\ \A i \in 1 .. n : Sane(q[i])
  BY DEF IsSender, Linked, Chained
<1>2. Unacknowledged(x, a) = r
  BY DEF Unacknowledged
<1>3. \A i \in 1 .. n : Open(i) <=> a < Stop(q[i])
  <2> TAKE i \in 1 .. n
  <2>1. unwrap(q[i].seqno, Isn, hi) = Pos(q[i])
    BY <1>1, Anywhere
  <2> QED BY <1>1, <2>1 DEF Stop
<1> HIDE DEF q, Open, hi
<1>4. first \in 1 .. (n + 1) /\ P(first)
  <2>1. PICK i \in 1 .. (n + 1) : (i <= n => i \in I) /\ \A j \in 1 .. (i - 1) : j \notin I
    <3>1. I \in SUBSET (1 .. n)
      OBVIOUS
    <3> HIDE DEF I, n
    <3> QED BY <1>1, <3>1, FirstOne, ZenonT(60)
  <2>2. P(i)
    BY <1>1, <2>1
  <2> HIDE DEF P
  <2> QED BY <2>2
<1>5. first \in Nat /\ first >= 1 /\ first <= n + 1 /\ (first <= n => a < Stop(q[first]))
      /\ \A j \in 1 .. n : j < first => ~ (a < Stop(q[j]))
  BY <1>1, <1>3, <1>4, SMTT(60)
<1> HIDE DEF first, P
<1>6. /\ r \in Seq(Segments) /\ Len(r) = (n + 1) - first
      /\ \A i \in 1 .. Len(r) : r[i] = q[(first - 1) + i]
  <2>1. r \in Seq(Segments) /\ Len(r) = (n + 1) - first
    BY <1>1, <1>5
  <2>2. ASSUME NEW i \in 1 .. Len(r) PROVE r[i] = q[(first - 1) + i]
    BY <1>1, <1>5, <2>1
  <2> QED BY <2>1, <2>2, SMTT(60)
<1> HIDE DEF r
<1>7. ASSUME NEW i \in 1 .. Len(r)
      PROVE  (first - 1) + i \in 1 .. n /\ (i = Len(r) <=> (first - 1) + i = n)
  BY <1>1, <1>5, <1>6
<1>8. Chained(r)
  <2>1. ASSUME NEW i \in 1 .. Len(r) PROVE Sane(r[i])
    BY <1>1, <1>6, <1>7, SMTT(60)
  <2>2. ASSUME NEW i \in 1 .. (Len(r) - 1) PROVE Stop(r[i]) = Pos(r[i + 1])
    <3> DEFINE k == (first - 1) + i
    <3>1. /\ k \in 1 .. (n - 1) /\ i \in 1 .. Len(r) /\ i + 1 \in 1 .. Len(r)
          /\ (first - 1) + (i + 1) = k + 1
      <4> DEFINE l == Len(r)
      <4>1. l = (n + 1) - first /\ i \in 1 .. (l - 1)
        BY <1>6
      <4> HIDE DEF l, n
      <4> QED BY <1>1, <1>5, <4>1 DEF l
    <3>2. r[i] = q[k] /\ r[i + 1] = q[k + 1]
      BY <1>6, <3>1, SMTT(60)
    <3> HIDE DEF k
    <3> QED BY <1>1, <3>1, <3>2 DEF Linked, Chained
  <2> QED BY <1>6, <2>1, <2>2 DEF Chained
<1>9. \A i \in 1 .. n : Pos(q[i]) \in Nat /\ Stop(q[i]) \in Nat
  BY <1>1, Places
<1>10. hi \in Nat /\ a <= hi
  BY Half DEF hi
<1>11. Linked(r, a, hi)
  <2>1. CASE first = n + 1
    <3>1. r = << >>
      BY <1>1, <1>6, <2>1
    <3>2. a = hi
      <4>1. CASE q = << >>
        BY <1>1, <1>10, <4>1 DEF Linked
      <4>2. CASE q # << >>
        <5>1. n \in 1 .. n /\ n < first
          BY <1>1, <2>1, <4>2
        <5>2. Stop(q[n]) = hi
          BY <1>1, <4>2 DEF Linked
        <5> QED BY <1>5, <1>10, <5>1, <5>2
      <4> QED BY <4>1, <4>2
    <3> QED BY <1>8, <3>1, <3>2 DEF Linked
  <2>2. CASE first <= n
    <3>1. r # << >> /\ 1 \in 1 .. Len(r) /\ Len(r) \in 1 .. Len(r) /\ first \in 1 .. n
      BY <1>1, <1>5, <1>6, <2>2
    <3>2. r[1] = q[first] /\ r[Len(r)] = q[n] /\ q # << >>
      <4>1. (first - 1) + 1 = first /\ (first - 1) + Len(r) = n
        BY <1>1, <1>5, <1>6
      <4> QED BY <1>1, <1>6, <3>1, <4>1
    <3>3. Stop(q[n]) = hi
      BY <1>1, <3>2 DEF Linked
    <3>4. Pos(q[first]) <= a
      <4>1. CASE first = 1
        <5>1. Pos(q[1]) <= lo
          BY <1>1, <3>2 DEF Linked
        <5>2. Pos(q[1]) \in Nat
          BY <1>9, <3>1, <4>1
        <5> QED BY <4>1, <5>1, <5>2
      <4>2. CASE first # 1
        <5> DEFINE k == first - 1
        <5>1. k \in 1 .. (n - 1) /\ k \in 1 .. n /\ k + 1 = first /\ k < first
          BY <1>1, <1>5, <3>1, <4>2
        <5> HIDE DEF k
        <5>2. Stop(q[k]) = Pos(q[k + 1])
          BY <1>1, <5>1 DEF Linked, Chained
        <5>3. ~ (a < Stop(q[k])) /\ Stop(q[k]) \in Nat
          BY <1>5, <1>9, <5>1
        <5> QED BY <5>1, <5>2, <5>3
      <4> QED BY <4>1, <4>2
    <3>5. a < Stop(q[first])
      BY <1>5, <2>2
    <3> QED BY <1>8, <3>1, <3>2, <3>3, <3>4, <3>5 DEF Linked
  <2> QED BY <1>1, <1>5, <2>1, <2>2
<1>12. Fins(r, x.fin_flag)
  <2>1. Fins(q, x.fin_flag)
    BY DEF q
  <2>2. ASSUME NEW i \in 1 .. Len(r) PROVE r[i].fin <=> x.fin_flag /\ i = Len(r)
    BY <1>6, <1>7, <2>1, SMTT(60) DEF Fins
  <2> QED BY <2>2 DEF Fins
<1> QED BY <1>2, <1>11, <1>12 DEF hi
-------------------------------------------------------------------------------
\* Multiples of the payload size.
LEMMA PayloadMultiples ==
  ASSUME NEW a \in Int, NEW b \in Int
  PROVE  /\ a * MAX_PAYLOAD_SIZE \in Int
         /\ a <= b => a * MAX_PAYLOAD_SIZE <= b * MAX_PAYLOAD_SIZE
         /\ (a - 1) * MAX_PAYLOAD_SIZE = a * MAX_PAYLOAD_SIZE - MAX_PAYLOAD_SIZE
BY PayloadAssumption

\* How often the payload size goes into a number.
LEMMA PayloadShare ==
  ASSUME NEW t \in Int
  PROVE  LET n == t \div MAX_PAYLOAD_SIZE
         IN  /\ n \in Int /\ n * MAX_PAYLOAD_SIZE <= t
             /\ t < n * MAX_PAYLOAD_SIZE + MAX_PAYLOAD_SIZE
BY PayloadAssumption

\* The cuts of fill_window: pieces of at most the payload size, none empty,
\* from 0 to the total.
LEMMA CutsApart ==
  ASSUME NEW total \in Nat, NEW n \in Nat,
         n = (total + MAX_PAYLOAD_SIZE - 1) \div MAX_PAYLOAD_SIZE
  PROVE  LET Cut(k) == Least(k * MAX_PAYLOAD_SIZE, total)
         IN  /\ \A k \in 1 .. n :
                  /\ Cut(k - 1) \in Nat /\ Cut(k) \in Nat /\ Cut(k - 1) < Cut(k)
                  /\ Cut(k) - Cut(k - 1) <= MAX_PAYLOAD_SIZE /\ Cut(k) <= total
             /\ Cut(0) = 0 /\ Cut(n) = total
             /\ n = 0 <=> total = 0
<1> DEFINE M == MAX_PAYLOAD_SIZE
           Cut(k) == Least(k * M, total)
           t == total + M - 1
           N == n * M
<1>1. M \in Nat /\ M >= 1
  BY PayloadAssumption
<1>2. N \in Int /\ N <= t /\ t < N + M
  <2>1. t \in Int
    BY <1>1
  <2>2. n = t \div M
    OBVIOUS
  <2> HIDE DEF t
  <2>3. t \div M \in Int /\ (t \div M) * M <= t /\ t < (t \div M) * M + M
    BY <2>1, PayloadShare
  <2>4. N = (t \div M) * M
    BY <2>2
  <2> QED BY <1>1, <2>2, <2>3, <2>4
<1>3. total <= N /\ (N - M) + 1 <= total
  BY <1>1, <1>2
<1>4. ASSUME NEW k \in 1 .. n
      PROVE  /\ Cut(k - 1) \in Nat /\ Cut(k) \in Nat /\ Cut(k - 1) < Cut(k)
             /\ Cut(k) - Cut(k - 1) <= M /\ Cut(k) <= total
  <2> DEFINE K == k * M
             J == (k - 1) * M
             Z == 0 * M
  <2>1. K \in Int /\ J \in Int /\ J = K - M /\ K <= N
    BY PayloadMultiples
  <2>2. Z <= J /\ Z = 0
    <3>1. 0 <= k - 1 /\ k - 1 \in Int
      OBVIOUS
    <3>2. Z <= J
      BY <3>1, PayloadMultiples
    <3> QED BY <1>1, <3>2
  <2> HIDE DEF K, J, N, M, Z
  <2>3. J >= 0 /\ J < total
    BY <1>1, <1>2, <1>3, <2>1, <2>2
  <2>4. Cut(k - 1) = J /\ Cut(k) = IF K <= total THEN K ELSE total
    BY <2>1, <2>3 DEF Least, J, K
  <2> HIDE DEF Cut
  <2> QED BY <1>1, <2>1, <2>3, <2>4
<1>5. Cut(0) = 0
  <2>1. 0 * M = 0
    BY <1>1
  <2> QED BY <2>1 DEF Least
<1>6. Cut(n) = total
  BY <1>2, <1>3 DEF Least
<1>7. n = 0 <=> total = 0
  <2>1. n = 0 => N = 0
    BY <1>1
  <2>2. n >= 1 => 1 * M <= N
    BY PayloadMultiples
  <2>3. 1 * M = M
    BY <1>1
  <2> HIDE DEF N
  <2> QED BY <1>1, <1>2, <1>3, <2>1, <2>2, <2>3
<1> QED BY <1>4, <1>5, <1>6, <1>7

\* Excerpts of a stream.
LEMMA Excerpts ==
  ASSUME NEW a \in Nat, NEW b \in Nat, a <= b
  PROVE  /\ Slice(a, b) \in Seq(Int) /\ Len(Slice(a, b)) = b - a
         /\ \A c \in Nat : b <= c => Slice(a, b) \o Slice(b, c) = Slice(a, c)
         /\ Slice(a, a) = << >>
<1>1. Slice(a, b) \in Seq(Int) /\ Len(Slice(a, b)) = b - a
  BY DEF Slice
<1>2. \A c \in Nat : b <= c => Slice(a, b) \o Slice(b, c) = Slice(a, c)
  BY DEF Slice
<1>3. Slice(a, a) = << >>
  BY DEF Slice
<1> QED BY <1>1, <1>2, <1>3, SMTT(60)

\* A segment with the bytes c to d behind the number next.
Piece(seg, next, c, d) ==
  /\ seg \in Segments /\ seg.syn = FALSE
  /\ seg.seqno = wrap(next + c, Isn)
  /\ seg.payload = Slice((next - 1) + c, (next - 1) + d)

\* It is one that can be sent, given that its end takes one more number or none.
Fits(seg, next, c, d, one) ==
  /\ next \in Nat /\ next > 0 /\ c \in Nat /\ d \in Nat /\ c <= d
  /\ d - c <= MAX_PAYLOAD_SIZE /\ one \in 0 .. 1 /\ (one = 1 <=> seg.fin) /\ c < d + one
  /\ next + d + one <= StreamLen + 2 /\ Piece(seg, next, c, d)

LEMMA PieceSane ==
  ASSUME NEW seg, NEW next, NEW c, NEW d, NEW one, Fits(seg, next, c, d, one)
  PROVE  Sane(seg) /\ Pos(seg) = next + c /\ Stop(seg) = next + d + one
<1> USE DEF Fits
<1> DEFINE p    == next + c
           lo   == (next - 1) + c
           up   == (next - 1) + d
           data == seg.payload
<1>1. /\ seg \in Segments /\ seg.syn = FALSE
      /\ seg.seqno = wrap(p, Isn) /\ data = Slice(lo, up)
  BY DEF Piece
<1>2. one = IF seg.fin THEN 1 ELSE 0
  <2>1. seg.fin \in BOOLEAN
    BY <1>1 DEF Segments
  <2> QED BY <2>1
<1>4. lo \in Nat /\ up \in Nat /\ lo <= up /\ up - lo = d - c
  OBVIOUS
<1>5. p \in 0 .. (StreamLen + 3) /\ p \in Nat /\ p > 0 /\ p - 1 = lo /\ p + (d - c) = next + d
      /\ p < next + d + one
  BY Half
<1> HIDE DEF p, lo, up, data
<1>6. data \in Seq(Int) /\ Len(data) = d - c
  BY <1>1, <1>4, Excerpts, ZenonT(60)
<1>7. Pos(seg) = p
  BY <1>1, <1>5, Numbered
<1>8. length_in_sequence_space(seg) = (d - c) + one
  <2>1. length_in_sequence_space(seg) = Len(data) + 0 + one
    BY <1>1, <1>2, ZenonT(60) DEF length_in_sequence_space, data
  <2> QED BY <1>6, <2>1
<1>9. Stop(seg) = next + d + one
  BY <1>5, <1>7, <1>8 DEF Stop
<1>10. lo + Len(data) = up
  BY <1>4, <1>6
<1>11. Sane(seg)
  <2>1. data = Slice(Pos(seg) - 1, (Pos(seg) - 1) + Len(data)) /\ Len(data) <= MAX_PAYLOAD_SIZE
    BY <1>1, <1>5, <1>6, <1>7, <1>10, SMTT(60)
  <2>2. /\ Pos(seg) \in Nat /\ Pos(seg) # 0 /\ seg.seqno = wrap(Pos(seg), Isn)
        /\ Pos(seg) < Stop(seg) /\ Stop(seg) <= StreamLen + 2
    BY <1>1, <1>5, <1>7, <1>9
  <2> QED BY <1>1, <2>1, <2>2 DEF Sane, data
<1> QED BY <1>7, <1>9, <1>11 DEF p

\* The pieces between the cuts, of which the last one may carry the FIN.
Pieces(segs, next, n, cut, total, fin, one) ==
  /\ n \in Nat /\ cut \in [0 .. n -> Nat] /\ total \in Nat /\ cut[0] = 0 /\ cut[n] = total
  /\ \A k \in 1 .. n : /\ cut[k - 1] < cut[k] /\ cut[k] <= total
                       /\ cut[k] - cut[k - 1] <= MAX_PAYLOAD_SIZE
  /\ next \in Nat /\ next > 0 /\ next + total <= StreamLen + 1
  /\ segs \in Seq(Segments) /\ Len(segs) = n
  /\ \A k \in 1 .. n : Piece(segs[k], next, cut[k - 1], cut[k])
  /\ fin \in BOOLEAN /\ Fins(segs, fin) /\ (fin => n > 0) /\ one \in 0 .. 1 /\ (one = 1 <=> fin)

\* They are a run.
LEMMA PiecesRun ==
  ASSUME NEW segs, NEW next, NEW n, NEW cut, NEW total, NEW fin, NEW one,
         Pieces(segs, next, n, cut, total, fin, one)
  PROVE  Run(segs, next, next + total + one)
<1> USE DEF Pieces
<1> DEFINE hi == next + total + one
<1>1. ASSUME NEW k \in 1 .. n
      PROVE  /\ Sane(segs[k]) /\ Pos(segs[k]) = next + cut[k - 1]
             /\ Stop(segs[k]) = next + cut[k] + (IF k = n THEN one ELSE 0)
  <2> DEFINE c   == cut[k - 1]
             d   == cut[k]
             seg == segs[k]
             add == IF k = n THEN one ELSE 0
  <2>1. k - 1 \in 0 .. n /\ k \in 0 .. n
    OBVIOUS
  <2>2. c \in Nat /\ d \in Nat /\ c < d /\ d - c <= MAX_PAYLOAD_SIZE /\ d <= total
    BY <2>1
  <2>3. Piece(seg, next, c, d)
    OBVIOUS
  <2>4. add \in 0 .. 1 /\ (add = 1 <=> seg.fin)
    <3>1. seg.fin <=> (fin /\ k = n)
      BY DEF Fins
    <3> HIDE DEF seg
    <3>2. CASE k = n
      BY <3>1, <3>2
    <3>3. CASE k # n
      BY <3>1, <3>3
    <3> QED BY <3>2, <3>3, ZenonT(60)
  <2> HIDE DEF c, d, seg, add
  <2>5. next + d + add <= StreamLen + 2 /\ c <= d /\ c < d + add
    BY <2>2, <2>4, Half
  <2>6. Sane(seg) /\ Pos(seg) = next + c /\ Stop(seg) = next + d + add
    <3>1. Fits(seg, next, c, d, add)
      BY <2>2, <2>3, <2>4, <2>5 DEF Fits
    <3> QED BY <3>1, PieceSane
  <2> QED BY <2>6 DEF c, d, seg, add
<1>2. ASSUME NEW i \in 1 .. (n - 1) PROVE Stop(segs[i]) = Pos(segs[i + 1])
  <2>1. i \in 1 .. n /\ i + 1 \in 1 .. n /\ i # n /\ (i + 1) - 1 = i /\ i \in 0 .. n
    OBVIOUS
  <2>2. Stop(segs[i]) = next + cut[i] + 0 /\ cut[i] \in Nat
    BY <1>1, <2>1, ZenonT(60)
  <2>3. Pos(segs[i + 1]) = next + cut[i]
    BY <1>1, <2>1
  <2> QED BY <2>2, <2>3
<1>3. Chained(segs)
  BY <1>1, <1>2 DEF Chained
<1>4. ASSUME n # 0 PROVE Pos(segs[1]) = next /\ Stop(segs[n]) = hi
  <2>1. 1 \in 1 .. n /\ n \in 1 .. n /\ 1 - 1 = 0
    BY <1>4
  <2>2. Pos(segs[1]) = next + cut[0]
    BY <1>1, <2>1
  <2>3. Stop(segs[n]) = next + cut[n] + one
    BY <1>1, <2>1
  <2> QED BY <2>2, <2>3
<1>5. n = 0 => next = hi
  OBVIOUS
<1>6. segs = << >> <=> n = 0
  OBVIOUS
<1>7. Run(segs, next, hi)
  BY <1>3, <1>4, <1>5, <1>6 DEF Run
<1> QED BY <1>7

-------------------------------------------------------------------------------
\* The numbers of a sender whose stream is at most StreamLen long.
LEMMA NumbersBounded ==
  ASSUME NEW x, IsSender(x), Counted(x), Stored(x)
  PROVE  /\ x.next_seqno \in Nat /\ x.next_seqno \in 0 .. (StreamLen + 2)
         /\ x.stream.read \in Nat /\ x.stream.written \in Nat
         /\ x.stream.read <= x.stream.written
<1> DEFINE b == x.stream
           m == IF x.syn_flag THEN 1 ELSE 0
           n == IF x.fin_flag THEN 1 ELSE 0
<1>1. IsStream(b) /\ b.written <= StreamLen
  BY DEF IsSender, Stored
<1>2. b.read \in Nat /\ b.written \in Nat /\ Len(b.buf) = b.written - b.read /\ Len(b.buf) \in Nat
  BY <1>1 DEF IsStream
<1>3. x.next_seqno = b.read + m + n /\ m \in 0 .. 1 /\ n \in 0 .. 1
  BY DEF Counted
<1> HIDE DEF b, m, n
<1>4. x.next_seqno \in Nat /\ x.next_seqno \in 0 .. (StreamLen + 2) /\ b.read <= b.written
  BY <1>1, <1>2, <1>3, Half, SMTT(60)
<1> QED BY <1>2, <1>4 DEF b

\* What continues the outstanding segments keeps the invariant.
LEMMA Extends ==
  ASSUME NEW x, IsSender(x), Counted(x), Held(x), x.fin_flag = FALSE,
         NEW y, IsSender(y), Counted(y), Stored(y), y.syn_flag = TRUE, Within(x, y),
         NEW segs, y.copy_segments_out = x.copy_segments_out \o segs,
         Run(segs, x.next_seqno, y.next_seqno),
         Fins(segs, y.fin_flag), y.fin_flag => segs # << >>
  PROVE  Held(y)
<1>1. x.next_seqno \in Nat /\ y.next_seqno \in Nat /\ x.send_base \in Nat
  BY NumbersBounded DEF Held
<1>2. y.send_base = x.send_base /\ y.window_size = x.window_size
      /\ x.next_seqno <= y.next_seqno
  BY DEF Within
<1>3. Linked(y.copy_segments_out, x.send_base, y.next_seqno)
  BY <1>1, Continued, SMTT(60) DEF Held
<1>4. Fins(y.copy_segments_out, y.fin_flag)
  <2>1. segs \in Seq(Segments) /\ x.copy_segments_out \in Seq(Segments) /\ y.fin_flag \in BOOLEAN
    BY DEF Run, Chained, IsSender
  <2>2. Fins(x.copy_segments_out, FALSE)
    BY ZenonT(60) DEF Held
  <2> QED BY <2>1, <2>2, FinsContinued, ZenonT(60)
<1>5. y.send_base <= y.next_seqno
  BY <1>1, <1>2 DEF Held
<1> QED BY <1>2, <1>3, <1>4, <1>5 DEF Held

\* The free part of the window is within the window.
LEMMA Room ==
  ASSUME NEW x, IsSender(x)
  PROVE  /\ Remaining(x) \in Nat
         /\ x.next_seqno <= x.send_base + x.window_size =>
              x.next_seqno + Remaining(x) <= x.send_base + x.window_size
<1> DEFINE d == x.window_size - (x.next_seqno - x.send_base)
<1>1. x.next_seqno \in Int /\ x.send_base \in Int /\ x.window_size \in Int /\ d \in Int
  BY DEF IsSender
<1>2. Remaining(x) = d % AbsModulus
  BY DEF Remaining, bytes_in_flight
<1>3. AbsModulus \in Nat /\ AbsModulus > 0
  BY ModuliAssumption
<1>4. x.next_seqno <= x.send_base + x.window_size <=> 0 <= d
  BY <1>1
<1>5. d + x.next_seqno = x.send_base + x.window_size
  BY <1>1
<1> HIDE DEF d
<1>6. d % AbsModulus \in Nat /\ (0 <= d => d % AbsModulus <= d)
  BY <1>1, <1>3
<1> HIDE DEF Remaining
<1> QED BY <1>1, <1>2, <1>4, <1>5, <1>6, SMTT(60)

\* Reading from the front of what waits leaves the part behind it.
LEMMA StillStored ==
  ASSUME NEW b, IsStream(b), b.buf = Slice(b.read, b.written), NEW n \in 0 .. Len(b.buf)
  PROVE  read(b, n).buf = Slice(b.read + n, b.written)
<1> DEFINE lo == b.read
           up == b.written
           left == SubSeq(b.buf, n + 1, Len(b.buf))
<1>1. lo \in Nat /\ up \in Nat /\ Len(b.buf) = up - lo /\ Len(b.buf) \in Nat
  BY DEF IsStream
<1>2. read(b, n).buf = left
  BY ReadBytes
<1>3. left = SubSeq(Slice(lo, up), n + 1, up - lo)
  BY <1>1
<1>4. n \in 0 .. (up - lo) /\ lo <= up
  BY <1>1
<1> HIDE DEF lo, up, left
<1>5. SubSeq(Slice(lo, up), n + 1, up - lo) = Slice(lo + n, up)
  BY <1>1, <1>4 DEF Slice
<1> QED BY <1>2, <1>3, <1>5 DEF lo, up

\* The loop of fill_window keeps the invariant, and within the window.
LEMMA PayloadHeld ==
  ASSUME NEW x, IsSender(x), Counted(x), Held(x), x.fin_flag = FALSE, x.syn_flag = TRUE,
         Len(x.stream.buf) > 0
  PROVE  Held(fill_payload(x)) /\ Within(x, fill_payload(x))
<1> DEFINE b      == x.stream
           next   == x.next_seqno
           rem    == Remaining(x)
           total  == Least(rem, buffer_size(b))
           Cut(k) == Least(k * MAX_PAYLOAD_SIZE, total)
           n      == (total + MAX_PAYLOAD_SIZE - 1) \div MAX_PAYLOAD_SIZE
           rest   == read(b, total)
           fin    == at_eof(rest) /\ total + 1 <= rem
           Seg(k) == [NewSegment EXCEPT
                        !.seqno   = wrap(next + Cut(k - 1), x.isn),
                        !.fin     = fin /\ k = n,
                        !.payload = SubSeq(b.buf, Cut(k - 1) + 1, Cut(k))]
           segs   == [k \in 1 .. n |-> Seg(k)]
           used   == IF fin THEN total + 1 ELSE total
           flag   == x.fin_flag \/ fin
           z      == [x EXCEPT !.stream = rest, !.fin_flag = flag]
           y      == send_segments(z, segs, used)
<1>1. fill_payload(x) = y
  BY DEF fill_payload
<1>2. IsSender(fill_payload(x)) /\ Counted(fill_payload(x))
  BY FilledPayload, ZenonT(60)
<1>3. /\ b.buf \in Seq(Int) /\ Len(b.buf) \in Nat /\ IsStream(b) /\ Len(b.buf) = b.written - b.read
      /\ b.buf = Slice(b.read, b.written) /\ b.written <= StreamLen /\ b.cap = SendCapacity
      /\ b.read \in Nat /\ b.written \in Nat /\ b.read <= b.written /\ Len(b.buf) > 0
  BY NumbersBounded, SMTT(60) DEF IsSender, IsStream, Held, Stored
<1>4. rem \in Nat /\ (next <= x.send_base + x.window_size =>
                        next + rem <= x.send_base + x.window_size)
  BY Room
<1>5. total \in 0 .. Len(b.buf) /\ total <= rem /\ total \in Nat
  BY <1>3, <1>4 DEF Least, buffer_size
<1>6. n \in Nat
  BY <1>5, PayloadAssumption, SMTT(60), Zenon
<1>7. /\ IsStream(rest) /\ rest.read = b.read + total /\ rest.written = b.written
      /\ rest.eof = b.eof /\ rest.cap = b.cap /\ Len(rest.buf) = Len(b.buf) - total
  BY <1>3, <1>5, ReadBytes, ZenonT(60)
<1>8. rest.buf = Slice(rest.read, rest.written)
  BY <1>3, <1>5, <1>7, StillStored, ZenonT(60)
<1>9. fin \in BOOLEAN /\ flag \in BOOLEAN /\ flag = fin
  BY DEF at_eof
<1>10. fin => total > 0 /\ total + 1 <= rem
  <2>1. fin => Len(rest.buf) = 0 /\ total + 1 <= rem
    BY SMTT(60) DEF at_eof, buffer_empty, buffer_size
  <2> HIDE DEF fin, rest, total
  <2> QED BY <1>3, <1>5, <1>7, <2>1, SMTT(60)
<1>11. next = b.read + 1 /\ next \in Nat
  BY <1>3, NumbersBounded DEF Counted
<1>12. n = (total + MAX_PAYLOAD_SIZE - 1) \div MAX_PAYLOAD_SIZE
  OBVIOUS
<1>13. x.isn = Isn
  BY SMTT(60) DEF IsSender
<1> HIDE DEF rem, total, n, rest, fin, b, next
<1>14. /\ \A k \in 1 .. n :
            /\ Cut(k - 1) \in Nat /\ Cut(k) \in Nat /\ Cut(k - 1) < Cut(k)
            /\ Cut(k) - Cut(k - 1) <= MAX_PAYLOAD_SIZE /\ Cut(k) <= total
       /\ Cut(0) = 0 /\ Cut(n) = total
       /\ n = 0 <=> total = 0
  BY <1>5, <1>6, <1>12, CutsApart, SMTT(60)
<1> HIDE DEF Cut
<1>15. ASSUME NEW k \in 1 .. n 
       PROVE  Piece(Seg(k), next, Cut(k - 1), Cut(k)) /\ Seg(k).fin = (fin /\ k = n)
  <2> DEFINE c == Cut(k - 1)
             d == Cut(k)
             v == fin /\ k = n
             rd == b.read
             wr == b.written
             num == wrap(next + c, x.isn)
             data == SubSeq(b.buf, c + 1, d)
             new == NewSegment
             lo == (next - 1) + c
             up == (next - 1) + d
  <2>1. c \in Nat /\ d \in Nat /\ c <= d /\ d <= wr - rd /\ v \in BOOLEAN
    BY <1>3, <1>5, <1>9, <1>14, SMTT(60)
  <2>2. new \in Segments /\ new.syn = FALSE
    BY DEF NewSegment, Segments
  <2>3. Seg(k) = [new EXCEPT !.seqno = num, !.fin = v, !.payload = data]
    OBVIOUS
  <2>4. rd \in Nat /\ wr \in Nat /\ rd <= wr /\ data = SubSeq(Slice(rd, wr), c + 1, d)
        /\ next - 1 = rd
    BY <1>3, <1>11, SMTT(60)
  <2> HIDE DEF c, d, v, new, data, Seg, rd, wr
  <2>5. SubSeq(Slice(rd, wr), c + 1, d) = Slice(rd + c, rd + d)
    BY <2>1, <2>4, SMTT(60) DEF Slice
  <2>6. lo \in Nat /\ up \in Nat /\ lo <= up /\ lo = rd + c /\ up = rd + d
    BY <2>1, <2>4
  <2>7. num \in Int /\ num = wrap(next + c, Isn)
    <3>1. next + c \in Int /\ x.isn \in Int
      BY <1>11, <1>13, <2>1, IsnInt, SMTT(60)
    <3> QED BY <1>13, <3>1, WrapInt, SMTT(60)
  <2> HIDE DEF lo, up, num
  <2>8. data = Slice(lo, up) /\ data \in Seq(Int)
    <3>1. Slice(lo, up) \in Seq(Int)
      BY <2>6, Excerpts, ZenonT(60)
    <3> QED BY <2>4, <2>5, <2>6, <3>1, ZenonT(60)
  <2>9. /\ Seg(k) \in Segments /\ Seg(k).syn = FALSE /\ Seg(k).fin = v /\ Seg(k).seqno = num
        /\ Seg(k).payload = data
    BY <2>1, <2>2, <2>3, <2>7, <2>8, ZenonT(60) DEF Segments
  <2> QED BY <2>7, <2>8, <2>9, SMTT(60) DEF Piece, c, d, v, lo, up
<1> HIDE DEF Seg
<1>16. segs \in Seq(Segments) /\ Len(segs) = n /\ \A k \in 1 .. n : segs[k] = Seg(k)
  <2>1. \A k \in 1 .. n : Seg(k) \in Segments
    BY <1>15, ZenonT(60) DEF Piece
  <2> QED BY <1>6, <2>1
<1> HIDE DEF segs
<1> DEFINE one == IF fin THEN 1 ELSE 0
<1>17. /\ Run(segs, next, next + total + one)
       /\ Fins(segs, fin)
  <2> DEFINE cut == [k \in 0 .. n |-> Cut(k)]
  <2>1. \A k \in 0 .. n : Cut(k) \in Nat
    BY <1>5, <1>6, <1>14, SMTT(60)
  <2>2. cut \in [0 .. n -> Nat] /\ \A k \in 0 .. n : cut[k] = Cut(k)
    BY <2>1
  <2> HIDE DEF cut
  <2>3. \A k \in 1 .. n : k \in 0 .. n /\ k - 1 \in 0 .. n
    BY <1>6
  <2>4. 0 \in 0 .. n /\ n \in 0 .. n
    BY <1>6, SMTT(60)
  <2>5. /\ cut[0] = 0 /\ cut[n] = total
        /\ \A k \in 1 .. n : /\ cut[k - 1] < cut[k] /\ cut[k] <= total
                             /\ cut[k] - cut[k - 1] <= MAX_PAYLOAD_SIZE
    BY <1>14, <2>2, <2>3, <2>4, ZenonT(60)
  <2>6. \A k \in 1 .. n : Piece(segs[k], next, cut[k - 1], cut[k])
    BY <1>15, <1>16, <2>2, <2>3
  <2>7. next > 0 /\ next + total <= StreamLen + 1
    BY <1>3, <1>5, <1>11, Half, SMTT(60)
  <2>8. fin => n > 0
    BY <1>5, <1>6, <1>10, <1>14
  <2>9. Fins(segs, fin)
    BY <1>15, <1>16, ZenonT(60) DEF Fins
  <2>10. one \in 0 .. 1 /\ (one = 1 <=> fin)
    OBVIOUS
  <2> HIDE DEF one
  <2>11. Run(segs, next, next + total + one)
    <3>1. Pieces(segs, next, n, cut, total, fin, one)
      BY <1>5, <1>6, <1>9, <1>11, <1>16, <2>2, <2>5, <2>6, <2>7, <2>8, <2>9, <2>10 DEF Pieces
    <3> QED BY <3>1, PiecesRun
  <2> QED BY <2>9, <2>11
<1>18. used \in Int /\ used = total + one /\ used <= rem /\ used >= 0
  BY <1>4, <1>5, <1>9, <1>10, SMTT(60)
<1>19. fin => segs # << >>
  BY <1>6, <1>10, <1>14, <1>16
<1> HIDE DEF used, flag
<1>20. /\ IsSender(z)
       /\ z.stream = rest /\ z.fin_flag = flag /\ z.copy_segments_out = x.copy_segments_out
       /\ z.next_seqno = x.next_seqno /\ z.syn_flag = x.syn_flag
       /\ z.send_base = x.send_base /\ z.window_size = x.window_size
       /\ z.window_size_zero = x.window_size_zero
       /\ z.consecutive_retransmissions = x.consecutive_retransmissions
  <2>1. IsStream(rest) /\ flag \in BOOLEAN
    BY <1>7, <1>9, SMTT(60)
  <2> QED BY <2>1, ZenonT(60) DEF IsSender, IsRecord, SenderFields
<1> HIDE DEF z
<1>21. /\ y.next_seqno = z.next_seqno + used /\ y.stream = z.stream
       /\ y.copy_segments_out = z.copy_segments_out \o segs
       /\ y.syn_flag = z.syn_flag /\ y.fin_flag = z.fin_flag
       /\ y.send_base = z.send_base /\ y.window_size = z.window_size
       /\ y.window_size_zero = z.window_size_zero
       /\ y.consecutive_retransmissions = z.consecutive_retransmissions
  <2>1. segs \in Seq(Segments) /\ used \in Int /\ IsSender(z)
    BY <1>16, <1>18, <1>20
  <2> QED BY <2>1, Sent, SMTT(60), Zenon
<1> HIDE DEF y
<1>22. IsSender(y) /\ Counted(y)
  BY <1>1, <1>2, SMTT(60)
<1>23. Stored(y)
  BY <1>3, <1>7, <1>8, <1>20, <1>21, SMTT(60) DEF Stored
<1>24. y.next_seqno = next + total + one /\ next = x.next_seqno
  <2>1. one \in Int /\ total \in Int /\ next \in Int
    BY <1>5, <1>11, SMTT(60)
  <2>2. y.next_seqno = next + used /\ next = x.next_seqno
    BY <1>20, <1>21, SMTT(60) DEF next
  <2> HIDE DEF one
  <2> QED BY <1>18, <2>1, <2>2, SMTT(60)
<1>25. Within(x, y)
  <2>1. y.next_seqno = next + used /\ next = x.next_seqno
    BY <1>20, <1>21 DEF next
  <2>2. x.send_base \in Int /\ x.window_size \in Int
    BY DEF IsSender
  <2>3. x.next_seqno <= y.next_seqno
    BY <1>11, <1>18, <2>1, SMTT(60)
  <2>4. x.next_seqno <= x.send_base + x.window_size =>
          y.next_seqno <= x.send_base + x.window_size
    BY <1>4, <1>11, <1>18, <2>1, <2>2, SMTT(60)
  <2> QED BY <1>20, <1>21, <2>3, <2>4, SMTT(60) DEF Within
<1>26. Held(y)
  <2>1. /\ y.copy_segments_out = x.copy_segments_out \o segs /\ y.syn_flag = TRUE
        /\ y.fin_flag = fin
    BY <1>9, <1>20, <1>21
  <2>2. Run(segs, x.next_seqno, y.next_seqno) /\ Fins(segs, y.fin_flag)
        /\ (y.fin_flag => segs # << >>)
    BY <1>17, <1>19, <1>24, <2>1
  <2> QED BY <1>22, <1>23, <1>25, <2>1, <2>2, Extends, ZenonT(60)
<1> QED BY <1>1, <1>25, <1>26

\* A single segment is a run.
LEMMA OneRun ==
  ASSUME NEW seg, Sane(seg), NEW v, v = seg.fin
  PROVE  Run(<<seg>>, Pos(seg), Stop(seg)) /\ Fins(<<seg>>, v) /\ <<seg>> # << >>
<1> DEFINE q == <<seg>>
<1>1. seg \in Segments
  BY DEF Sane
<1>2. q \in Seq(Segments) /\ Len(q) = 1 /\ q[1] = seg /\ q # << >>
  BY <1>1
<1> HIDE DEF q
<1>3. \A i \in 1 .. Len(q) : q[i] = seg /\ i = Len(q)
  BY <1>2
<1>4. Chained(q)
  BY <1>2, <1>3 DEF Chained
<1>5. Run(q, Pos(seg), Stop(seg))
  BY <1>2, <1>4 DEF Run
<1>6. Fins(q, v)
  BY <1>3 DEF Fins
<1> QED BY <1>2, <1>5, <1>6 DEF q

\* The two segments without data.
LEMMA FlagsOnly ==
  /\ LET seg == [NewSegment EXCEPT !.syn = TRUE]
     IN  /\ seg \in Segments /\ seg.syn = TRUE /\ seg.fin = FALSE /\ seg.payload = << >>
         /\ length_in_sequence_space(seg) = 1
  /\ LET seg == [NewSegment EXCEPT !.fin = TRUE]
     IN  /\ seg \in Segments /\ seg.syn = FALSE /\ seg.fin = TRUE /\ seg.payload = << >>
         /\ length_in_sequence_space(seg) = 1
<1> DEFINE new == NewSegment
<1>1. new \in Segments /\ new.payload = << >> /\ new.syn = FALSE /\ new.fin = FALSE
  BY DEF NewSegment, Segments
<1>2. /\ length_in_sequence_space([new EXCEPT !.syn = TRUE]) = 1
      /\ length_in_sequence_space([new EXCEPT !.fin = TRUE]) = 1
  BY FlagSegments
<1> HIDE DEF new
<1>3. LET seg == [new EXCEPT !.syn = TRUE]
      IN  seg \in Segments /\ seg.syn = TRUE /\ seg.fin = FALSE /\ seg.payload = << >>
  BY <1>1, ZenonT(60) DEF Segments
<1>4. LET seg == [new EXCEPT !.fin = TRUE]
      IN  seg \in Segments /\ seg.syn = FALSE /\ seg.fin = TRUE /\ seg.payload = << >>
  BY <1>1, ZenonT(60) DEF Segments
<1> QED BY <1>2, <1>3, <1>4 DEF new

\* The SYN, at the number 0.
LEMMA SynSane ==
  ASSUME NEW seg \in Segments, seg.seqno = wrap(0, Isn), seg.syn = TRUE, seg.fin = FALSE,
         seg.payload = << >>
  PROVE  Sane(seg) /\ Pos(seg) = 0 /\ Stop(seg) = 1
<1>1. 0 \in 0 .. (StreamLen + 3)
  BY Half
<1>2. Pos(seg) = 0
  BY <1>1, Numbered
<1>3. length_in_sequence_space(seg) = 1 /\ Len(seg.payload) = 0
  BY DEF length_in_sequence_space
<1>4. Stop(seg) = 1 /\ 1 <= StreamLen + 2 /\ 0 <= MAX_PAYLOAD_SIZE
  BY <1>2, <1>3, Half, PayloadAssumption, SMTT(60) DEF Stop
<1> QED BY <1>2, <1>3, <1>4 DEF Sane

\* The FIN on its own.
LEMMA FinSane ==
  ASSUME NEW seg \in Segments, NEW p \in Nat, p > 0, p <= StreamLen + 1,
         seg.seqno = wrap(p, Isn), seg.syn = FALSE, seg.fin = TRUE, seg.payload = << >>
  PROVE  Sane(seg) /\ Pos(seg) = p /\ Stop(seg) = p + 1
<1> DEFINE lo == p - 1
<1>1. lo \in Nat /\ lo <= lo /\ lo + 0 = lo /\ p + 0 = p
  OBVIOUS
<1> HIDE DEF lo
<1>2. Slice(lo, lo) = << >>
  BY <1>1, Excerpts
<1>3. Piece(seg, p, 0, 0)
  BY <1>1, <1>2 DEF Piece, lo
<1>4. Fits(seg, p, 0, 0, 1)
  BY <1>3, Half, PayloadAssumption DEF Fits
<1>5. Sane(seg) /\ Pos(seg) = p + 0 /\ Stop(seg) = p + 0 + 1
  BY <1>4, PieceSane
<1> QED BY <1>5

\* Sending one such segment and setting its flag.
LEMMA OneHeld ==
  ASSUME NEW x, IsSender(x), Counted(x), Held(x), x.fin_flag = FALSE,
         NEW y, IsSender(y), Counted(y), y.stream = x.stream,
         y.syn_flag = TRUE, NEW new, Sane(new), Pos(new) = x.next_seqno,
         y.copy_segments_out = x.copy_segments_out \o <<new>>, y.fin_flag = new.fin,
         y.next_seqno = Stop(new), Within(x, y)
  PROVE  Held(y)
<1>1. Stored(y)
  BY DEF Held, Stored
<1> DEFINE segs == <<new>>
           v    == y.fin_flag
<1>2. v = new.fin
  OBVIOUS
<1> HIDE DEF v
<1>3. Run(segs, x.next_seqno, y.next_seqno) /\ Fins(segs, v) /\ segs # << >>
  BY <1>2, OneRun
<1> HIDE DEF segs
<1>4. y.copy_segments_out = x.copy_segments_out \o segs
  BY DEF segs
<1> QED BY <1>1, <1>3, <1>4, Extends, ZenonT(60) DEF v

\* fill_window keeps the invariant, and within the window.
LEMMA FilledHeld ==
  ASSUME NEW x, IsSender(x), Counted(x), Ended(x), Held(x)
  PROVE  Held(fill_window(x)) /\ Within(x, fill_window(x))
<1> DEFINE y == fill_window(x)
           syn == [NewSegment EXCEPT !.syn = TRUE]
           fin == [NewSegment EXCEPT !.fin = TRUE]
<1>0. x.syn_flag \in BOOLEAN /\ x.fin_flag \in BOOLEAN
      /\ IsStream(x.stream) /\ x.send_base \in Nat /\ x.window_size \in Nat
      /\ x.window_size > 0 /\ x.send_base <= x.next_seqno
  BY SMTT(60) DEF IsSender, Held
<1>1. x.next_seqno \in Nat /\ x.stream.read \in Nat /\ x.stream.written \in Nat
      /\ x.stream.read <= x.stream.written /\ x.stream.written <= StreamLen
  BY NumbersBounded DEF Held, Stored
<1>2. Within(x, x)
  BY <1>1 DEF Within
<1>3. IsSender(y) /\ Counted(y)
  BY Filled
<1>4. SUFFICES Held(y) /\ Within(x, y)
  OBVIOUS
<1>5. CASE \/ x.window_size = 0 \/ x.fin_flag
           \/ x.syn_flag /\ buffer_empty(x.stream) /\ ~ x.stream.eof
  BY <1>2, <1>5 DEF fill_window
<1>6. CASE ~ (\/ x.window_size = 0 \/ x.fin_flag
              \/ x.syn_flag /\ buffer_empty(x.stream) /\ ~ x.stream.eof)
  <2>0. x.fin_flag = FALSE
    BY <1>0, <1>6
  <2>1. CASE ~ x.syn_flag
    <3> DEFINE z == send_segment(x, syn)
    <3>1. y = [z EXCEPT !.syn_flag = TRUE] /\ x.syn_flag = FALSE
      BY <1>0, <1>6, <2>1 DEF fill_window
    <3>2. /\ syn \in Segments /\ syn.syn = TRUE /\ syn.fin = FALSE /\ syn.payload = << >>
          /\ length_in_sequence_space(syn) = 1
      BY FlagsOnly, SMTT(60)
    <3> HIDE DEF y, syn
    <3>3. /\ IsSender(z) /\ z.next_seqno = x.next_seqno + 1
          /\ z.stream = x.stream /\ z.fin_flag = x.fin_flag
          /\ z.send_base = x.send_base /\ z.window_size = x.window_size
          /\ z.window_size_zero = x.window_size_zero
          /\ z.consecutive_retransmissions = x.consecutive_retransmissions
          /\ Copied(x, z, syn)
      BY <3>2, SentOne, SMTT(60)
    <3> HIDE DEF z
    <3>4. PICK new \in Segments :
               /\ z.copy_segments_out = x.copy_segments_out \o <<new>>
               /\ new.seqno = wrap(x.next_seqno, Isn) /\ new.syn = syn.syn
               /\ new.fin = syn.fin /\ new.payload = syn.payload
      BY <3>3, ZenonT(60) DEF Copied
    <3>5. /\ y.syn_flag = TRUE
          /\ y.stream = z.stream /\ y.next_seqno = z.next_seqno /\ y.fin_flag = z.fin_flag
          /\ y.copy_segments_out = z.copy_segments_out
          /\ y.send_base = z.send_base /\ y.window_size = z.window_size
          /\ y.window_size_zero = z.window_size_zero
          /\ y.consecutive_retransmissions = z.consecutive_retransmissions
      BY <3>1, <3>3, Flagged
    <3>6. x.next_seqno = 0
      BY <1>1, <2>0, <3>1 DEF Counted, Held
    <3>7. Sane(new) /\ Pos(new) = 0 /\ Stop(new) = 1
      BY <3>2, <3>4, <3>6, SynSane, ZenonT(60)
    <3>8. y.next_seqno = 1 /\ x.send_base = 0
      BY <1>0, <3>3, <3>5, <3>6
    <3>9. Within(x, y)
      BY <1>0, <3>3, <3>5, <3>6, <3>8 DEF Within
    <3>10. Held(y)
      <4>1. /\ y.stream = x.stream /\ y.fin_flag = new.fin
            /\ y.copy_segments_out = x.copy_segments_out \o <<new>>
        BY <2>0, <3>2, <3>3, <3>4, <3>5, ZenonT(60)
      <4> QED BY <1>3, <2>0, <3>5, <3>6, <3>7, <3>8, <3>9, <4>1, OneHeld, ZenonT(60)
    <3> QED BY <3>9, <3>10
  <2>2. CASE x.syn_flag /\ ~ at_eof(x.stream)
    <3>1. y = fill_payload(x)
      BY <1>6, <2>2 DEF fill_window
    <3>2. Len(x.stream.buf) > 0 /\ x.syn_flag = TRUE
      <4>1. Len(x.stream.buf) \in Nat
        BY <1>0 DEF IsStream
      <4>2. Len(x.stream.buf) # 0
        BY <1>6, <2>2 DEF at_eof, buffer_empty, buffer_size
      <4> QED BY <1>0, <2>2, <4>1, <4>2
    <3> HIDE DEF y
    <3> QED BY <2>0, <3>1, <3>2, PayloadHeld, ZenonT(60)
  <2>3. CASE x.syn_flag /\ at_eof(x.stream) /\ Remaining(x) = 0
    BY <1>2, <1>6, <2>3, SMTT(60) DEF fill_window
  <2>4. CASE x.syn_flag /\ at_eof(x.stream) /\ Remaining(x) # 0
    <3> DEFINE z == send_segment(x, fin)
    <3>1. y = [z EXCEPT !.fin_flag = TRUE] /\ x.syn_flag = TRUE
      BY <1>0, <1>6, <2>4 DEF fill_window
    <3>2. /\ fin \in Segments /\ fin.syn = FALSE /\ fin.fin = TRUE /\ fin.payload = << >>
          /\ length_in_sequence_space(fin) = 1
      BY FlagsOnly, SMTT(60)
    <3> HIDE DEF y, fin
    <3>3. /\ IsSender(z) /\ z.next_seqno = x.next_seqno + 1
          /\ z.stream = x.stream /\ z.syn_flag = x.syn_flag
          /\ z.send_base = x.send_base /\ z.window_size = x.window_size
          /\ z.window_size_zero = x.window_size_zero
          /\ z.consecutive_retransmissions = x.consecutive_retransmissions
          /\ Copied(x, z, fin)
      BY <3>2, SentOne, SMTT(60)
    <3> HIDE DEF z
    <3>4. PICK new \in Segments :
               /\ z.copy_segments_out = x.copy_segments_out \o <<new>>
               /\ new.seqno = wrap(x.next_seqno, Isn) /\ new.syn = fin.syn
               /\ new.fin = fin.fin /\ new.payload = fin.payload
      BY <3>3, ZenonT(60) DEF Copied
    <3>5. /\ y.fin_flag = TRUE
          /\ y.stream = z.stream /\ y.next_seqno = z.next_seqno /\ y.syn_flag = z.syn_flag
          /\ y.copy_segments_out = z.copy_segments_out
          /\ y.send_base = z.send_base /\ y.window_size = z.window_size
          /\ y.window_size_zero = z.window_size_zero
          /\ y.consecutive_retransmissions = z.consecutive_retransmissions
      BY <3>1, <3>3, Flagged
    <3>6. x.next_seqno > 0 /\ x.next_seqno <= StreamLen + 1
      BY <1>1, <2>0, <3>1, Half DEF Counted
    <3>7. Sane(new) /\ Pos(new) = x.next_seqno /\ Stop(new) = x.next_seqno + 1
      BY <1>1, <3>2, <3>4, <3>6, FinSane, ZenonT(60)
    <3>8. y.next_seqno = x.next_seqno + 1
      BY <3>3, <3>5
    <3>9. Within(x, y)
      <4>1. Remaining(x) \in Nat /\ Remaining(x) > 0
            /\ (x.next_seqno <= x.send_base + x.window_size =>
                  x.next_seqno + Remaining(x) <= x.send_base + x.window_size)
        BY <2>4, Room, SMTT(60)
      <4>2. /\ x.next_seqno <= y.next_seqno
            /\ x.next_seqno <= x.send_base + x.window_size =>
                  y.next_seqno <= x.send_base + x.window_size
        BY <1>0, <1>1, <3>8, <4>1, SMTT(60)
      <4> QED BY <3>3, <3>5, <4>2 DEF Within
    <3>10. Held(y)
      <4>1. /\ y.stream = x.stream /\ y.fin_flag = new.fin /\ y.syn_flag = TRUE
            /\ y.copy_segments_out = x.copy_segments_out \o <<new>>
        BY <3>1, <3>2, <3>3, <3>4, <3>5, ZenonT(60)
      <4> QED BY <1>3, <2>0, <3>7, <3>8, <3>9, <4>1, OneHeld, ZenonT(60)
    <3> QED BY <3>9, <3>10
  <2> QED BY <2>1, <2>2, <2>3, <2>4, SMTT(60)
<1> QED BY <1>5, <1>6, SMTT(60)

-------------------------------------------------------------------------------
\* y has what the invariant is about from x.
Alike(x, y) ==
  /\ y.stream = x.stream /\ y.next_seqno = x.next_seqno /\ y.send_base = x.send_base
  /\ y.window_size = x.window_size /\ y.window_size_zero = x.window_size_zero
  /\ y.syn_flag = x.syn_flag /\ y.fin_flag = x.fin_flag
  /\ y.copy_segments_out = x.copy_segments_out

LEMMA AlikeHeld == ASSUME NEW x, Held(x), NEW y, Alike(x, y) PROVE Held(y)
BY DEF Held, Stored, Alike

\* What an acknowledgment of a, with the window w, makes of x.
Answered(x, a, w, y) ==
  LET size == IF w = 0 THEN 1 ELSE w
  IN  /\ y.consecutive_retransmissions \in {0, x.consecutive_retransmissions}
      /\ x.next_seqno <= y.next_seqno
      /\ x.send_base <= a /\ a <= x.next_seqno =>
           /\ y.send_base = a /\ y.window_size = size
           /\ y.window_size_zero = (w = 0)
           /\ x.next_seqno <= a + size => y.next_seqno <= a + size

\* ack_received keeps the invariant.
LEMMA AckHeld ==
  ASSUME NEW x, Sound(x), Held(x), NEW a \in 0 .. (x.next_seqno + 1), NEW w \in Nat
  PROVE  /\ Held(ack_received(x, wrap(a, Isn), w))
         /\ Answered(x, a, w, ack_received(x, wrap(a, Isn), w))
<1> DEFINE absolute == unwrap(wrap(a, Isn), x.isn, x.send_base)
           size     == IF w = 0 THEN 1 ELSE w
           closed   == w = 0
           told     == [x EXCEPT !.window_size = size, !.window_size_zero = closed]
           open     == Unacknowledged(x, absolute)
           popped   == [told EXCEPT !.send_base = absolute, !.copy_segments_out = open]
           filled   == fill_window(popped)
           timer    == IF filled.copy_segments_out # << >>
                       THEN start(filled.timer, x.initial_rto) ELSE clear(filled.timer)
           y        == [filled EXCEPT !.consecutive_retransmissions = 0, !.timer = timer]
           r        == ack_received(x, wrap(a, Isn), w)
<1>1. r = IF x.next_seqno < absolute THEN x
          ELSE IF absolute <= x.send_base THEN told ELSE y
  BY DEF ack_received
<1>2. IsSender(x) /\ Counted(x) /\ Ended(x) /\ Timed(x)
  BY SMTT(60) DEF Sound
<1>3. /\ x.next_seqno \in Nat /\ x.next_seqno \in 0 .. (StreamLen + 2)
      /\ x.send_base \in Nat /\ x.send_base <= x.next_seqno /\ Stored(x)
  BY <1>2, NumbersBounded, SMTT(60) DEF Held
<1>4. absolute = a /\ a \in Nat
  <2>1. a \in 0 .. (StreamLen + 3) /\ x.send_base \in 0 .. (StreamLen + 2) /\ x.isn = Isn
    BY <1>2, <1>3, Half, SMTT(60) DEF IsSender
  <2> QED BY <2>1, Named, SMTT(60)
<1>5. size \in Nat \ {0} /\ closed \in BOOLEAN /\ size \in Int
  OBVIOUS
<1>6. open \in Seq(Segments)
  BY <1>2, StillOutstanding
<1> HIDE DEF absolute, size, closed, open
<1>7. /\ IsRecord(told, SenderFields) /\ told.stream = x.stream /\ told.timer = x.timer
      /\ told.next_seqno = x.next_seqno /\ told.send_base = x.send_base
      /\ told.window_size = size /\ told.isn = x.isn /\ told.syn_flag = x.syn_flag
      /\ told.fin_flag = x.fin_flag /\ told.copy_segments_out = x.copy_segments_out
      /\ told.initial_rto = x.initial_rto /\ told.window_size_zero = closed
      /\ told.consecutive_retransmissions = x.consecutive_retransmissions
  BY <1>2, ZenonT(60) DEF IsSender, IsRecord, SenderFields
<1> HIDE DEF told
<1>8. Held(told)
  BY <1>5, <1>7 DEF Held, Stored
<1>9. IsSender(told)
  BY <1>2, <1>5, <1>7 DEF IsSender
<1>10. /\ IsRecord(popped, SenderFields) /\ popped.stream = told.stream
       /\ popped.timer = told.timer
       /\ popped.next_seqno = told.next_seqno /\ popped.send_base = absolute
       /\ popped.window_size = told.window_size /\ popped.isn = told.isn
       /\ popped.syn_flag = told.syn_flag /\ popped.fin_flag = told.fin_flag
       /\ popped.copy_segments_out = open /\ popped.initial_rto = told.initial_rto
       /\ popped.window_size_zero = told.window_size_zero
       /\ popped.consecutive_retransmissions = told.consecutive_retransmissions
  BY <1>9, ZenonT(60) DEF IsSender, IsRecord, SenderFields
<1> HIDE DEF popped
<1>11. IsSender(popped) /\ Counted(popped) /\ Ended(popped)
  <2>1. IsSender(popped)
    BY <1>4, <1>6, <1>9, <1>10 DEF IsSender
  <2> QED BY <1>2, <1>7, <1>10, <2>1 DEF Counted, Ended
<1>12. ASSUME x.send_base <= a, a <= x.next_seqno
       PROVE  Held(popped)
  <2>1. Linked(open, a, x.next_seqno) /\ Fins(open, x.fin_flag)
    <3>1. Linked(x.copy_segments_out, x.send_base, x.next_seqno)
          /\ Fins(x.copy_segments_out, x.fin_flag)
      BY DEF Held
    <3>2. open = Unacknowledged(x, a)
      BY <1>4, SMTT(60) DEF open
    <3> QED BY <1>2, <1>3, <1>4, <1>12, <3>1, <3>2, Popped, SMTT(60)
  <2>2. Stored(popped) /\ (~ popped.syn_flag => popped.stream.read = 0 /\ ~ popped.fin_flag)
    BY <1>7, <1>10, SMTT(60) DEF Held, Stored
  <2> QED BY <1>4, <1>5, <1>7, <1>10, <1>12, <2>1, <2>2, SMTT(60) DEF Held
<1>13. ASSUME x.send_base <= a, a <= x.next_seqno
       PROVE  /\ Held(filled) /\ Within(popped, filled)
              /\ IsSender(filled) /\ Counted(filled) /\ Ended(filled)
  BY <1>11, <1>12, <1>13, FilledHeld, Filled, SMTT(60)
<1> HIDE DEF filled, timer
<1>14. ASSUME x.send_base <= a, a <= x.next_seqno
       PROVE  /\ Alike(filled, y) /\ y.consecutive_retransmissions = 0
  <2>1. IsSender(filled)
    BY <1>13, <1>14, SMTT(60)
  <2> QED BY <2>1 DEF IsSender, IsRecord, SenderFields, Alike
<1> HIDE DEF y
<1>15. CASE x.next_seqno < absolute
  <2>1. r = x /\ ~ (a <= x.next_seqno)
    BY <1>1, <1>3, <1>4, <1>15, SMTT(60)
  <2> QED BY <1>3, <2>1 DEF Answered
<1>16. CASE ~ (x.next_seqno < absolute) /\ absolute <= x.send_base
  <2>1. r = told
    BY <1>1, <1>16, SMTT(60)
  <2> HIDE DEF r
  <2>2. x.send_base <= a => x.send_base = a
    BY <1>3, <1>4, <1>16, SMTT(60)
  <2>3. Answered(x, a, w, told)
    BY <1>3, <1>7, <2>2, SMTT(60) DEF Answered, size, closed
  <2> QED BY <1>8, <2>1, <2>3, SMTT(60) DEF r
<1>17. CASE ~ (x.next_seqno < absolute) /\ ~ (absolute <= x.send_base)
  <2>1. r = y /\ x.send_base <= a /\ a <= x.next_seqno
    BY <1>1, <1>3, <1>4, <1>17, SMTT(60)
  <2> HIDE DEF r
  <2>2. Held(y)
    BY <1>13, <1>14, <2>1, AlikeHeld, SMTT(60)
  <2>3. /\ y.send_base = a /\ y.window_size = size /\ y.window_size_zero = closed
        /\ x.next_seqno <= y.next_seqno
        /\ x.next_seqno <= a + size => y.next_seqno <= a + size
    BY <1>4, <1>7, <1>10, <1>13, <1>14, <2>1, SMTT(60) DEF Within, Alike
  <2>4. Answered(x, a, w, y)
    BY <1>14, <2>1, <2>3, SMTT(60) DEF Answered, size, closed
  <2> QED BY <2>1, <2>2, <2>4, SMTT(60) DEF r
<1> QED BY <1>15, <1>16, <1>17

\* tick changes nothing of it.
LEMMA TickAlike ==
  ASSUME NEW x, IsSender(x), NEW ms
  PROVE  LET y == sender_tick(x, ms)
         IN  /\ Alike(x, y)
             /\ \/ y.consecutive_retransmissions = x.consecutive_retransmissions
                \/ y.consecutive_retransmissions = x.consecutive_retransmissions + 1
<1> DEFINE t1    == [x.timer EXCEPT !.total_time = @ + ms]
           later == [x EXCEPT !.timer = t1]
           c     == later.consecutive_retransmissions + 1
           t2    == double_rto(later.timer)
           back  == IF x.window_size_zero THEN later
                    ELSE [later EXCEPT !.consecutive_retransmissions = c, !.timer = t2]
           q     == Append(back.segments_out, Head(x.copy_segments_out))
           t3    == restart(back.timer)
           out   == [back EXCEPT !.segments_out = q, !.timer = t3]
           expired == x.copy_segments_out # << >> /\ x.timer.running /\ is_timeout(later.timer)
<1>1. sender_tick(x, ms) = IF expired THEN out ELSE later
  BY Zenon DEF sender_tick
<1>2. IsRecord(x, SenderFields)
  BY DEF IsSender
<1> HIDE DEF t1, expired
<1>3. /\ IsRecord(later, SenderFields) /\ Alike(x, later)
      /\ later.consecutive_retransmissions = x.consecutive_retransmissions
  BY <1>2 DEF IsRecord, SenderFields, Alike
<1>4. c = x.consecutive_retransmissions + 1
  BY <1>3
<1> HIDE DEF later, t2, c
<1>5. /\ IsRecord(back, SenderFields) /\ Alike(later, back)
      /\ \/ back.consecutive_retransmissions = x.consecutive_retransmissions
         \/ back.consecutive_retransmissions = c
  BY <1>3, ZenonT(60) DEF IsRecord, SenderFields, Alike
<1> HIDE DEF back, q, t3
<1>6. /\ Alike(back, out)
      /\ out.consecutive_retransmissions = back.consecutive_retransmissions
  BY <1>5 DEF IsRecord, SenderFields, Alike
<1> HIDE DEF out
<1>7. Alike(x, out)
  BY <1>3, <1>5, <1>6 DEF Alike
<1> QED BY <1>1, <1>3, <1>4, <1>5, <1>6, <1>7, SMTT(60)

-------------------------------------------------------------------------------
\* While the acknowledgments are those of a correct receiver, in order, what
\* is sent ends within the promise of the last one, or the probe does.
Promised ==
  edge # -1 =>
    /\ s.next_seqno <= s.send_base + s.window_size
    /\ edge = s.send_base + (IF s.window_size_zero THEN 0 ELSE s.window_size)
    /\ s.window_size_zero => s.window_size = 1

Retries(x) == x.consecutive_retransmissions <= MaxRetx + 1

\* The inductive invariant.
Complete == Sound(s) /\ Held(s) /\ Retries(s) /\ Promised

\* Initially nothing is outstanding.
LEMMA InitComplete == Init => Complete
<1> SUFFICES ASSUME Init PROVE Complete
  OBVIOUS
<1>1. /\ s.next_seqno = 0 /\ s.send_base = 0 /\ s.window_size = 1 /\ s.window_size_zero = FALSE
      /\ s.syn_flag = FALSE /\ s.fin_flag = FALSE /\ s.copy_segments_out = << >>
      /\ s.consecutive_retransmissions = 0 /\ s.stream = NewStream(SendCapacity)
  BY DEF Init, NewSender
<1>2. /\ s.stream.buf = << >> /\ s.stream.read = 0 /\ s.stream.written = 0
      /\ s.stream.cap = SendCapacity
  BY <1>1 DEF NewStream
<1>3. 0 \in Nat /\ 0 <= 0 /\ 1 \in Nat \ {0}
  OBVIOUS
<1>4. Slice(0, 0) = << >>
  BY <1>3, Excerpts, SMTT(60)
<1>5. Stored(s)
  BY <1>2, <1>4, ConstantsAssumption DEF Stored
<1>6. << >> \in Seq(Segments) /\ Len(<< >>) = 0
  OBVIOUS
<1>7. Linked(<< >>, 0, 0) /\ Fins(<< >>, FALSE)
  BY <1>6, SMTT(60) DEF Linked, Chained, Fins
<1>8. Held(s)
  BY <1>1, <1>2, <1>3, <1>5, <1>7, ZenonT(60) DEF Held
<1>9. Promised
  BY <1>1 DEF Promised, Init
<1>10. Retries(s)
  BY <1>1, ConstantsAssumption DEF Retries
<1> QED BY <1>8, <1>9, <1>10, InitSound DEF Complete

\* Handing the segments out changes nothing of it.
LEMMA TakenAlike ==
  Sound(s) => /\ Alike(s, Taken)
              /\ Taken.consecutive_retransmissions = s.consecutive_retransmissions
BY DEF Sound, IsSender, IsRecord, SenderFields, Taken, Alike

\* A step that only sends keeps the promise.
LEMMA WithinPromised ==
  ASSUME Sound(s), Promised, NEW x, Alike(s, x), Within(x, s'), edge' = edge
  PROVE  Promised'
<1>1. /\ s'.send_base = s.send_base /\ s'.window_size = s.window_size
      /\ s'.window_size_zero = s.window_size_zero
      /\ s.next_seqno <= s.send_base + s.window_size =>
           s'.next_seqno <= s.send_base + s.window_size
  BY SMTT(60) DEF Within, Alike
<1> QED BY <1>1 DEF Promised

\* So does one that does not even send.
LEMMA AlikePromised ==
  ASSUME Promised, NEW x, Alike(s, x), x.next_seqno = s'.next_seqno,
         x.send_base = s'.send_base, x.window_size = s'.window_size,
         x.window_size_zero = s'.window_size_zero, edge' = edge
  PROVE  Promised'
BY SMTT(60) DEF Promised, Alike

\* The acknowledgments keep it, as the receiver never takes a promise back.
LEMMA AckPromised ==
  ASSUME Sound(s), Held(s), Promised, NEW x, Alike(s, x),
         NEW a \in 0 .. (s.next_seqno + 1), NEW w \in Nat, Answered(x, a, w, s'),
         edge' = IF /\ s.send_base <= a /\ 1 <= a /\ a <= s.next_seqno
                    /\ edge # -1 /\ edge <= a + w
                 THEN a + w ELSE -1
  PROVE  Promised'
<1> SUFFICES ASSUME edge' # -1 
             PROVE  /\ s'.next_seqno <= s'.send_base + s'.window_size
                    /\ edge' = s'.send_base + (IF s'.window_size_zero THEN 0 ELSE s'.window_size)
                    /\ s'.window_size_zero => s'.window_size = 1
  BY DEF Promised
<1> DEFINE size == IF w = 0 THEN 1 ELSE w
<1>1. /\ s.send_base <= a /\ a <= s.next_seqno /\ edge # -1 /\ edge <= a + w /\ edge' = a + w
  OBVIOUS
<1>2. /\ s.next_seqno <= s.send_base + s.window_size
      /\ edge = s.send_base + (IF s.window_size_zero THEN 0 ELSE s.window_size)
      /\ s.window_size_zero => s.window_size = 1
  BY <1>1 DEF Promised
<1>3. /\ s'.send_base = a /\ s'.window_size = size /\ s'.window_size_zero = (w = 0)
      /\ s.next_seqno <= a + size => s'.next_seqno <= a + size
  BY <1>1 DEF Answered, Alike
<1>4. /\ s.next_seqno \in Int /\ s.send_base \in Nat /\ s.window_size \in Nat
      /\ s.window_size_zero \in BOOLEAN
  BY DEF Sound, IsSender, Held
<1>5. size \in Nat /\ w <= size /\ 1 <= size /\ a \in Nat
  BY <1>4
<1>6. s.next_seqno <= a + size
  <2> HIDE DEF size
  <2>1. CASE s.window_size_zero
    <3>1. s.next_seqno <= s.send_base + 1
      BY <1>2, <2>1, SMTT(60)
    <3> QED BY <1>1, <1>4, <1>5, <3>1, SMTT(60)
  <2>2. CASE ~ s.window_size_zero
    <3>1. edge = s.send_base + s.window_size
      BY <1>2, <2>2, SMTT(60)
    <3> QED BY <1>1, <1>2, <1>4, <1>5, <3>1, SMTT(60)
  <2> QED BY <2>1, <2>2, SMTT(60)
<1> QED BY <1>1, <1>3, <1>5, <1>6, ZenonT(60)

\* Every step keeps the invariant.
LEMMA NextComplete == Complete /\ Next => Complete'
<1> SUFFICES ASSUME Complete, Next PROVE Complete'
  OBVIOUS
<1> DEFINE x == Taken
<1>1. Sound(s) /\ Held(s) /\ Retries(s) /\ Promised
  BY DEF Complete
<1>2. Sound(s')
  BY <1>1, NextSound, SMTT(60)
<1>3. /\ Sound(x) /\ IsSender(x) /\ Counted(x) /\ Ended(x) /\ IsStream(x.stream)
      /\ Alike(s, x) /\ x.consecutive_retransmissions = s.consecutive_retransmissions
      /\ x.stream = s.stream
  BY <1>1, TakenSound, TakenAlike, SMTT(60) DEF Sound, IsSender
<1>4. Held(x)
  BY <1>1, <1>3, AlikeHeld, SMTT(60)
<1>5. SUFFICES Held(s') /\ Retries(s') /\ Promised'
  BY <1>2 DEF Complete
<1>6. CASE Fill
  <2>1. s' = fill_window(x) /\ edge' = edge
    BY <1>6, SMTT(60) DEF Fill
  <2> HIDE DEF x
  <2>2. Held(s') /\ Within(x, s')
    BY <1>3, <1>4, <2>1, FilledHeld, SMTT(60)
  <2>3. Promised'
    BY <1>1, <1>3, <2>1, <2>2, WithinPromised, SMTT(60)
  <2>4. Retries(s')
    BY <1>1, <1>3, <2>2, SMTT(60) DEF Within, Retries
  <2> QED BY <2>2, <2>3, <2>4, SMTT(60)
<1>7. CASE Write
  <2>1. PICK n \in 1 .. (StreamLen - s.stream.written) :
          s' = [x EXCEPT !.stream = write(x.stream, Slice(x.stream.written, x.stream.written + n))]
    BY <1>7 DEF Write
  <2>2. edge' = edge
    BY <1>7, SMTT(60) DEF Write
  <2>3. n \in Nat /\ x.stream.written + n <= StreamLen /\ x.stream.written \in Nat
        /\ x.stream.read \in Nat /\ x.stream.read <= x.stream.written
    <3>1. Stored(x) /\ x.stream.written = s.stream.written
      BY <1>3, <1>4, SMTT(60) DEF Held
    <3>2. x.stream.written \in Nat /\ x.stream.read \in Nat /\ x.stream.read <= x.stream.written
      BY <1>3, <3>1, NumbersBounded, SMTT(60)
    <3> HIDE DEF x
    <3> QED BY <3>1, <3>2, Half, SMTT(60)
  <2> DEFINE r == write(x.stream, Slice(x.stream.written, x.stream.written + n))
  <2> HIDE DEF x
  <2>4. /\ IsStream(r) /\ r.read = x.stream.read /\ r.cap = x.stream.cap
        /\ r.written \in x.stream.written .. (x.stream.written + n)
        /\ r.buf = x.stream.buf \o Slice(x.stream.written, r.written)
    BY <1>3, <2>3, Wrote, ZenonT(60)
  <2> HIDE DEF r
  <2>5. s' = [x EXCEPT !.stream = r]
    BY <2>1, SMTT(60) DEF r
  <2>6. /\ s'.stream = r /\ s'.next_seqno = x.next_seqno
        /\ s'.syn_flag = x.syn_flag /\ s'.fin_flag = x.fin_flag
        /\ s'.copy_segments_out = x.copy_segments_out
        /\ s'.send_base = x.send_base /\ s'.window_size = x.window_size
        /\ s'.window_size_zero = x.window_size_zero
        /\ s'.consecutive_retransmissions = x.consecutive_retransmissions
    BY <1>3, <2>4, <2>5, Restreamed, SMTT(60)
  <2>7. r.buf = Slice(r.read, r.written)
    <3> DEFINE lo  == x.stream.read
               mid == x.stream.written
               up  == r.written
    <3>1. lo \in Nat /\ mid \in Nat /\ up \in Nat /\ lo <= mid /\ mid <= up
      BY <2>3, <2>4, SMTT(60)
    <3>2. r.buf = Slice(lo, mid) \o Slice(mid, up) /\ r.read = lo
      BY <1>4, <2>4, SMTT(60) DEF Held, Stored
    <3> HIDE DEF lo, mid, up
    <3>3. Slice(lo, mid) \o Slice(mid, up) = Slice(lo, up)
      BY <3>1, Excerpts, ZenonT(60)
    <3> QED BY <3>2, <3>3, SMTT(60) DEF up
  <2>8. Stored(s')
    <3>1. r.written <= StreamLen
      BY <2>3, <2>4, Half
    <3> QED BY <1>4, <2>4, <2>6, <2>7, <3>1 DEF Held, Stored
  <2>9. Held(s')
    BY <1>4, <2>4, <2>6, <2>8, SMTT(60) DEF Held
  <2>10. Promised'
    BY <1>1, <1>3, <2>2, <2>6, AlikePromised, SMTT(60)
  <2> QED BY <1>1, <1>3, <2>6, <2>9, <2>10, SMTT(60) DEF Retries
<1>8. CASE EndInput
  <2> DEFINE r == end_input(x.stream)
  <2>1. s' = [x EXCEPT !.stream = r] /\ edge' = edge
    BY <1>8, SMTT(60) DEF EndInput
  <2> HIDE DEF x
  <2>2. /\ IsStream(r) /\ r.read = x.stream.read /\ r.written = x.stream.written
        /\ r.buf = x.stream.buf /\ r.cap = x.stream.cap
    BY <1>3, EndedInput, ZenonT(60)
  <2> HIDE DEF r
  <2>3. /\ s'.stream = r /\ s'.next_seqno = x.next_seqno
        /\ s'.syn_flag = x.syn_flag /\ s'.fin_flag = x.fin_flag
        /\ s'.copy_segments_out = x.copy_segments_out
        /\ s'.send_base = x.send_base /\ s'.window_size = x.window_size
        /\ s'.window_size_zero = x.window_size_zero
        /\ s'.consecutive_retransmissions = x.consecutive_retransmissions
    BY <1>3, <2>1, <2>2, Restreamed
  <2>4. Held(s')
    BY <1>4, <2>2, <2>3 DEF Held, Stored
  <2>5. Promised'
    BY <1>1, <1>3, <2>1, <2>3, AlikePromised, SMTT(60)
  <2> QED BY <1>1, <1>3, <2>3, <2>4, <2>5, SMTT(60) DEF Retries
<1>9. CASE Ack
  <2>1. PICK a \in 0 .. (s.next_seqno + 1) : \E w \in Windows :
          /\ s' = ack_received(x, wrap(a, Isn), w)
          /\ edge' = IF /\ s.send_base <= a /\ 1 <= a /\ a <= s.next_seqno
                        /\ edge # -1 /\ edge <= a + w
                     THEN a + w ELSE -1
    BY <1>9, SMTT(60) DEF Ack
  <2>2. PICK w \in Windows :
          /\ s' = ack_received(x, wrap(a, Isn), w)
          /\ edge' = IF /\ s.send_base <= a /\ 1 <= a /\ a <= s.next_seqno
                        /\ edge # -1 /\ edge <= a + w
                     THEN a + w ELSE -1
    BY <2>1, SMTT(60)
  <2>3. w \in Nat
    BY ConstantsAssumption, SMTT(60)
  <2> HIDE DEF x
  <2>4. a \in 0 .. (x.next_seqno + 1)
    BY <1>3, SMTT(60) DEF Alike
  <2>5. Held(s') /\ Answered(x, a, w, s')
    BY <1>3, <1>4, <2>2, <2>3, <2>4, AckHeld, SMTT(60)
  <2>6. Promised'
    BY <1>1, <1>3, <2>2, <2>3, <2>5, AckPromised, SMTT(60)
  <2>7. Retries(s')
    BY <1>1, <1>3, <2>5, ConstantsAssumption, SMTT(60) DEF Answered, Retries
  <2> QED BY <2>5, <2>6, <2>7, SMTT(60)
<1>10. CASE Tick
  <2>1. s' = sender_tick(x, 1) /\ s.consecutive_retransmissions <= MaxRetx /\ edge' = edge
    BY <1>10, SMTT(60) DEF Tick
  <2> HIDE DEF x
  <2>2. /\ Alike(x, s')
        /\ \/ s'.consecutive_retransmissions = x.consecutive_retransmissions
           \/ s'.consecutive_retransmissions = x.consecutive_retransmissions + 1
    BY <1>3, <2>1, TickAlike, SMTT(60)
  <2>3. Held(s')
    BY <1>4, <2>2, AlikeHeld, SMTT(60)
  <2>4. Promised'
    BY <1>1, <1>3, <2>1, <2>2, AlikePromised, SMTT(60) DEF Alike
  <2>5. Retries(s')
    BY <1>1, <1>3, <2>1, <2>2, ConstantsAssumption, SMTT(60) DEF Retries, IsSender
  <2> QED BY <2>3, <2>4, <2>5, SMTT(60)
<1>11. CASE SendEmpty
  <2> DEFINE q == Append(x.segments_out, [NewSegment EXCEPT !.seqno = wrap(x.next_seqno, x.isn)])
  <2>1. s' = [x EXCEPT !.segments_out = q] /\ edge' = edge
    BY <1>11 DEF SendEmpty, send_empty_segment
  <2> HIDE DEF x, q
  <2>2. /\ Alike(x, s')
        /\ s'.consecutive_retransmissions = x.consecutive_retransmissions
    BY <1>3, <2>1, SMTT(60) DEF IsSender, IsRecord, SenderFields, Alike
  <2>3. Held(s')
    BY <1>4, <2>2, AlikeHeld, SMTT(60)
  <2>4. Promised'
    BY <1>1, <1>3, <2>1, <2>2, AlikePromised, SMTT(60) DEF Alike
  <2> QED BY <1>1, <1>3, <2>2, <2>3, <2>4, SMTT(60) DEF Retries
<1> QED BY <1>6, <1>7, <1>8, <1>9, <1>10, <1>11, SMTT(60) DEF Next

\* It holds in every reachable state.
THEOREM CompleteHolds == Spec => []Complete
<1>1. Complete /\ UNCHANGED vars => Complete'
  BY DEF Complete, Sound, Held, Retries, Promised, vars
<1> QED BY <1>1, InitComplete, NextComplete, PTL DEF Spec

\* The sender's numbers, its timer and its buffer stay within their bounds.
THEOREM SenderTypeCorrect == Spec => []TypeOK
<1>1. Complete => TypeOK
  <2> SUFFICES ASSUME Complete PROVE TypeOK
    BY SMTT(60)
  <2>1. IsSender(s) /\ Counted(s) /\ Held(s) /\ Stored(s) /\ Retries(s)
    BY SMTT(60) DEF Complete, Sound, Held
  <2>2. s.next_seqno \in 0 .. (StreamLen + 2) /\ s.send_base \in 0 .. (StreamLen + 2)
        /\ s.window_size \in Nat \ {0}
    BY <2>1, NumbersBounded, Half, SMTT(60) DEF Held
  <2>3. s.consecutive_retransmissions \in 0 .. (MaxRetx + 1)
    BY <2>1, ConstantsAssumption, SMTT(60) DEF IsSender, Retries
  <2>4. s.timer \in [running : BOOLEAN, total_time : Nat, rt_timeout : Nat]
    BY <2>1, SMTT(60) DEF IsSender, IsTimer
  <2>5. buffer_size(s.stream) <= SendCapacity
    BY <2>1, SMTT(60) DEF IsSender, IsStream, Stored, buffer_size
  <2> QED BY <2>2, <2>3, <2>4, <2>5, SMTT(60) DEF TypeOK
<1> QED BY <1>1, CompleteHolds, PTL

\* What is linked ends behind its start.
LEMMA Ahead ==
  ASSUME NEW q, NEW lo \in Nat, NEW hi, Linked(q, lo, hi), q # << >>
  PROVE  lo < hi
<1> DEFINE n == Len(q)
           I == {i \in 1 .. n : ~ (lo < Stop(q[i]))}
<1>1. /\ q \in Seq(Segments) /\ n \in Nat /\ n # 0
      /\ \A i \in 1 .. n : Sane(q[i])
      /\ \A i \in 1 .. (n - 1) : Stop(q[i]) = Pos(q[i + 1])
      /\ lo < Stop(q[1]) /\ Stop(q[n]) = hi
  BY SMTT(60) DEF Linked, Chained
<1> HIDE DEF n
<1>2. \A i \in 1 .. n : Pos(q[i]) \in Nat /\ Stop(q[i]) \in Nat /\ Pos(q[i]) < Stop(q[i])
  BY <1>1, Places, SMTT(60)
<1>3. PICK i \in 1 .. (n + 1) : (i <= n => i \in I) /\ \A j \in 1 .. (i - 1) : j \notin I
  <2>1. I \in SUBSET (1 .. n)
    OBVIOUS
  <2> HIDE DEF I
  <2> QED BY <1>1, <2>1, FirstOne, ZenonT(60)
<1>4. CASE i = n + 1
  <2>1. n \in 1 .. n /\ n \in 1 .. (i - 1)
    BY <1>1, <1>4
  <2> QED BY <1>1, <1>3, <2>1
<1>5. CASE i <= n
  <2>1. i \in 1 .. n /\ ~ (lo < Stop(q[i])) /\ i # 1
    BY <1>1, <1>3, <1>5
  <2> DEFINE j == i - 1
  <2>2. j \in 1 .. n /\ j \in 1 .. (n - 1) /\ j \in 1 .. (i - 1) /\ j + 1 = i
    BY <1>1, <2>1, SMTT(60)
  <2> HIDE DEF j
  <2>3. lo < Stop(q[j]) /\ Stop(q[j]) = Pos(q[i])
    BY <1>1, <1>3, <2>2, SMTT(60)
  <2> QED BY <1>2, <2>1, <2>2, <2>3
<1> QED BY <1>1, <1>4, <1>5, SMTT(60)

\* The outstanding segments hold exactly what is sent and not acknowledged
\* (send_segment, and the popping in ack_received).
THEOREM OutstandingIsComplete == Spec => []OutstandingComplete
<1>1. Complete => OutstandingComplete
  <2> SUFFICES ASSUME Complete PROVE OutstandingComplete
    OBVIOUS
  <2> DEFINE q  == s.copy_segments_out
             hi == s.next_seqno
             lo == s.send_base
  <2>1. IsSender(s) /\ Counted(s) /\ Stored(s) /\ lo \in Nat /\ s.isn = Isn
    BY SMTT(60) DEF Complete, Sound, Held, IsSender
  <2>2. Linked(q, lo, hi) /\ Fins(q, s.fin_flag) /\ Chained(q)
    BY SMTT(60) DEF Complete, Held, Linked
  <2>3. hi \in 0 .. (StreamLen + 2)
    BY <2>1, NumbersBounded, SMTT(60)
  <2>4. q \in Seq(Segments) /\ Len(q) \in Nat /\ DOMAIN q = 1 .. Len(q)
    BY <2>2, SMTT(60) DEF Chained
  <2>5. ASSUME NEW i \in 1 .. Len(q)
        PROVE  /\ Sane(q[i]) /\ Position(q[i]) = Pos(q[i])
               /\ Position(q[i]) + length_in_sequence_space(q[i]) = Stop(q[i])
    <3>1. Sane(q[i])
      BY <2>2 DEF Chained
    <3> DEFINE seg == q[i]
    <3> HIDE DEF seg
    <3>2. Sane(seg)
      BY <3>1 DEF seg
    <3>3. unwrap(seg.seqno, Isn, hi) = Pos(seg)
      BY <2>3, <3>2, Anywhere, SMTT(60)
    <3>4. Position(seg) = Pos(seg)
      BY <2>1, <3>3 DEF Position
    <3> QED BY <3>2, <3>4, SMTT(60) DEF Stop, seg
  <2>6. q # << >> => 1 \in 1 .. Len(q) /\ Len(q) \in 1 .. Len(q)
    BY <2>4
  <2>7. q = << >> <=> lo = hi
    <3>1. q = << >> => lo = hi
      BY <2>2, SMTT(60) DEF Linked
    <3>2. q # << >> => lo < hi
      BY <2>1, <2>2, Ahead, SMTT(60)
    <3> HIDE DEF q
    <3> QED BY <2>1, <3>1, <3>2, SMTT(60)
  <2> DEFINE Last(i) == Position(q[i]) + length_in_sequence_space(q[i])
  <2>8. q # << >> => /\ Position(q[1]) <= lo /\ lo < Last(1)
                     /\ Last(Len(q)) = hi
    BY <2>2, <2>5, <2>6, SMTT(60) DEF Linked
  <2>9. \A i \in 1 .. (Len(q) - 1) : Last(i) = Position(q[i + 1])
    <3> TAKE i \in 1 .. (Len(q) - 1)
    <3>1. i \in 1 .. Len(q) /\ i + 1 \in 1 .. Len(q)
      BY <2>4, SMTT(60)
    <3>2. Stop(q[i]) = Pos(q[i + 1])
      BY <2>2, SMTT(60) DEF Chained
    <3> QED BY <2>5, <3>1, <3>2, SMTT(60)
  <2>10. \A i \in DOMAIN q :
           LET p == Position(q[i])
           IN  /\ q[i].syn <=> p = 0
               /\ q[i].fin <=> (s.fin_flag /\ i = Len(q))
               /\ p > 0 => q[i].payload = Slice(p - 1, p - 1 + Len(q[i].payload))
               /\ Len(q[i].payload) <= MAX_PAYLOAD_SIZE
    <3> TAKE i \in DOMAIN q
    <3> DEFINE seg == q[i]
    <3>1. i \in 1 .. Len(q)
      BY <2>4
    <3>2. Sane(seg) /\ Position(seg) = Pos(seg)
      BY <2>5, <3>1, SMTT(60)
    <3>3. seg.fin <=> (s.fin_flag /\ i = Len(q))
      BY <2>2, <3>1, SMTT(60) DEF Fins
    <3> HIDE DEF seg
    <3>4. /\ seg.syn <=> Pos(seg) = 0
          /\ Pos(seg) > 0 => seg.payload = Slice(Pos(seg) - 1, (Pos(seg) - 1) + Len(seg.payload))
          /\ Len(seg.payload) <= MAX_PAYLOAD_SIZE
      BY <3>2 DEF Sane
    <3> QED BY <3>2, <3>3, <3>4, SMTT(60) DEF seg
  <2> QED BY <2>7, <2>8, <2>9, <2>10, SMTT(60) DEF OutstandingComplete
<1> QED BY <1>1, CompleteHolds, PTL

\* While the acknowledgments are those of a correct receiver, in order,
\* whatever is newly sent fits in the window told last (fill_window).
THEOREM PromiseKept == Spec => PromiseRespected
<1>1. Complete /\ [Next]_vars =>
        [s.next_seqno < s'.next_seqno /\ edge' # -1 =>
           s'.next_seqno <= s'.send_base + s'.window_size]_vars
  <2> SUFFICES ASSUME Complete, Next, edge' # -1
               PROVE  s'.next_seqno <= s'.send_base + s'.window_size
    OBVIOUS
  <2>1. Complete'
    BY NextComplete
  <2> QED BY <2>1 DEF Complete, Promised
<1> QED BY <1>1, CompleteHolds, PTL DEF Spec, PromiseRespected
===============================================================================
