----------------------------- MODULE SenderProofs -----------------------------
(***************************************************************************)
(* Proofs about TCPSenderSpec, for every stream, capacity, window, payload *)
(* size and modulus, and any acknowledgments: which sequence numbers are   *)
(* used, when the FIN goes out and when the timer runs.                    *)
(***************************************************************************)
EXTENDS TCPSenderSpec, WellFoundedInduction, TLAPS

\* A leaf that names no prover is tried with these.
USE SMTT(60), ZenonT(60)

\* A record with these fields, and perhaps others.
IsRecord(x, fields) == x = [f \in DOMAIN x |-> x[f]] /\ fields \subseteq DOMAIN x

IsStream(b) ==
  /\ IsRecord(b, {"buf", "cap", "eof", "written", "read"})
  /\ b.buf \in Seq(Int) /\ b.cap \in Nat /\ b.eof \in BOOLEAN
  /\ b.written \in Nat /\ b.read \in Nat
  /\ Len(b.buf) = b.written - b.read /\ Len(b.buf) <= b.cap

IsTimer(t) == t \in [running : BOOLEAN, total_time : Nat, rt_timeout : Nat]

SenderFields ==
  {"isn", "initial_rto", "segments_out", "stream", "next_seqno", "timer",
   "send_base", "window_size", "window_size_zero", "syn_flag", "fin_flag",
   "copy_segments_out", "consecutive_retransmissions"}

Segments ==
  [seqno : Int, syn : BOOLEAN, fin : BOOLEAN, rst : BOOLEAN,
   ack : BOOLEAN, ackno : Int, win : Int, payload : Seq(Int)]

IsSender(x) ==
  /\ IsRecord(x, SenderFields)
  /\ IsStream(x.stream) /\ IsTimer(x.timer)
  /\ x.next_seqno \in Int /\ x.send_base \in Int /\ x.window_size \in Int
  /\ x.isn = Isn /\ x.initial_rto = InitialRTO
  /\ x.syn_flag \in BOOLEAN /\ x.fin_flag \in BOOLEAN
  /\ x.window_size_zero \in BOOLEAN /\ x.consecutive_retransmissions \in Nat
  /\ x.copy_segments_out \in Seq(Segments)

\* NumbersMatchStream and TimerRunsWhileOutstanding of x.
Counted(x) ==
  x.next_seqno = x.stream.read + (IF x.syn_flag THEN 1 ELSE 0) + (IF x.fin_flag THEN 1 ELSE 0)

Ended(x) == x.fin_flag => x.stream.eof /\ x.stream.read = x.stream.written

Timed(x) == x.timer.running <=> x.copy_segments_out # << >>

Sound(x) == IsSender(x) /\ Counted(x) /\ Ended(x) /\ Timed(x)
-------------------------------------------------------------------------------
\* start makes the timer run.
LEMMA Started ==
  ASSUME NEW t, IsTimer(t), NEW rt \in Nat
  PROVE  IsTimer(start(t, rt)) /\ start(t, rt).running = TRUE
BY ZenonT(60) DEF IsTimer, start, restart

\* What send_segments changes.
LEMMA Sent ==
  ASSUME NEW x, IsSender(x), NEW segs \in Seq(Segments), NEW total \in Int
  PROVE  LET y == send_segments(x, segs, total)
         IN  /\ IsRecord(y, SenderFields)
             /\ y.copy_segments_out = x.copy_segments_out \o segs
             /\ y.next_seqno = x.next_seqno + total
             /\ y.timer = IF x.timer.running \/ segs = << >> THEN x.timer
                          ELSE start(x.timer, x.initial_rto)
             /\ y.stream = x.stream /\ y.syn_flag = x.syn_flag /\ y.fin_flag = x.fin_flag
             /\ y.send_base = x.send_base /\ y.window_size = x.window_size /\ y.isn = x.isn
             /\ y.initial_rto = x.initial_rto /\ y.window_size_zero = x.window_size_zero
             /\ y.consecutive_retransmissions = x.consecutive_retransmissions
<1> DEFINE a == x.segments_out \o segs
           b == x.copy_segments_out \o segs
           n == x.next_seqno + total
           t == IF x.timer.running \/ segs = << >> THEN x.timer
                ELSE start(x.timer, x.initial_rto)
<1>1. send_segments(x, segs, total) =
        [x EXCEPT !.segments_out = a, !.copy_segments_out = b, !.next_seqno = n, !.timer = t]
  BY DEF send_segments
<1>2. IsRecord(x, SenderFields)
  BY DEF IsSender
<1> HIDE DEF a, b, n, t
<1>3. LET y == [x EXCEPT !.segments_out = a, !.copy_segments_out = b,
                         !.next_seqno = n, !.timer = t]
      IN  /\ IsRecord(y, SenderFields)
          /\ y.copy_segments_out = b /\ y.next_seqno = n /\ y.timer = t
          /\ y.stream = x.stream /\ y.syn_flag = x.syn_flag /\ y.fin_flag = x.fin_flag
          /\ y.send_base = x.send_base /\ y.window_size = x.window_size /\ y.isn = x.isn
          /\ y.initial_rto = x.initial_rto /\ y.window_size_zero = x.window_size_zero
          /\ y.consecutive_retransmissions = x.consecutive_retransmissions
  BY <1>2, ZenonT(60) DEF IsRecord, SenderFields
<1> QED BY <1>1, <1>3 DEF b, n, t

\* send_segments keeps the timer running exactly while something is outstanding.
LEMMA SentTimed ==
  ASSUME NEW x, IsSender(x), NEW segs \in Seq(Segments), NEW total \in Int
  PROVE  LET y == send_segments(x, segs, total) IN IsSender(y) /\ (Timed(x) => Timed(y))
<1> DEFINE y == send_segments(x, segs, total)
           q == x.copy_segments_out
<1>1. /\ IsRecord(y, SenderFields)
      /\ y.copy_segments_out = q \o segs
      /\ y.next_seqno = x.next_seqno + total
      /\ y.timer = IF x.timer.running \/ segs = << >> THEN x.timer
                   ELSE start(x.timer, x.initial_rto)
      /\ y.stream = x.stream /\ y.syn_flag = x.syn_flag /\ y.fin_flag = x.fin_flag
      /\ y.send_base = x.send_base /\ y.window_size = x.window_size /\ y.isn = x.isn
      /\ y.initial_rto = x.initial_rto /\ y.window_size_zero = x.window_size_zero
      /\ y.consecutive_retransmissions = x.consecutive_retransmissions
  BY Sent
<1> HIDE DEF y
<1>2. q \in Seq(Segments) /\ q \o segs \in Seq(Segments)
  BY DEF IsSender
<1>3. q \o segs = << >> <=> q = << >> /\ segs = << >>
  BY <1>2
<1>4. IsTimer(x.timer) /\ IsTimer(start(x.timer, x.initial_rto))
      /\ start(x.timer, x.initial_rto).running = TRUE
  <2>1. IsTimer(x.timer) /\ x.initial_rto \in Nat
    BY ConstantsAssumption DEF IsSender
  <2> QED BY <2>1, Started, ZenonT(60)
<1>5. IsTimer(y.timer)
  BY <1>1, <1>4
<1>6. Timed(x) => Timed(y)
  BY <1>1, <1>3, <1>4 DEF Timed, IsTimer
<1>7. IsSender(y)
  BY <1>1, <1>2, <1>5 DEF IsSender
<1> QED BY <1>6, <1>7 DEF y
-------------------------------------------------------------------------------
\* The initial sequence number is an integer.
LEMMA IsnInt == Isn \in Int
BY ConstantsAssumption, ModuliAssumption

\* wrap and unwrap give integers.
LEMMA WrapInt == ASSUME NEW n \in Int, NEW i \in Int PROVE wrap(n, i) \in Int
BY ModuliAssumption DEF wrap

LEMMA UnwrapInt ==
  ASSUME NEW n \in Int, NEW i \in Int, NEW c \in Int PROVE unwrap(n, i, c) \in Int
<1>1. (n - i) % SeqModulus \in Int /\ c % SeqModulus \in Int
  BY ModuliAssumption
<1> QED BY <1>1, ModuliAssumption DEF unwrap

\* What a new segment is turned into by filling in its fields.
LEMMA NewSegments ==
  ASSUME NEW n \in Int, NEW v \in BOOLEAN, NEW d \in Seq(Int)
  PROVE  [NewSegment EXCEPT !.seqno = n, !.fin = v, !.payload = d] \in Segments
<1>1. NewSegment \in Segments
  BY DEF NewSegment, Segments
<1> DEFINE seg == NewSegment
<1> HIDE DEF seg
<1>2. seg \in Segments
  BY <1>1 DEF seg
<1>3. [seg EXCEPT !.seqno = n, !.fin = v, !.payload = d] \in Segments
  BY <1>2, ZenonT(60) DEF Segments
<1> QED BY <1>3 DEF seg

\* One more segment is outstanding in y than in x: seg with its number.
Copied(x, y, seg) ==
  \E new \in Segments :
    /\ y.copy_segments_out = x.copy_segments_out \o <<new>>
    /\ new.seqno = wrap(x.next_seqno, Isn) /\ new.syn = seg.syn
    /\ new.fin = seg.fin /\ new.payload = seg.payload

\* The one segment that carries the SYN or the FIN, or neither.
LEMMA SentOne ==
  ASSUME NEW x, IsSender(x), NEW seg \in Segments
  PROVE  LET y == send_segment(x, seg)
         IN  /\ IsSender(y) /\ (Timed(x) => Timed(y))
             /\ y.next_seqno = x.next_seqno + length_in_sequence_space(seg)
             /\ y.stream = x.stream /\ y.syn_flag = x.syn_flag /\ y.fin_flag = x.fin_flag
             /\ y.send_base = x.send_base /\ y.window_size = x.window_size
             /\ y.window_size_zero = x.window_size_zero
             /\ y.consecutive_retransmissions = x.consecutive_retransmissions
             /\ Copied(x, y, seg)
<1> DEFINE numbered == [seg EXCEPT !.seqno = wrap(x.next_seqno, x.isn)]
           n == length_in_sequence_space(seg)
<1>0. x.next_seqno \in Int /\ x.isn \in Int
  BY IsnInt DEF IsSender
<1>1. wrap(x.next_seqno, x.isn) \in Int
  BY <1>0, WrapInt, ZenonT(60)
<1>2. numbered \in Segments
  BY <1>1, ZenonT(60) DEF Segments
<1>3. n \in Int
  BY DEF length_in_sequence_space, Segments
<1>4. send_segment(x, seg) = send_segments(x, <<numbered>>, n)
  BY DEF send_segment
<1>5. <<numbered>> \in Seq(Segments)
  BY <1>2
<1>a. /\ numbered.seqno = wrap(x.next_seqno, Isn) /\ numbered.syn = seg.syn
      /\ numbered.fin = seg.fin /\ numbered.payload = seg.payload
  BY <1>1 DEF Segments, IsSender
<1> DEFINE segs == <<numbered>>
           y    == send_segments(x, segs, n)
<1> HIDE DEF numbered, n, segs
<1>6. segs \in Seq(Segments)
  BY <1>5 DEF segs
<1>7. IsSender(y) /\ (Timed(x) => Timed(y))
  BY <1>3, <1>6, SentTimed
<1>8. /\ y.next_seqno = x.next_seqno + n
      /\ y.stream = x.stream /\ y.syn_flag = x.syn_flag /\ y.fin_flag = x.fin_flag
      /\ y.send_base = x.send_base /\ y.window_size = x.window_size
      /\ y.window_size_zero = x.window_size_zero
      /\ y.consecutive_retransmissions = x.consecutive_retransmissions
      /\ y.copy_segments_out = x.copy_segments_out \o segs
  BY <1>3, <1>6, Sent
<1>9. send_segment(x, seg) = y
  BY <1>4 DEF segs
<1>10. y.copy_segments_out = x.copy_segments_out \o <<numbered>>
  BY <1>8 DEF segs
<1> HIDE DEF y
<1>11. Copied(x, y, seg)
  BY <1>2, <1>a, <1>10, ZenonT(60) DEF Copied
<1> QED BY <1>7, <1>8, <1>9, <1>11 DEF n

\* Setting a flag touches nothing else.
LEMMA Flagged ==
  ASSUME NEW x, IsSender(x), NEW v \in BOOLEAN
  PROVE  /\ LET y == [x EXCEPT !.syn_flag = v]
            IN  /\ IsSender(y) /\ (Timed(x) => Timed(y)) /\ y.syn_flag = v
                /\ y.stream = x.stream /\ y.next_seqno = x.next_seqno
                /\ y.fin_flag = x.fin_flag /\ y.copy_segments_out = x.copy_segments_out
                /\ y.send_base = x.send_base /\ y.window_size = x.window_size
                /\ y.window_size_zero = x.window_size_zero
                /\ y.consecutive_retransmissions = x.consecutive_retransmissions
         /\ LET y == [x EXCEPT !.fin_flag = v]
            IN  /\ IsSender(y) /\ (Timed(x) => Timed(y)) /\ y.fin_flag = v
                /\ y.stream = x.stream /\ y.next_seqno = x.next_seqno
                /\ y.syn_flag = x.syn_flag /\ y.copy_segments_out = x.copy_segments_out
                /\ y.send_base = x.send_base /\ y.window_size = x.window_size
                /\ y.window_size_zero = x.window_size_zero
                /\ y.consecutive_retransmissions = x.consecutive_retransmissions
BY SMTT(60), Zenon DEF IsSender, IsRecord, SenderFields, Timed
-------------------------------------------------------------------------------
\* Reading n of the waiting bytes.
LEMMA ReadBytes ==
  ASSUME NEW b, IsStream(b), NEW n \in 0 .. Len(b.buf)
  PROVE  LET r == read(b, n)
         IN  /\ IsStream(r) /\ r.read = b.read + n /\ r.written = b.written
             /\ r.eof = b.eof /\ r.cap = b.cap /\ Len(r.buf) = Len(b.buf) - n
             /\ r.buf = SubSeq(b.buf, n + 1, Len(b.buf))
<1> DEFINE left == SubSeq(b.buf, n + 1, Len(b.buf))
           sum  == b.read + n
<1>1. b.buf \in Seq(Int) /\ Len(b.buf) \in Nat
  BY DEF IsStream
<1>2. Least(n, buffer_size(b)) = n
  BY <1>1 DEF Least, buffer_size
<1>3. left \in Seq(Int) /\ Len(left) = Len(b.buf) - n
  BY <1>1
<1>4. read(b, n) = [b EXCEPT !.buf = left, !.read = sum]
  BY <1>2 DEF read, pop_output, Substr
<1>5. IsRecord(b, {"buf", "cap", "eof", "written", "read"})
  BY DEF IsStream
<1>6. b.read \in Nat /\ sum \in Nat /\ sum = b.read + n
  BY <1>1 DEF IsStream
<1> HIDE DEF left, sum
<1>7. LET r == [b EXCEPT !.buf = left, !.read = sum]
      IN  /\ IsRecord(r, {"buf", "cap", "eof", "written", "read"})
          /\ r.buf = left /\ r.read = sum
          /\ r.cap = b.cap /\ r.eof = b.eof /\ r.written = b.written
  BY <1>5, ZenonT(60) DEF IsRecord
<1>8. IsStream([b EXCEPT !.buf = left, !.read = sum])
  BY <1>1, <1>3, <1>6, <1>7, SMTT(60), Zenon DEF IsStream
<1> QED BY <1>3, <1>4, <1>6, <1>7, <1>8, ZenonT(60) DEF left

\* One pass of the loop of fill_window.
LEMMA FilledPayload ==
  ASSUME NEW x, IsSender(x), Counted(x), x.fin_flag = FALSE
  PROVE  LET y == fill_payload(x)
         IN  IsSender(y) /\ Counted(y) /\ Ended(y) /\ (Timed(x) => Timed(y))
<1> DEFINE rem    == Remaining(x)
           total  == Least(rem, buffer_size(x.stream))
           Cut(k) == Least(k * MAX_PAYLOAD_SIZE, total)
           n      == (total + MAX_PAYLOAD_SIZE - 1) \div MAX_PAYLOAD_SIZE
           rest   == read(x.stream, total)
           fin    == at_eof(rest) /\ total + 1 <= rem
           Seg(k) == [NewSegment EXCEPT
                        !.seqno   = wrap(x.next_seqno + Cut(k - 1), x.isn),
                        !.fin     = fin /\ k = n,
                        !.payload = SubSeq(x.stream.buf, Cut(k - 1) + 1, Cut(k))]
           segs   == [k \in 1 .. n |-> Seg(k)]
           used   == IF fin THEN total + 1 ELSE total
           flag   == x.fin_flag \/ fin
           z      == [x EXCEPT !.stream = rest, !.fin_flag = flag]
<1>1. fill_payload(x) = send_segments(z, segs, used)
  BY DEF fill_payload
<1>2. rem \in Nat
  BY ModuliAssumption, SMTT(60), Zenon DEF Remaining, bytes_in_flight, IsSender
<1>3. x.stream.buf \in Seq(Int) /\ Len(x.stream.buf) \in Nat /\ IsStream(x.stream)
  BY SMTT(60) DEF IsSender, IsStream
<1>4. total \in 0 .. Len(x.stream.buf)
  BY <1>2, <1>3 DEF Least, buffer_size
<1>5. n \in Nat
  BY <1>4, PayloadAssumption, SMTT(60), Zenon
<1>6. IsStream(rest) /\ rest.read = x.stream.read + total /\ rest.written = x.stream.written
      /\ rest.eof = x.stream.eof
  BY <1>3, <1>4, ReadBytes
<1>7. fin \in BOOLEAN /\ flag \in BOOLEAN /\ (flag <=> fin)
  BY DEF at_eof
<1>8. segs \in Seq(Segments)
  <2>1. ASSUME NEW k \in 1 .. n PROVE Seg(k) \in Segments
    <3> HIDE DEF total, n, fin, rest, rem
    <3>1. /\ k * MAX_PAYLOAD_SIZE \in Nat /\ (k - 1) * MAX_PAYLOAD_SIZE \in Nat
          /\ (k - 1) * MAX_PAYLOAD_SIZE <= k * MAX_PAYLOAD_SIZE
      BY <1>5, PayloadAssumption
    <3>2. Cut(k - 1) \in 0 .. total /\ Cut(k) \in 0 .. total
      BY <1>3, <1>4, <3>1 DEF Least
    <3> HIDE DEF Cut
    <3>3. SubSeq(x.stream.buf, Cut(k - 1) + 1, Cut(k)) \in Seq(Int)
      BY <1>3, <1>4, <3>2, SMTT(60), Zenon
    <3>4. x.next_seqno + Cut(k - 1) \in Int /\ x.isn \in Int
      BY <1>4, <3>2, IsnInt, SMTT(60), Zenon DEF IsSender
    <3>5. wrap(x.next_seqno + Cut(k - 1), x.isn) \in Int
      BY <3>4, WrapInt, ZenonT(60)
    <3>6. (fin /\ k = n) \in BOOLEAN
      OBVIOUS
    <3> QED BY <3>3, <3>5, <3>6, NewSegments, ZenonT(60)
  <2> HIDE DEF Seg, n
  <2> QED BY <1>5, <2>1, SMTT(60), Zenon
<1>9. used \in Int /\ used = total + (IF fin THEN 1 ELSE 0)
  BY <1>3, <1>4
<1> HIDE DEF rem, total, n, rest, fin, segs, used, flag
<1>11. /\ IsSender(z) /\ (Timed(x) => Timed(z))
       /\ z.stream = rest /\ z.fin_flag = flag
       /\ z.next_seqno = x.next_seqno /\ z.syn_flag = x.syn_flag
  <2>1. IsStream(rest) /\ flag \in BOOLEAN
    BY <1>6, <1>7
  <2> QED BY <2>1, ZenonT(60) DEF IsSender, IsRecord, SenderFields, Timed
<1> HIDE DEF z
<1> DEFINE y == send_segments(z, segs, used)
<1>12. IsSender(y) /\ (Timed(z) => Timed(y))
  BY <1>8, <1>9, <1>11, SentTimed
<1>13. /\ y.next_seqno = z.next_seqno + used /\ y.stream = z.stream
       /\ y.syn_flag = z.syn_flag /\ y.fin_flag = z.fin_flag
  BY <1>8, <1>9, <1>11, Sent, SMTT(60), Zenon
<1> HIDE DEF y
<1>14. Counted(y)
  <2>1. /\ total \in Int /\ x.stream.read \in Int
        /\ x.next_seqno = x.stream.read + (IF x.syn_flag THEN 1 ELSE 0)
    BY <1>3, <1>4, SMTT(60), Zenon DEF Counted, IsStream
  <2>2. /\ y.next_seqno = x.next_seqno + total + (IF fin THEN 1 ELSE 0)
        /\ y.stream.read = x.stream.read + total
        /\ y.syn_flag = x.syn_flag /\ y.fin_flag = flag
    BY <1>6, <1>9, <1>11, <1>13, <2>1 DEF IsSender
  <2> QED BY <1>7, <2>1, <2>2, SMTT(60) DEF Counted
<1>15. fin => rest.eof /\ Len(rest.buf) = 0
  BY SMTT(60), Zenon DEF fin, at_eof, buffer_empty, buffer_size
<1>16. Ended(y)
  BY <1>6, <1>7, <1>11, <1>13, <1>15 DEF Ended, IsStream
<1> QED BY <1>1, <1>11, <1>12, <1>14, <1>16 DEF y

\* A segment that carries only the SYN, or only the FIN, takes one number.
LEMMA FlagSegments ==
  /\ [NewSegment EXCEPT !.syn = TRUE] \in Segments
  /\ [NewSegment EXCEPT !.fin = TRUE] \in Segments
  /\ length_in_sequence_space([NewSegment EXCEPT !.syn = TRUE]) = 1
  /\ length_in_sequence_space([NewSegment EXCEPT !.fin = TRUE]) = 1
<1>1. NewSegment \in Segments
  BY DEF NewSegment, Segments
<1>2. NewSegment.payload = << >> /\ NewSegment.syn = FALSE /\ NewSegment.fin = FALSE
  BY DEF NewSegment
<1> DEFINE seg == NewSegment
<1> HIDE DEF seg
<1>3. seg \in Segments /\ seg.payload = << >> /\ seg.syn = FALSE /\ seg.fin = FALSE
  BY <1>1, <1>2, SMTT(60) DEF seg
<1>4. [seg EXCEPT !.syn = TRUE] \in Segments /\ [seg EXCEPT !.fin = TRUE] \in Segments
  BY <1>3, ZenonT(60) DEF Segments
<1>5. /\ length_in_sequence_space([seg EXCEPT !.syn = TRUE]) = 1
      /\ length_in_sequence_space([seg EXCEPT !.fin = TRUE]) = 1
  BY <1>3 DEF Segments, length_in_sequence_space
<1> QED BY <1>4, <1>5, SMTT(60) DEF seg

\* fill_window, whatever it has room for.
LEMMA Filled ==
  ASSUME NEW x, IsSender(x), Counted(x), Ended(x)
  PROVE  LET y == fill_window(x)
         IN  IsSender(y) /\ Counted(y) /\ Ended(y) /\ (Timed(x) => Timed(y))
<1> DEFINE y == fill_window(x)
           syn == [NewSegment EXCEPT !.syn = TRUE]
           fin == [NewSegment EXCEPT !.fin = TRUE]
<1>0. x.syn_flag \in BOOLEAN /\ x.fin_flag \in BOOLEAN /\ x.next_seqno \in Int
      /\ IsStream(x.stream)
  BY DEF IsSender
<1>1. CASE \/ x.window_size = 0 \/ x.fin_flag
           \/ x.syn_flag /\ buffer_empty(x.stream) /\ ~ x.stream.eof
  BY <1>1 DEF fill_window
<1>2. CASE ~ (\/ x.window_size = 0 \/ x.fin_flag
              \/ x.syn_flag /\ buffer_empty(x.stream) /\ ~ x.stream.eof)
  <2>0. x.fin_flag = FALSE
    BY <1>0, <1>2
  <2>1. CASE ~ x.syn_flag
    <3> DEFINE z == send_segment(x, syn)
    <3>1. y = [z EXCEPT !.syn_flag = TRUE] /\ x.syn_flag = FALSE
      BY <1>0, <1>2, <2>1 DEF fill_window
    <3>2. syn \in Segments /\ length_in_sequence_space(syn) = 1
      BY FlagSegments
    <3> HIDE DEF y, syn
    <3>3. /\ IsSender(z) /\ (Timed(x) => Timed(z)) /\ z.next_seqno = x.next_seqno + 1
          /\ z.stream = x.stream /\ z.syn_flag = x.syn_flag /\ z.fin_flag = x.fin_flag
      BY <3>2, SentOne
    <3> HIDE DEF z
    <3>4. /\ IsSender(y) /\ (Timed(z) => Timed(y)) /\ y.syn_flag = TRUE
          /\ y.stream = z.stream /\ y.next_seqno = z.next_seqno /\ y.fin_flag = z.fin_flag
      BY <3>1, <3>3, Flagged, ZenonT(60)
    <3>5. Counted(y)
      BY <1>0, <2>0, <3>1, <3>3, <3>4, SMTT(60), Zenon DEF Counted, IsStream
    <3>6. Ended(y)
      BY <2>0, <3>3, <3>4 DEF Ended
    <3> QED BY <3>3, <3>4, <3>5, <3>6 DEF y
  <2>2. CASE x.syn_flag /\ ~ at_eof(x.stream)
    <3>1. y = fill_payload(x)
      BY <1>2, <2>2 DEF fill_window
    <3>2. /\ IsSender(fill_payload(x)) /\ Counted(fill_payload(x)) /\ Ended(fill_payload(x))
          /\ Timed(x) => Timed(fill_payload(x))
      BY <2>0, FilledPayload, ZenonT(60)
    <3> QED BY <3>1, <3>2, Zenon
  <2>3. CASE x.syn_flag /\ at_eof(x.stream) /\ Remaining(x) = 0
    BY <1>2, <2>3 DEF fill_window
  <2>4. CASE x.syn_flag /\ at_eof(x.stream) /\ Remaining(x) # 0
    <3> DEFINE z == send_segment(x, fin)
    <3>1. y = [z EXCEPT !.fin_flag = TRUE]
      BY <1>2, <2>4 DEF fill_window
    <3>2. fin \in Segments /\ length_in_sequence_space(fin) = 1
      BY FlagSegments
    <3> HIDE DEF y, fin
    <3>3. /\ IsSender(z) /\ (Timed(x) => Timed(z)) /\ z.next_seqno = x.next_seqno + 1
          /\ z.stream = x.stream /\ z.syn_flag = x.syn_flag /\ z.fin_flag = x.fin_flag
      BY <3>2, SentOne
    <3> HIDE DEF z
    <3>4. /\ IsSender(y) /\ (Timed(z) => Timed(y)) /\ y.fin_flag = TRUE
          /\ y.stream = z.stream /\ y.next_seqno = z.next_seqno /\ y.syn_flag = z.syn_flag
      BY <3>1, <3>3, Flagged, ZenonT(60)
    <3>5. Counted(y)
      BY <1>0, <2>0, <3>3, <3>4, SMTT(60), Zenon DEF Counted, IsStream
    <3>6. Ended(y)
      BY <1>0, <2>4, <3>3, <3>4, SMTT(60), Zenon DEF Ended, at_eof, buffer_empty, buffer_size, IsStream
    <3> QED BY <3>3, <3>4, <3>5, <3>6 DEF y
  <2> QED BY <2>1, <2>2, <2>3, <2>4
<1> QED BY <1>1, <1>2
-------------------------------------------------------------------------------
\* A condition on 1 .. n + 1 that holds of n + 1 holds of a least number.
LEMMA FirstOne ==
  ASSUME NEW n \in Nat, NEW I \in SUBSET (1 .. n)
  PROVE  \E i \in 1 .. (n + 1) : (i <= n => i \in I) /\ \A j \in 1 .. (i - 1) : j \notin I
<1>1. CASE I = {}
  <2>1. n + 1 \in 1 .. (n + 1) /\ ~ (n + 1 <= n)
    OBVIOUS
  <2> QED BY <1>1, <2>1
<1>2. CASE I # {}
  <2>1. IsWellFoundedOn(OpToRel(<, Nat), Nat)
    BY NatLessThanWellFounded, ZenonT(60)
  <2>2. I \subseteq Nat
    OBVIOUS
  <2>3. PICK i \in I : \A j \in I : <<j, i>> \notin OpToRel(<, Nat)
    <3> HIDE DEF OpToRel
    <3> QED BY <1>2, <2>1, <2>2, WFMin, ZenonT(60)
  <2>4. \A j \in I : ~ (j < i)
    BY <2>2, <2>3, ZenonT(60) DEF OpToRel
  <2> QED BY <2>4
<1> QED BY <1>1, <1>2

\* What is left outstanding is a sequence of segments.
LEMMA StillOutstanding ==
  ASSUME NEW x, IsSender(x), NEW a
  PROVE  Unacknowledged(x, a) \in Seq(Segments)
<1> DEFINE q == x.copy_segments_out
           Open(i) == a < unwrap(q[i].seqno, x.isn, x.next_seqno) + length_in_sequence_space(q[i])
           I == {i \in 1 .. Len(q) : Open(i)}
           P(i) == (i <= Len(q) => Open(i)) /\ \A j \in 1 .. (i - 1) : ~ Open(j)
           first == CHOOSE i \in 1 .. (Len(q) + 1) : P(i)
<1>1. q \in Seq(Segments) /\ Len(q) \in Nat
  BY DEF IsSender
<1>2. Unacknowledged(x, a) = SubSeq(q, first, Len(q))
  BY DEF Unacknowledged
<1> HIDE DEF q, Open
<1>3. PICK i \in 1 .. (Len(q) + 1) : (i <= Len(q) => i \in I) /\ \A j \in 1 .. (i - 1) : j \notin I
  <2>1. I \in SUBSET (1 .. Len(q))
    OBVIOUS
  <2> HIDE DEF I
  <2> QED BY <1>1, <2>1, FirstOne, ZenonT(60)
<1>4. P(i)
  BY <1>1, <1>3
<1> HIDE DEF P
<1>5. first \in 1 .. (Len(q) + 1)
  BY <1>4
<1> HIDE DEF first
<1>6. SubSeq(q, first, Len(q)) \in Seq(Segments)
  BY <1>1, <1>5, SMTT(60)
<1> QED BY <1>2, <1>6


\* Acknowledgments, whatever they say.
LEMMA Acknowledged ==
  ASSUME NEW x, Sound(x), NEW ackno \in Int, NEW w \in Nat
  PROVE  Sound(ack_received(x, ackno, w))
<1> DEFINE absolute == unwrap(ackno, x.isn, x.send_base)
           size     == IF w = 0 THEN 1 ELSE w
           closed   == w = 0
           told     == [x EXCEPT !.window_size = size, !.window_size_zero = closed]
           open     == Unacknowledged(x, absolute)
           popped   == [told EXCEPT !.send_base = absolute, !.copy_segments_out = open]
           filled   == fill_window(popped)
           timer    == IF filled.copy_segments_out # << >>
                       THEN start(filled.timer, x.initial_rto) ELSE clear(filled.timer)
           y        == [filled EXCEPT !.consecutive_retransmissions = 0, !.timer = timer]
<1>1. ack_received(x, ackno, w) = IF x.next_seqno < absolute THEN x
                                  ELSE IF absolute <= x.send_base THEN told ELSE y
  BY DEF ack_received
<1>2. IsSender(x) /\ Counted(x) /\ Ended(x) /\ Timed(x)
  BY DEF Sound
<1>3. absolute \in Int
  <2>1. x.isn \in Int /\ x.send_base \in Int
    BY <1>2, IsnInt DEF IsSender
  <2> QED BY <2>1, UnwrapInt, ZenonT(60)
<1>4. size \in Int /\ closed \in BOOLEAN
  BY SMTT(60)
<1>5. open \in Seq(Segments)
  BY <1>2, StillOutstanding
<1> HIDE DEF absolute, size, closed, open
<1>6. IsSender(told) /\ Counted(told) /\ Ended(told) /\ Timed(told)
  <2>1. /\ IsRecord(told, SenderFields) /\ told.stream = x.stream /\ told.timer = x.timer
        /\ told.next_seqno = x.next_seqno /\ told.send_base = x.send_base
        /\ told.window_size = size /\ told.isn = x.isn /\ told.syn_flag = x.syn_flag
        /\ told.fin_flag = x.fin_flag /\ told.copy_segments_out = x.copy_segments_out
        /\ told.initial_rto = x.initial_rto /\ told.window_size_zero = closed
        /\ told.consecutive_retransmissions = x.consecutive_retransmissions
    BY <1>2, ZenonT(60) DEF IsSender, IsRecord, SenderFields
  <2> HIDE DEF told
  <2>2. IsSender(told)
    BY <1>2, <1>4, <2>1 DEF IsSender
  <2> QED BY <1>2, <2>1, <2>2, SMTT(60) DEF Counted, Ended, Timed
<1> HIDE DEF told
<1>7. IsSender(popped) /\ Counted(popped) /\ Ended(popped)
  <2>1. /\ IsRecord(popped, SenderFields) /\ popped.stream = told.stream
        /\ popped.timer = told.timer
        /\ popped.next_seqno = told.next_seqno /\ popped.send_base = absolute
        /\ popped.window_size = told.window_size /\ popped.isn = told.isn
        /\ popped.syn_flag = told.syn_flag /\ popped.fin_flag = told.fin_flag
        /\ popped.copy_segments_out = open /\ popped.initial_rto = told.initial_rto
        /\ popped.window_size_zero = told.window_size_zero
        /\ popped.consecutive_retransmissions = told.consecutive_retransmissions
    BY <1>6, ZenonT(60) DEF IsSender, IsRecord, SenderFields
  <2> HIDE DEF popped
  <2>2. IsSender(popped)
    BY <1>3, <1>5, <1>6, <2>1 DEF IsSender
  <2> QED BY <1>6, <2>1, <2>2 DEF Counted, Ended
<1> HIDE DEF popped
<1>8. IsSender(filled) /\ Counted(filled) /\ Ended(filled)
  BY <1>7, Filled
<1> HIDE DEF filled
<1>9. IsTimer(timer) /\ (timer.running <=> filled.copy_segments_out # << >>)
  <2>1. IsTimer(filled.timer)
    BY <1>8, SMTT(60) DEF IsSender
  <2>2. IsTimer(clear(filled.timer)) /\ clear(filled.timer).running = FALSE
    BY SMTT(60) DEF IsTimer, clear, NewTimer
  <2>3. IsTimer(start(filled.timer, x.initial_rto))
        /\ start(filled.timer, x.initial_rto).running = TRUE
    <3>1. x.initial_rto \in Nat
      BY <1>2, ConstantsAssumption DEF IsSender
    <3> QED BY <2>1, <3>1, Started, ZenonT(60)
  <2> QED BY <2>2, <2>3, SMTT(60)
<1> HIDE DEF timer
<1>10. Sound(y)
  <2>1. /\ IsRecord(y, SenderFields) /\ y.stream = filled.stream /\ y.timer = timer
        /\ y.next_seqno = filled.next_seqno /\ y.send_base = filled.send_base
        /\ y.window_size = filled.window_size /\ y.isn = filled.isn
        /\ y.syn_flag = filled.syn_flag /\ y.fin_flag = filled.fin_flag
        /\ y.copy_segments_out = filled.copy_segments_out /\ y.initial_rto = filled.initial_rto
        /\ y.window_size_zero = filled.window_size_zero /\ y.consecutive_retransmissions = 0
    BY <1>8, ZenonT(60) DEF IsSender, IsRecord, SenderFields
  <2> HIDE DEF y
  <2>2. IsSender(y)
    BY <1>8, <1>9, <2>1 DEF IsSender
  <2>3. Counted(y) /\ Ended(y)
    BY <1>8, <2>1 DEF Counted, Ended
  <2>4. Timed(y)
    BY <1>9, <2>1, SMTT(60) DEF Timed
  <2> QED BY <2>2, <2>3, <2>4, SMTT(60) DEF Sound
<1> HIDE DEF y
<1> QED BY <1>1, <1>6, <1>10, SMTT(60) DEF Sound


\* Giving a sender another stream.
LEMMA Restreamed ==
  ASSUME NEW x, IsSender(x), NEW v, IsStream(v)
  PROVE  LET y == [x EXCEPT !.stream = v]
         IN  /\ IsSender(y) /\ y.stream = v /\ (Timed(x) => Timed(y))
             /\ y.next_seqno = x.next_seqno
             /\ y.syn_flag = x.syn_flag /\ y.fin_flag = x.fin_flag
             /\ y.copy_segments_out = x.copy_segments_out
             /\ y.send_base = x.send_base /\ y.window_size = x.window_size
             /\ y.window_size_zero = x.window_size_zero
             /\ y.consecutive_retransmissions = x.consecutive_retransmissions
BY DEF IsSender, IsRecord, SenderFields, Timed

\* Giving it a timer that runs exactly if its own does.
LEMMA Retimed ==
  ASSUME NEW x, Sound(x), NEW v, IsTimer(v), v.running = x.timer.running
  PROVE  LET y == [x EXCEPT !.timer = v]
         IN  Sound(y) /\ y.timer = v /\ y.copy_segments_out = x.copy_segments_out
BY DEF Sound, IsSender, IsRecord, SenderFields, Counted, Ended, Timed

\* Time passes: the timer keeps running, or keeps still.
LEMMA Ticked ==
  ASSUME NEW x, Sound(x), NEW ms \in Nat PROVE Sound(sender_tick(x, ms))
<1> DEFINE t1    == [x.timer EXCEPT !.total_time = @ + ms]
           later == [x EXCEPT !.timer = t1]
           c     == later.consecutive_retransmissions + 1
           tried == [later EXCEPT !.consecutive_retransmissions = c]
           t2    == double_rto(tried.timer)
           back  == IF x.window_size_zero THEN later ELSE [tried EXCEPT !.timer = t2]
           out   == [back EXCEPT !.segments_out = Append(@, Head(x.copy_segments_out))]
           t3    == restart(out.timer)
           expired == x.copy_segments_out # << >> /\ x.timer.running /\ is_timeout(later.timer)
<1>1. sender_tick(x, ms) = IF expired THEN [out EXCEPT !.timer = t3] ELSE later
  BY SMTT(60) DEF sender_tick
<1>2. IsSender(x) /\ IsTimer(x.timer)
  BY DEF Sound, IsSender
<1>3. IsTimer(t1) /\ t1.running = x.timer.running
  BY <1>2 DEF IsTimer
<1> HIDE DEF t1
<1>4. Sound(later) /\ later.timer = t1 /\ later.copy_segments_out = x.copy_segments_out
  BY <1>2, <1>3, Retimed, SMTT(60)
<1> HIDE DEF later
<1>a. c \in Nat
  BY <1>4 DEF Sound, IsSender
<1> HIDE DEF c
<1>5. Sound(tried) /\ tried.timer = t1
  BY <1>4, <1>a, ZenonT(60) DEF Sound, IsSender, IsRecord, SenderFields, Counted, Ended, Timed
<1> HIDE DEF tried
<1>6. IsTimer(t2) /\ t2.running = tried.timer.running
  BY <1>3, <1>5 DEF IsTimer, double_rto
<1> HIDE DEF t2
<1>7. Sound([tried EXCEPT !.timer = t2]) /\ [tried EXCEPT !.timer = t2].timer = t2
  BY <1>5, <1>6, Retimed
<1>8. Sound(back) /\ IsTimer(back.timer) /\ back.timer.running = x.timer.running
  BY <1>3, <1>4, <1>5, <1>6, <1>7
<1> HIDE DEF back
<1>9. Sound(out) /\ out.timer = back.timer
  <2> DEFINE q == Append(back.segments_out, Head(x.copy_segments_out))
  <2> HIDE DEF q
  <2>1. Sound([back EXCEPT !.segments_out = q]) /\ [back EXCEPT !.segments_out = q].timer = back.timer
    BY <1>8, ZenonT(60) DEF Sound, IsSender, IsRecord, SenderFields, Counted, Ended, Timed
  <2> QED BY <2>1 DEF q
<1> HIDE DEF out
<1>10. IsTimer(t3) /\ t3.running = TRUE
  BY <1>8, <1>9, ZenonT(60) DEF IsTimer, restart
<1> HIDE DEF t3
<1>11. expired => t3.running = out.timer.running
  BY <1>8, <1>9, <1>10, ZenonT(60) DEF IsTimer
<1>12. expired => Sound([out EXCEPT !.timer = t3])
  BY <1>9, <1>10, <1>11, Retimed
<1> QED BY <1>1, <1>4, <1>12, SMTT(60)
-------------------------------------------------------------------------------
\* Joining two sequences.
LEMMA Joined ==
  ASSUME NEW S, NEW p \in Seq(S), NEW q \in Seq(S)
  PROVE  p \o q \in Seq(S) /\ Len(p \o q) = Len(p) + Len(q)
OBVIOUS

\* The writer's calls.
LEMMA Wrote ==
  ASSUME NEW b, IsStream(b), NEW n \in Nat
  PROVE  LET r == write(b, Slice(b.written, b.written + n))
         IN  /\ IsStream(r) /\ r.read = b.read /\ r.eof = b.eof /\ r.cap = b.cap
             /\ r.written \in b.written .. (b.written + n)
             /\ r.buf = b.buf \o Slice(b.written, r.written)
<1> DEFINE data == Slice(b.written, b.written + n)
           bw   == Least(Len(data), remaining_capacity(b))
           part == SubSeq(data, 1, bw)
           buf  == b.buf \o part
           sum  == b.written + bw
<1>1. /\ b.buf \in Seq(Int) /\ Len(b.buf) \in Nat /\ b.written \in Nat /\ b.read \in Nat
      /\ b.cap \in Nat /\ Len(b.buf) = b.written - b.read /\ Len(b.buf) <= b.cap
      /\ IsRecord(b, {"buf", "cap", "eof", "written", "read"}) /\ b.eof \in BOOLEAN
  BY DEF IsStream
<1>2. data \in Seq(Int) /\ Len(data) = n
  <2> DEFINE lo == b.written
             num == (lo + n) - lo
  <2>1. num = n /\ lo \in Nat
    BY <1>1
  <2>2. data = [i \in 1 .. num |-> lo + i - 1]
    BY DEF Slice
  <2> HIDE DEF lo, num, data
  <2>3. data = [i \in 1 .. n |-> lo + i - 1]
    BY <2>1, <2>2
  <2>4. \A i \in 1 .. n : lo + i - 1 \in Int
    BY <2>1
  <2> QED BY <2>3, <2>4
<1>3. write(b, data) = [b EXCEPT !.buf = buf, !.written = sum]
  BY DEF write
<1> HIDE DEF data
<1>4. bw \in 0 .. n /\ bw <= b.cap - Len(b.buf)
  BY <1>1, <1>2 DEF Least, remaining_capacity, buffer_size
<1> HIDE DEF bw
<1>5. part \in Seq(Int) /\ Len(part) = bw
  BY <1>2, <1>4
<1>a. part = Slice(b.written, b.written + bw)
  <2> DEFINE lo == b.written
  <2>1. lo \in Nat /\ part = SubSeq(Slice(lo, lo + n), 1, bw)
    BY <1>1 DEF data
  <2> HIDE DEF lo
  <2>2. SubSeq(Slice(lo, lo + n), 1, bw) = Slice(lo, lo + bw)
    BY <1>4, <2>1 DEF Slice
  <2> QED BY <2>1, <2>2, ZenonT(60) DEF lo
<1> HIDE DEF part
<1>6. buf \in Seq(Int) /\ Len(buf) = Len(b.buf) + bw
  <2> DEFINE q == b.buf
  <2>1. q \in Seq(Int)
    BY <1>1
  <2> HIDE DEF q
  <2>2. q \o part \in Seq(Int) /\ Len(q \o part) = Len(q) + Len(part)
    BY <2>1, <1>5, Joined, SMTT(60), Zenon
  <2> QED BY <1>5, <2>2 DEF q
<1>7. sum \in Nat /\ sum = b.written + bw /\ sum \in b.written .. (b.written + n)
  BY <1>1, <1>4, SMTT(60), Zenon
<1>b. buf = b.buf \o Slice(b.written, sum)
  BY <1>a
<1> HIDE DEF buf, sum
<1>8. LET r == [b EXCEPT !.buf = buf, !.written = sum]
      IN  /\ IsRecord(r, {"buf", "cap", "eof", "written", "read"})
          /\ r.buf = buf /\ r.written = sum
          /\ r.cap = b.cap /\ r.eof = b.eof /\ r.read = b.read
  BY <1>1, ZenonT(60) DEF IsRecord
<1> DEFINE r == [b EXCEPT !.buf = buf, !.written = sum]
<1> HIDE DEF r
<1>9. IsStream(r)
  <2>0. \A w, c, l, k, i \in Int : l = w - k /\ l <= c /\ i <= c - l
                                   => l + i = (w + i) - k /\ l + i <= c
    OBVIOUS
  <2>a. /\ bw \in Int /\ b.written \in Int /\ b.cap \in Int /\ b.read \in Int
        /\ Len(b.buf) \in Int
    BY <1>1, <1>4
  <2>b. Len(b.buf) + bw = (b.written + bw) - b.read /\ Len(b.buf) + bw <= b.cap
    BY <1>1, <1>4, <2>0, <2>a, SMTT(60), Zenon
  <2>1. Len(buf) = sum - b.read /\ Len(buf) <= b.cap
    BY <1>6, <1>7, <2>b
  <2>2. /\ IsRecord(r, {"buf", "cap", "eof", "written", "read"})
        /\ r.buf = buf /\ r.written = sum
        /\ r.cap = b.cap /\ r.eof = b.eof /\ r.read = b.read
    BY <1>8 DEF r
  <2> QED BY <1>1, <1>6, <1>7, <2>1, <2>2 DEF IsStream
<1> QED BY <1>3, <1>7, <1>b, <1>8, <1>9, ZenonT(60) DEF data, r

\* Ending the input.
LEMMA EndedInput ==
  ASSUME NEW b, IsStream(b)
  PROVE  LET r == end_input(b)
         IN  /\ IsStream(r) /\ r.read = b.read /\ r.written = b.written /\ r.eof = TRUE
             /\ r.buf = b.buf /\ r.cap = b.cap
BY ZenonT(60) DEF IsStream, IsRecord, end_input

\* Init.
LEMMA InitSound == Init => Sound(s)
<1> SUFFICES ASSUME Init PROVE Sound(s)
  OBVIOUS
<1> DEFINE b == NewStream(SendCapacity)
           t == NewTimer(InitialRTO)
<1>1. IsStream(b) /\ b.read = 0 /\ b.written = 0
  BY ConstantsAssumption DEF IsStream, IsRecord, NewStream
<1>2. IsTimer(t) /\ t.running = FALSE
  BY ConstantsAssumption DEF IsTimer, NewTimer
<1> HIDE DEF b, t
<1>3. /\ IsRecord(s, SenderFields) /\ s.stream = b /\ s.timer = t
      /\ s.next_seqno = 0 /\ s.send_base = 0 /\ s.window_size = 1 /\ s.isn = Isn
      /\ s.syn_flag = FALSE /\ s.fin_flag = FALSE /\ s.copy_segments_out = << >>
      /\ s.initial_rto = InitialRTO /\ s.window_size_zero = FALSE
      /\ s.consecutive_retransmissions = 0
  BY DEF Init, NewSender, IsRecord, SenderFields, b, t
<1>4. IsSender(s)
  <2>1. << >> \in Seq(Segments)
    OBVIOUS
  <2>2. 0 \in Int /\ 1 \in Int /\ 0 \in Nat
    OBVIOUS
  <2> QED BY <1>1, <1>2, <1>3, <2>1, <2>2, ZenonT(60) DEF IsSender
<1>5. Counted(s) /\ Ended(s) /\ Timed(s)
  BY <1>1, <1>2, <1>3 DEF Counted, Ended, Timed
<1> QED BY <1>4, <1>5 DEF Sound

\* The owner takes the segments.
LEMMA TakenSound == Sound(s) => Sound(Taken) /\ Taken.stream = s.stream
  /\ Taken.fin_flag = s.fin_flag
BY DEF Taken, Sound, IsSender, IsRecord, SenderFields, Counted, Ended, Timed

\* Every step keeps the sender sound.
LEMMA NextSound == Sound(s) /\ Next => Sound(s)'
<1> SUFFICES ASSUME Sound(s), Next PROVE Sound(s')
  BY SMTT(60)
<1> DEFINE x == Taken
<1>1. Sound(x) /\ IsSender(x) /\ Counted(x) /\ Ended(x) /\ Timed(x) /\ IsStream(x.stream)
  BY TakenSound DEF Sound, IsSender
<1>2. CASE Fill
  <2>1. s' = fill_window(x)
    BY <1>2, SMTT(60) DEF Fill
  <2> HIDE DEF x
  <2> QED BY <1>1, <2>1, Filled DEF Sound
<1>3. CASE Write
  <2>1. x.stream = s.stream /\ x.fin_flag = s.fin_flag
    BY TakenSound
  <2>2. PICK n \in 1 .. (StreamLen - s.stream.written) :
          s' = [x EXCEPT !.stream = write(x.stream, Slice(x.stream.written, x.stream.written + n))]
    BY <1>3, SMTT(60) DEF Write
  <2>3. n \in Nat
    BY <1>1, <2>1, ConstantsAssumption DEF IsStream
  <2> DEFINE r == write(x.stream, Slice(x.stream.written, x.stream.written + n))
  <2>4. ~ x.stream.eof
    BY <1>3, <2>1, SMTT(60), Zenon DEF Write
  <2> HIDE DEF x
  <2>5. IsStream(r) /\ r.read = x.stream.read /\ r.eof = x.stream.eof
    BY <1>1, <2>3, Wrote, ZenonT(60)
  <2> HIDE DEF r
  <2>6. s' = [x EXCEPT !.stream = r]
    BY <2>2 DEF r
  <2>7. /\ IsSender(s') /\ s'.stream = r /\ Timed(s')
        /\ s'.next_seqno = x.next_seqno
        /\ s'.syn_flag = x.syn_flag /\ s'.fin_flag = x.fin_flag
    BY <1>1, <2>5, <2>6, Restreamed, SMTT(60), Zenon
  <2>8. Counted(s')
    BY <1>1, <2>5, <2>7, SMTT(60), Zenon DEF Counted
  <2>9. Ended(s')
    BY <1>1, <2>4, <2>7 DEF Ended
  <2> QED BY <2>7, <2>8, <2>9 DEF Sound
<1>4. CASE EndInput
  <2> DEFINE r == end_input(x.stream)
  <2>1. s' = [x EXCEPT !.stream = r]
    BY <1>4, SMTT(60) DEF EndInput
  <2> HIDE DEF x
  <2>2. IsStream(r) /\ r.read = x.stream.read /\ r.written = x.stream.written /\ r.eof = TRUE
    BY <1>1, EndedInput, ZenonT(60)
  <2> HIDE DEF r
  <2>3. /\ IsSender(s') /\ s'.stream = r /\ Timed(s')
        /\ s'.next_seqno = x.next_seqno
        /\ s'.syn_flag = x.syn_flag /\ s'.fin_flag = x.fin_flag
    BY <1>1, <2>1, <2>2, Restreamed
  <2>4. Counted(s') /\ Ended(s')
    BY <1>1, <2>2, <2>3 DEF Counted, Ended
  <2> QED BY <2>3, <2>4 DEF Sound
<1>5. CASE Ack
  <2>1. PICK a \in 0 .. (s.next_seqno + 1) : \E w \in Windows :
          s' = ack_received(x, wrap(a, Isn), w)
    BY <1>5 DEF Ack
  <2>2. PICK w \in Windows : s' = ack_received(x, wrap(a, Isn), w)
    BY <2>1
  <2>3. w \in Nat
    BY <2>2, ConstantsAssumption
  <2>4. a \in Int
    BY <2>1
  <2>5. wrap(a, Isn) \in Int
    BY <2>4, IsnInt, WrapInt, SMTT(60)
  <2> HIDE DEF x
  <2> QED BY <1>1, <2>2, <2>3, <2>5, Acknowledged
<1>6. CASE Tick
  <2>1. s' = sender_tick(x, 1)
    BY <1>6, SMTT(60) DEF Tick
  <2> HIDE DEF x
  <2> QED BY <1>1, <2>1, Ticked, SMTT(60)
<1>7. CASE SendEmpty
  <2> DEFINE q == Append(x.segments_out, [NewSegment EXCEPT !.seqno = wrap(x.next_seqno, x.isn)])
  <2>1. s' = [x EXCEPT !.segments_out = q]
    BY <1>7 DEF SendEmpty, send_empty_segment
  <2> HIDE DEF x, q
  <2> QED BY <1>1, <2>1, SMTT(60), Zenon DEF Sound, IsSender, IsRecord, SenderFields, Counted, Ended, Timed
<1> QED BY <1>2, <1>3, <1>4, <1>5, <1>6, <1>7 DEF Next

\* The sender is sound in every reachable state, whatever its owner and its
\* peer do (fill_window, ack_received, tick, send_empty_segment and the
\* writer's calls, in any order).
THEOREM SoundHolds == Spec => []Sound(s)
<1>1. Sound(s) /\ UNCHANGED vars => Sound(s)'
  BY DEF vars
<1> QED BY <1>1, InitSound, NextSound, PTL DEF Spec

\* Every byte taken from the stream, the SYN and the FIN have one sequence
\* number each (_next_seqno in send_segment).
THEOREM NumbersMatch == Spec => []NumbersMatchStream
<1>1. Sound(s) => NumbersMatchStream
  BY DEF Sound, Counted, Ended, NumbersMatchStream
<1> QED BY <1>1, SoundHolds, PTL

\* The timer runs exactly while a segment is outstanding (send_segment,
\* ack_received, tick).
THEOREM TimerRuns == Spec => []TimerRunsWhileOutstanding
<1>1. Sound(s) => TimerRunsWhileOutstanding
  BY DEF Sound, Timed, TimerRunsWhileOutstanding
<1> QED BY <1>1, SoundHolds, PTL
===============================================================================
