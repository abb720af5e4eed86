---------------------------- MODULE WrappingProofs ----------------------------
(***************************************************************************)
(* Proofs about WrappingSpec, for moduli of any size: the model-checked    *)
(* instance has small ones, the code 2^32 and 2^64.                        *)
(***************************************************************************)
EXTENDS WrappingSpec, TLAPS

\* A leaf that names no prover is tried with these.
USE SMTT(60), ZenonT(60)

\* Division with remainder by the period.
LEMMA Periods ==
  ASSUME NEW x \in Int
  PROVE  /\ x % SeqModulus \in 0 .. (SeqModulus - 1) /\ x \div SeqModulus \in Int
         /\ x = SeqModulus * (x \div SeqModulus) + (x % SeqModulus)
BY ModuliAssumption

\* Two different multiples of the period are a period apart, and two.
LEMMA MultiplesApart ==
  ASSUME NEW a \in Int, NEW b \in Int
  PROVE  /\ a > b => SeqModulus * a >= SeqModulus * b + SeqModulus
         /\ a > b + 1 => SeqModulus * a >= SeqModulus * b + 2 * SeqModulus
BY ModuliAssumption

\* A number has one remainder.
LEMMA OneRemainder ==
  ASSUME NEW x \in Int, NEW q \in Int, NEW r \in 0 .. (SeqModulus - 1),
         x = SeqModulus * q + r
  PROVE  x % SeqModulus = r
<1> DEFINE S == SeqModulus
           d == x \div SeqModulus
<1>1. S \in Nat /\ S > 0
  BY ModuliAssumption
<1>2. x = S * d + (x % S) /\ x % S \in 0 .. (S - 1) /\ d \in Int
  BY Periods
<1>3. /\ d > q => S * d >= S * q + S
      /\ q > d => S * q >= S * d + S
  BY <1>2, MultiplesApart
<1> DEFINE m == x % S
           y == S * d
           z == S * q
<1>4. y \in Int /\ z \in Int
  BY <1>1, <1>2
<1>5. /\ x = y + m /\ m \in 0 .. (S - 1) /\ x = z + r
      /\ d > q => y >= z + S
      /\ q > d => z >= y + S
      /\ d = q => y = z
  BY <1>2, <1>3
<1> HIDE DEF y, z, m, d, S
<1>6. r \in 0 .. (S - 1)
  BY DEF S
<1> QED BY <1>1, <1>2, <1>4, <1>5, <1>6 DEF m, S


\* Multiples of the period are equal, next to each other, or further apart.
LEMMA MultiplesOrder ==
  ASSUME NEW a \in Int, NEW b \in Int
  PROVE  \/ SeqModulus * a = SeqModulus * b
         \/ SeqModulus * a = SeqModulus * b + SeqModulus
         \/ SeqModulus * a = SeqModulus * b - SeqModulus
         \/ SeqModulus * a >= SeqModulus * b + 2 * SeqModulus
         \/ SeqModulus * a <= SeqModulus * b - 2 * SeqModulus
<1> DEFINE S == SeqModulus
           P == S * a
           C == S * b
<1>1. S \in Nat /\ P \in Int /\ C \in Int
  BY ModuliAssumption
<1>2. a > b + 1 => P >= C + 2 * S
  BY MultiplesApart
<1>3. b > a + 1 => C >= P + 2 * S
  BY MultiplesApart
<1>4. a = b + 1 => P = C + S
  BY <1>1
<1>5. b = a + 1 => C = P + S
  BY <1>1
<1>6. a = b => P = C
  OBVIOUS
<1> HIDE DEF S, P, C
<1>7. P = C \/ P = C + S \/ P = C - S \/ P >= C + 2 * S \/ P <= C - 2 * S
  BY <1>1, <1>2, <1>3, <1>4, <1>5, <1>6
<1> QED BY <1>7 DEF P, C, S

\* A natural number is a period's start, a multiple that is not negative, and
\* a remainder.
LEMMA Start ==
  ASSUME NEW x \in Nat
  PROVE  \E q \in Int : /\ x = SeqModulus * q + (x % SeqModulus) /\ SeqModulus * q \in Int
                        /\ SeqModulus * q = 0 \/ SeqModulus * q >= SeqModulus
<1> DEFINE S == SeqModulus
           q == x \div S
           X == S * q
           r == x % S
<1>1. S \in Nat /\ S > 0 /\ q \in Int /\ r \in 0 .. (S - 1) /\ x = X + r
  BY Periods, ModuliAssumption
<1>2. X \in Int
  BY <1>1
<1>3. /\ q > 0 => X >= S * 0 + S
      /\ 0 > q => S * 0 >= X + S
  BY <1>1, MultiplesApart
<1>4. S * 0 = 0 /\ (q = 0 => X = 0)
  BY <1>1
<1> DEFINE zero == S * 0
<1>5. zero = 0 /\ (q > 0 => X >= zero + S) /\ (0 > q => zero >= X + S)
  BY <1>3, <1>4
<1> HIDE DEF S, X, r, q, zero
<1>6. X = 0 \/ X >= S
  BY <1>1, <1>2, <1>4, <1>5
<1> QED BY <1>1, <1>2, <1>6 DEF X, S, r

\* The absolute numbers have a period at least.
LEMMA OnePeriod == MaxAbsolute \in Nat
<1>1. ASSUME AbsModulus < SeqModulus PROVE FALSE
  BY <1>1, ModuliAssumption
<1> QED BY <1>1, ModuliAssumption DEF MaxAbsolute

\* wrap forgets the period of a number and the place where the absolute
\* numbers end, and keeps the place within the period.
LEMMA SamePlace ==
  ASSUME NEW v \in 0 .. (AbsModulus - 1), NEW i \in 0 .. (SeqModulus - 1),
         NEW n \in 0 .. (SeqModulus - 1)
  PROVE  wrap(v, i) = n <=> v % SeqModulus = (n - i) % SeqModulus
<1> DEFINE S == SeqModulus
           A == AbsModulus
           y == (v + i) % A
           t == A \div S
           a == (v + i) \div S
           w == (v + i) % S
           b == (n - i) \div S
           low == (n - i) % S
           e == v \div S
           r == v % S
<1>1. S \in Nat /\ S > 0 /\ A \in Nat /\ A > 0 /\ S <= A /\ v \in Nat /\ i \in Nat /\ n \in Nat
  BY ModuliAssumption, OnePeriod DEF MaxAbsolute
<1>2. /\ A = S * t /\ t \in Int
      /\ v + i = S * a + w /\ w \in 0 .. (S - 1) /\ a \in Int
      /\ n - i = S * b + low /\ low \in 0 .. (S - 1) /\ b \in Int
      /\ v = S * e + r /\ r \in 0 .. (S - 1) /\ e \in Int
  BY <1>1, Periods, ModuliAssumption
<1>3. y = v + i \/ y = v + i - A
  <2>1. v + i < A => y = v + i
    BY <1>1
  <2>2. v + i >= A => (v + i - A) \in 0 .. (A - 1)
    BY <1>1
  <2>3. v + i >= A => y = v + i - A
    BY <1>1, <2>2
  <2> QED BY <1>1, <2>1, <2>3
<1>4. wrap(v, i) = y % S
  BY DEF wrap
<1> HIDE DEF A, y, t, a, w, b, low, e, r
<1>5. y % S = w
  <2>1. CASE y = v + i
    BY <2>1 DEF w
  <2>2. CASE y = v + i - A
    <3>1. S * (a - t) = S * a - S * t
      BY <1>1, <1>2
    <3>2. y = S * (a - t) + w /\ y \in Int
      BY <1>1, <1>2, <2>2, <3>1
    <3> QED BY <1>2, <3>2, OneRemainder
  <2> QED BY <1>3, <2>1, <2>2
<1>6. w = n => r = low
  <2>1. S * (a + b) = S * a + S * b
    BY <1>1, <1>2
  <2>2. w = n => v = S * (a + b) + low
    BY <1>1, <1>2, <2>1
  <2> DEFINE m == a + b
  <2>3. m \in Int /\ v \in Int /\ (w = n => v = S * m + low)
    BY <1>1, <1>2, <2>2
  <2> HIDE DEF m
  <2>4. w = n => v % S = low
    BY <1>2, <2>3, OneRemainder
  <2> QED BY <2>4 DEF r
<1>7. r = low => w = n
  <2>1. S * (e - b) = S * e - S * b
    BY <1>1, <1>2
  <2>2. r = low => v + i = S * (e - b) + n
    BY <1>1, <1>2, <2>1
  <2> DEFINE m == e - b
             x == v + i
  <2>3. m \in Int /\ x \in Int /\ (r = low => x = S * m + n)
    BY <1>1, <1>2, <2>2
  <2> HIDE DEF m, x
  <2>4. r = low => x % S = n
    BY <2>3, OneRemainder
  <2> QED BY <2>4 DEF w, x
<1> QED BY <1>4, <1>5, <1>6, <1>7 DEF r, low

\* No number that wraps to n is closer to the checkpoint than unwrap's.
LEMMA Closest ==
  ASSUME NEW n \in 0 .. (SeqModulus - 1), NEW i \in 0 .. (SeqModulus - 1),
         NEW c \in Nat, c <= MaxAbsolute
  PROVE  LET u == unwrap(n, i, c)
         IN  /\ u \in 0 .. (AbsModulus - 1) /\ wrap(u, i) = n
             /\ \A v \in 0 .. (AbsModulus - 1) :
                  wrap(v, i) = n => Distance(u, c) <= Distance(v, c)
<1> DEFINE S == SeqModulus
           A == AbsModulus
           h == SeqModulus \div 2
           low == (n - i) % S
           k == c % S
           absolute == low + (c - k)
           u == unwrap(n, i, c)
<1>1. u = IF c <= low THEN low
          ELSE IF Distance(c, absolute) <= h THEN absolute
          ELSE IF c <= absolute THEN IF S <= absolute THEN absolute - S ELSE absolute
          ELSE (absolute + S) % A
  BY DEF unwrap
<1>2. S \in Nat /\ S > 0 /\ h \in Nat /\ S = 2 * h /\ A \in Nat /\ S <= A /\ c + S <= A
  BY ModuliAssumption, OnePeriod DEF MaxAbsolute
<1>3. low \in 0 .. (S - 1) /\ k \in 0 .. (S - 1)
  BY Periods
<1>4. PICK q \in Int : c = S * q + k /\ S * q \in Int /\ (S * q = 0 \/ S * q >= S)
  BY Start
<1> DEFINE C == S * q
<1>5. C \in Int /\ c = C + k /\ (C = 0 \/ C >= S)
  BY <1>4
<1>6. absolute = C + low
  <2> HIDE DEF C, low, k, S
  <2> QED BY <1>2, <1>3, <1>5
<1>7. S * (q + 1) = C + S /\ S * (q - 1) = C - S /\ S * 0 = 0
  BY <1>2
\* u is C, or a neighbour of it, with low.
<1>8. /\ \/ u = low /\ c <= low /\ C = 0
         \/ u = C + low /\ low - k <= h /\ k - low <= h
         \/ u = C - S + low /\ low - k > h /\ C >= S
         \/ u = C + S + low /\ k - low > h
      /\ u \in 0 .. (A - 1)
  <2> HIDE DEF C, low, k, S, A, h, absolute, u
  <2>1. CASE c <= low
    BY <1>1, <1>2, <1>3, <1>5, <2>1
  <2>2. CASE c > low /\ Distance(c, absolute) <= h
    BY <1>1, <1>2, <1>3, <1>5, <1>6, <2>2 DEF Distance
  <2>3. CASE c > low /\ Distance(c, absolute) > h /\ c <= absolute
    BY <1>1, <1>2, <1>3, <1>5, <1>6, <2>3 DEF Distance
  <2>4. CASE c > low /\ Distance(c, absolute) > h /\ c > absolute
    <3>1. k - low > h /\ C + S + low < A /\ C + S + low >= 0 /\ absolute + S = C + S + low
      BY <1>2, <1>3, <1>5, <1>6, <2>4 DEF Distance
    <3>2. (absolute + S) % A = absolute + S
      BY <1>2, <1>3, <1>5, <3>1
    <3>3. u = (absolute + S) % A
      BY <1>1, <1>2, <1>3, <1>5, <1>6, <2>4 DEF Distance
    <3> QED BY <1>2, <1>3, <1>5, <3>1, <3>2, <3>3
  <2> QED BY <1>2, <1>3, <1>5, <1>6, <2>1, <2>2, <2>3, <2>4 DEF Distance
<1>9. u % S = low
  <2> HIDE DEF u, low, k, h, absolute
  <2>1. \E m \in Int : u = S * m + low
    <3>1. u \in {S * 0 + low, S * q + low, S * (q - 1) + low, S * (q + 1) + low}
      BY <1>2, <1>3, <1>5, <1>7, <1>8
    <3> QED BY <3>1
  <2> QED BY <1>3, <1>8, <2>1, OneRemainder
<1>10. wrap(u, i) = n
  <2> HIDE DEF u
  <2> QED BY <1>8, <1>9, SamePlace
<1>11. ASSUME NEW v \in 0 .. (AbsModulus - 1), wrap(v, i) = n
       PROVE  Distance(u, c) <= Distance(v, c)
  <2>1. v % S = low
    BY <1>11, SamePlace
  <2>2. PICK m \in Int : v = S * m + low /\ S * m \in Int /\ (S * m = 0 \/ S * m >= S)
    BY <2>1, Start
  <2> DEFINE V == S * m
  <2>3. V \in Int /\ v = V + low /\ (V = 0 \/ V >= S)
    BY <2>2
  <2>4. V = C \/ V = C + S \/ V = C - S \/ V >= C + 2 * S \/ V <= C - 2 * S
    BY MultiplesOrder
  <2> HIDE DEF u, low, k, h, S, C, V, absolute
  <2> QED BY <1>2, <1>3, <1>5, <1>8, <2>3, <2>4 DEF Distance
<1> HIDE DEF u
<1> QED BY <1>8, <1>10, <1>11 DEF u

\* A position less than half a period from the checkpoint is found again: two
\* numbers that wrap alike and are both that close are equal.
LEMMA FoundAgain ==
  ASSUME NEW p \in 0 .. (MaxAbsolute - 1), NEW i \in 0 .. (SeqModulus - 1), NEW c \in Nat,
         c <= MaxAbsolute, Distance(p, c) < SeqModulus \div 2
  PROVE  unwrap(wrap(p, i), i, c) = p
<1> DEFINE S == SeqModulus
           h == SeqModulus \div 2
           n == wrap(p, i)
           u == unwrap(n, i, c)
           low == (n - i) % S
<1>1. S \in Nat /\ S > 0 /\ h \in Nat /\ S = 2 * h
      /\ p \in 0 .. (AbsModulus - 1) /\ p \in Nat
  BY ModuliAssumption DEF MaxAbsolute
<1>2. n \in 0 .. (SeqModulus - 1)
  BY <1>1, ModuliAssumption DEF wrap
<1> HIDE DEF n
<1>3. u \in 0 .. (AbsModulus - 1) /\ wrap(u, i) = n /\ Distance(u, c) <= Distance(p, c)
  BY <1>1, <1>2, Closest DEF n
<1> HIDE DEF u
<1>4. u % S = low /\ p % S = low
  BY <1>1, <1>2, <1>3, SamePlace, ZenonT(60) DEF n
<1> HIDE DEF low
<1>5. PICK a \in Int : u = S * a + low /\ S * a \in Int
  BY <1>3, <1>4, Start
<1>6. PICK b \in Int : p = S * b + low /\ S * b \in Int
  BY <1>1, <1>4, Start, ZenonT(60)
<1> DEFINE U == S * a
           P == S * b
<1>7. U = P \/ U = P + S \/ U = P - S \/ U >= P + 2 * S \/ U <= P - 2 * S
  BY MultiplesOrder
<1>8. u = U + low /\ p = P + low /\ U \in Int /\ P \in Int /\ low \in 0 .. (S - 1)
  BY <1>1, <1>3, <1>4, <1>5, <1>6, Periods
<1>9. Distance(u, c) < h /\ Distance(p, c) < h
  BY <1>1, <1>3 DEF Distance
<1> HIDE DEF U, P, S, h
<1> QED BY <1>1, <1>3, <1>7, <1>8, <1>9 DEF Distance, u, n

\* unwrap finds a number of the first half period again when the checkpoint
\* is there too.
LEMMA FoundNearby ==
  ASSUME NEW p \in Nat, p < SeqModulus \div 2 + 1, p < SeqModulus,
         NEW n \in Nat, n < SeqModulus \div 2, NEW i \in 0 .. (SeqModulus - 1)
  PROVE  unwrap(wrap(p, i), i, n) = p
<1> DEFINE S == SeqModulus
           m == wrap(p, i)
           half == S \div 2
<1>1. S \in Nat /\ S > 0 /\ S <= AbsModulus /\ AbsModulus \in Nat
  BY ModuliAssumption, OnePeriod DEF MaxAbsolute
<1>2. half \in Nat /\ half < S
  BY <1>1
<1>3. m \in 0 .. (S - 1)
  BY <1>1, ModuliAssumption DEF wrap
<1>4. p % S = (m - i) % S
  BY <1>1, <1>3, SamePlace
<1>5. p % S = p /\ n % S = n
  BY <1>1, <1>2
<1>6. (m - i) % S = p
  BY <1>4, <1>5
<1> HIDE DEF half, m
<1>7. unwrap(m, i, n) = IF n <= p THEN p
                        ELSE IF Distance(n, p + (n - n)) <= half THEN p + (n - n)
                        ELSE IF n <= p + (n - n)
                             THEN IF S <= p + (n - n) THEN p + (n - n) - S ELSE p + (n - n)
                        ELSE (p + (n - n) + S) % AbsModulus
  BY <1>5, <1>6 DEF unwrap, half
<1>8. p + (n - n) = p /\ (n > p => Distance(n, p) = n - p)
  BY DEF Distance
<1>9. n > p => n - p <= half
  BY <1>2 DEF half
<1> QED BY <1>7, <1>8, <1>9 DEF m
-------------------------------------------------------------------------------
\* What unwrap found is the position named, so the checkpoint is one of them.
Found ==
  /\ isn \in 0 .. (SeqModulus - 1)
  /\ checkpoint \in Nat /\ checkpoint <= MaxAbsolute
  /\ RoundTrip

\* The inductive invariant.
THEOREM FoundHolds == NumbersSpec => []Found
<1>1. NumbersInit => Found
  BY OnePeriod DEF NumbersInit, Found, RoundTrip
<1>2. Found /\ [NumbersNext]_numbers => Found'
  <2> SUFFICES ASSUME Found, [NumbersNext]_numbers PROVE Found'
    OBVIOUS
  <2>1. CASE NumbersNext
    <3>1. PICK p \in 0 .. (MaxAbsolute - 1) :
            /\ Distance(p, checkpoint) < SeqModulus \div 2
            /\ named' = p
            /\ found' = unwrap(wrap(p, isn), isn, checkpoint)
            /\ checkpoint' = IF found' > checkpoint THEN found' ELSE checkpoint
            /\ isn' = isn
      BY <2>1 DEF NumbersNext, Arrive
    <3>2. found' = p
      BY <3>1, FoundAgain DEF Found
    <3> QED BY <3>1, <3>2, OnePeriod DEF Found, RoundTrip
  <2>2. CASE UNCHANGED numbers
    BY <2>2 DEF numbers, Found, RoundTrip
  <2> QED BY <2>1, <2>2
<1> QED BY <1>1, <1>2, PTL DEF NumbersSpec

\* unwrap gives the closest number that wraps to n, whatever the moduli.
THEOREM UnwrapIsClosestHolds == NumbersSpec => []UnwrapIsClosest
<1>1. Found => UnwrapIsClosest
  BY Closest DEF Found, UnwrapIsClosest
<1> QED BY <1>1, FoundHolds, PTL

\* wrap and unwrap lose no position that is less than half a period from the
\* checkpoint, after any number of wrap-arounds, whatever the moduli.
THEOREM RoundTripHolds == NumbersSpec => []RoundTrip
<1>1. Found => RoundTrip
  BY DEF Found
<1> QED BY <1>1, FoundHolds, PTL
===============================================================================
